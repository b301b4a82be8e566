--------------------------- MODULE RolloutProofs ---------------------------
(***************************************************************************)
(* Theorems about Rollout, for every number of goroutines, of machine      *)
(* objects and of versions, and every configuration of the canary.         *)
(***************************************************************************)
EXTENDS Rollout, TLAPS

USE CanaryAssumption, EnvironmentAssumption, NoneAssumption

-----------------------------------------------------------------------------
(* Goroutines follow their handler's program and end with an event that    *)
(* the state they were started for accepts.                                *)

WellFormed(r) ==
    /\ r.pc \in DOMAIN Steps[r.kind] \cup {"raise"}
    /\ r.pc = "raise" => r.event \in Events /\ Accepts(r.kind, r.event)
    /\ r.also # None =>
          /\ r.pc = "raise" /\ r.kind = "monitor" /\ r.event = "fail"
          /\ r.also = "unhealthy" /\ "strategy" \in Faults

WorkersOK == \A w \in Workers : Live(w) => WellFormed(worker[w])

\* A worker's own steps: it stays the goroutine it is, and well formed.
Continues(w) ==
    /\ worker' \in [Workers -> WorkerRecords \cup {None}]
    /\ worker'[w] \in WorkerRecords
    /\ worker'[w].sm = worker[w].sm
    /\ worker'[w].kind = worker[w].kind
    /\ WellFormed(worker'[w])
    /\ \A v \in Workers \ {w} : worker'[v] = worker[v]

\* Every step of a handler's program leads to another step of it, or to the
\* event it ends with.
LEMMA ProgramsClosed ==
    ASSUME NEW k \in Active, NEW p \in DOMAIN Steps[k]
    PROVE  /\ Steps[k][p] \in DOMAIN Steps[k] \cup {"raise"}
           /\ p \in StepNames
           /\ p # "raise"
<1>1. CASE k = "configure"
  BY <1>1, SMTT(30) DEF Steps, ConfigureSteps, StepNames
<1>2. CASE k = "deploy"
  BY <1>2, SMTT(30) DEF Steps, DeploySteps, StepNames
<1>3. CASE k = "monitor"
  BY <1>3, SMTT(30) DEF Steps, MonitorSteps, StepNames
<1>4. CASE k = "scale"
  BY <1>4, SMTT(30) DEF Steps, ScaleSteps, StepNames
<1>5. CASE k = "promote"
  BY <1>5, SMTT(30) DEF Steps, PromoteSteps, StepNames
<1>6. CASE k = "rollback"
  BY <1>6, SMTT(30) DEF Steps, RollbackSteps, StepNames
<1>7. CASE k = "destroy"
  BY <1>7, SMTT(30) DEF Steps, DestroySteps, StepNames
<1> QED
  BY <1>1, <1>2, <1>3, <1>4, <1>5, <1>6, <1>7 DEF Active

\* The first step of a handler is one of its program.
LEMMA FirstStepOK ==
    ASSUME NEW k \in Active
    PROVE  FirstStep[k] \in DOMAIN Steps[k]
<1>1. CASE k \in {"configure", "deploy", "destroy"}
  BY <1>1, SMTT(30) DEF FirstStep, Steps, ConfigureSteps, DeploySteps, DestroySteps
<1>2. CASE k \in {"monitor", "scale", "promote", "rollback"}
  BY <1>2, SMTT(30) DEF FirstStep, Steps, MonitorSteps, ScaleSteps, PromoteSteps,
                        RollbackSteps
<1> QED
  BY <1>1, <1>2 DEF Active

\* An accepted event leads to a state, and the outcome of a handler is
\* accepted by its own state.
LEMMA TargetOK ==
    ASSUME NEW s \in States, NEW e \in Events, Accepts(s, e)
    PROVE  Target(s, e) \in States
BY DEF Target, Accepts, Sources, Destination, Events, States, Active, Rest

\* The event a handler ends with is one its own state accepts.
LEMMA OutcomeOK ==
    ASSUME NEW k \in Active \ {"monitor"}
    PROVE  Outcome[k] \in Events /\ Accepts(k, Outcome[k])
BY DEF Outcome, Events, Accepts, Sources, Active

\* Event_fail is accepted everywhere but in state fail.
LEMMA FailAccepted ==
    ASSUME NEW k \in Active
    PROVE  "fail" \in Events /\ Accepts(k, "fail")
BY DEF Events, Accepts, Sources, States, Active

\* A live worker is a record.
LEMMA LiveIsRecord ==
    ASSUME TypeOK, NEW w \in Workers, Live(w)
    PROVE  worker[w] \in WorkerRecords
BY DEF TypeOK, Live

\* The goroutine a callback starts is well formed.
LEMMA StartedOK ==
    ASSUME NEW m \in Machines, NEW k \in Active, NEW t \in 0..100
    PROVE  /\ Started(m, k, t) \in WorkerRecords
           /\ WellFormed(Started(m, k, t))
           /\ Started(m, k, t).sm = m
           /\ Started(m, k, t).kind = k
<1>1. FirstStep[k] \in DOMAIN Steps[k] /\ FirstStep[k] \in StepNames
      /\ FirstStep[k] # "raise"
  BY FirstStepOK, ProgramsClosed
<1>2. Started(m, k, t) \in WorkerRecords
  BY <1>1 DEF Started, WorkerRecords
<1> QED
  BY <1>1, <1>2 DEF Started, WellFormed

\* Every state but those at rest has a goroutine of its own to start.
LEMMA StartedAll ==
    \A m \in Machines, k \in Active, t \in 0..100 :
        /\ Started(m, k, t) \in WorkerRecords
        /\ Started(m, k, t).sm = m
        /\ Started(m, k, t).kind = k
BY StartedOK

\* Replacing the record of w by one of the same goroutine.
LEMMA ReplacedContinues ==
    ASSUME TypeOK, NEW w \in Workers, Live(w), NEW r \in WorkerRecords,
           r.sm = worker[w].sm, r.kind = worker[w].kind, WellFormed(r),
           worker' = [worker EXCEPT ![w] = r]
    PROVE  Continues(w)
BY DEF Continues, TypeOK

\* Going to another step of the program, raising an event that the handler's
\* state accepts, and proceeding after a call that succeeded.
LEMMA GotoContinues ==
    ASSUME TypeOK, WorkersOK, NEW w \in Workers, Live(w), worker[w].pc # "raise",
           NEW p \in DOMAIN Steps[worker[w].kind], Goto(w, p)
    PROVE  Continues(w)
<1> DEFINE r == [worker[w] EXCEPT !.pc = p]
<1>1. worker[w] \in WorkerRecords /\ WellFormed(worker[w])
  BY LiveIsRecord DEF WorkersOK
<1>2. worker[w].kind \in Active
  BY <1>1 DEF WorkerRecords
<1>3. p \in StepNames /\ p # "raise"
  BY <1>2, ProgramsClosed
<1>4. r \in WorkerRecords
  BY <1>1, <1>3 DEF WorkerRecords
<1>5. r.sm = worker[w].sm /\ r.kind = worker[w].kind /\ r.pc = p /\ r.also = worker[w].also
  BY <1>1 DEF WorkerRecords
<1>6. WellFormed(r)
  BY <1>1, <1>3, <1>5 DEF WellFormed
<1>7. worker' = [worker EXCEPT ![w] = r]
  BY <1>1 DEF Goto
<1> HIDE DEF r
<1> QED
  BY <1>4, <1>5, <1>6, <1>7, ReplacedContinues

\* Raising an event that the state of the handler accepts.
LEMMA RaisingContinues ==
    ASSUME TypeOK, WorkersOK, NEW w \in Workers, Live(w), worker[w].pc # "raise",
           NEW e \in Events, Accepts(worker[w].kind, e), Raising(w, e)
    PROVE  Continues(w)
<1> DEFINE r == [worker[w] EXCEPT !.pc = "raise", !.event = e]
<1>1. worker[w] \in WorkerRecords /\ WellFormed(worker[w])
  BY LiveIsRecord DEF WorkersOK
<1>2. "raise" \in StepNames
  BY DEF StepNames
<1>3. r \in WorkerRecords
  BY <1>1, <1>2 DEF WorkerRecords
<1>4. /\ r.sm = worker[w].sm /\ r.kind = worker[w].kind /\ r.pc = "raise"
      /\ r.event = e /\ r.also = worker[w].also
  BY <1>1 DEF WorkerRecords
<1>5. WellFormed(r)
  BY <1>1, <1>4 DEF WellFormed
<1>6. worker' = [worker EXCEPT ![w] = r]
  BY <1>1 DEF Raising, TypeOK, WorkerRecords
<1> HIDE DEF r
<1> QED
  BY <1>3, <1>4, <1>5, <1>6, ReplacedContinues

\* The record of a worker whose call has succeeded.
LEMMA SucceededOK ==
    ASSUME TypeOK, WorkersOK, NEW w \in Workers, Live(w), worker[w].pc # "raise",
           worker[w].pc # "execute"
    PROVE  /\ Succeeded(w) \in WorkerRecords
           /\ WellFormed(Succeeded(w))
           /\ Succeeded(w).sm = worker[w].sm
           /\ Succeeded(w).kind = worker[w].kind
<1> DEFINE k == worker[w].kind
           next == Steps[k][worker[w].pc]
           e == IF next = "raise" THEN Outcome[k] ELSE None
<1>1. worker[w] \in WorkerRecords /\ WellFormed(worker[w])
  BY LiveIsRecord DEF WorkersOK
<1>2. k \in Active /\ worker[w].pc \in DOMAIN Steps[k]
  BY <1>1 DEF WorkerRecords, WellFormed
<1>3. next \in DOMAIN Steps[k] \cup {"raise"}
  BY <1>2, ProgramsClosed
<1>4. next \in StepNames
  BY <1>2, <1>3, ProgramsClosed DEF StepNames
<1>5. next = "raise" => k # "monitor"
  <2>1. CASE k = "monitor"
    BY <1>2, <2>1 DEF Steps, MonitorSteps
  <2> QED
    BY <2>1
<1>6. e \in Events \cup {None} /\ (next = "raise" => e \in Events /\ Accepts(k, e))
  BY <1>2, <1>5, OutcomeOK
<1>7. Succeeded(w) = [worker[w] EXCEPT !.pc = next, !.event = e]
  BY DEF Succeeded
<1> HIDE DEF next, e, k
<1>8. /\ Succeeded(w) \in WorkerRecords
      /\ Succeeded(w).sm = worker[w].sm /\ Succeeded(w).kind = worker[w].kind
      /\ Succeeded(w).pc = next /\ Succeeded(w).event = e
      /\ Succeeded(w).also = worker[w].also
  BY <1>1, <1>4, <1>6, <1>7 DEF WorkerRecords
<1> QED
  BY <1>1, <1>3, <1>6, <1>8 DEF WellFormed, k

\* Proceeding after a call that succeeded.
LEMMA ProceedContinues ==
    ASSUME TypeOK, WorkersOK, NEW w \in Workers, Live(w), worker[w].pc # "raise",
           worker[w].pc # "execute", Proceed(w)
    PROVE  Continues(w)
BY SucceededOK, ReplacedContinues DEF Proceed

\* A call that fails ends the goroutine with event_fail.
LEMMA AbortContinues ==
    ASSUME TypeOK, WorkersOK, NEW w \in Workers, Live(w), worker[w].pc # "raise",
           Abort(w) \/ CallFails(w)
    PROVE  Continues(w)
<1>1. worker[w].kind \in Active
  BY LiveIsRecord DEF WorkerRecords
<1> QED
  BY <1>1, FailAccepted, RaisingContinues DEF Abort, CallFails

\* Which handlers contain a step: what the branches of the actions rely on.
LEMMA StepOfKind ==
    ASSUME NEW k \in Active, NEW p \in DOMAIN Steps[k]
    PROVE  /\ p = "lookup" => k \in {"configure", "deploy"}
           /\ p \in {"find", "deletePrimary"} => k = "promote"
           /\ p \in {"findPrimary", "deleteCandidate", "restore", "restoreReady",
                     "candidateHealthy", "removePrimary", "destroyConfig"} => k = "destroy"
           /\ p = "clone" => k \in {"configure", "deploy", "promote"}
           /\ p = "cloneReady" => k \in {"configure", "deploy", "promote"}
           /\ p \in {"scaleDown", "drain", "removeCandidate"} =>
                 k \in {"configure", "deploy", "promote", "rollback"}
           /\ p = "scaleUp" => k \in {"promote", "destroy"}
           /\ p = "settle" => k \in {"configure", "promote", "destroy"}
           /\ p = "scaleStep" => k = "scale"
           /\ p = "primaryHealthy" => k \in {"configure", "deploy", "promote"}
           /\ p \in {"test", "execute"} => k = "monitor"
<1>1. CASE k = "configure"
  BY <1>1, SMTT(30) DEF Steps, ConfigureSteps
<1>2. CASE k = "deploy"
  BY <1>2, SMTT(30) DEF Steps, DeploySteps
<1>3. CASE k = "monitor"
  BY <1>3, SMTT(30) DEF Steps, MonitorSteps
<1>4. CASE k = "scale"
  BY <1>4, SMTT(30) DEF Steps, ScaleSteps
<1>5. CASE k = "promote"
  BY <1>5, SMTT(30) DEF Steps, PromoteSteps
<1>6. CASE k = "rollback"
  BY <1>6, SMTT(30) DEF Steps, RollbackSteps
<1>7. CASE k = "destroy"
  BY <1>7, SMTT(30) DEF Steps, DestroySteps
<1> QED
  BY <1>1, <1>2, <1>3, <1>4, <1>5, <1>6, <1>7 DEF Active

\* The steps that are the goals of a jump.
LEMMA JumpTargets ==
    /\ \A k \in {"configure", "deploy", "promote"} : "primaryHealthy" \in DOMAIN Steps[k]
    /\ "candidateHealthy" \in DOMAIN Steps["destroy"]
<1>1. "primaryHealthy" \in DOMAIN Steps["configure"]
  BY DEF Steps, ConfigureSteps
<1>2. "primaryHealthy" \in DOMAIN Steps["deploy"]
  BY DEF Steps, DeploySteps
<1>3. "primaryHealthy" \in DOMAIN Steps["promote"]
  BY DEF Steps, PromoteSteps
<1>4. "candidateHealthy" \in DOMAIN Steps["destroy"]
  BY DEF Steps, DestroySteps
<1> QED
  BY <1>1, <1>2, <1>3, <1>4

-----------------------------------------------------------------------------
(* Every step of a goroutine but its last leaves the machines alone and    *)
(* goes on with the handler's program.                                     *)

InnerStep(w) ==
    \/ Releasing(w) \/ Monitoring(w)
    \/ LookupPrimary(w) \/ ClonePrimary(w) \/ AwaitClone(w) \/ FindCandidate(w)
    \/ DeletePrimary(w) \/ RemoveCandidate(w) \/ FindPrimary(w)
    \/ DeleteCandidate(w) \/ RestoreCandidate(w) \/ AwaitRestored(w)
    \/ RemovePrimary(w)

\* A step of a worker is a call, an event, or the clone that redeploys.
LEMMA WorkerStepCases ==
    ASSUME NEW w \in Workers, WorkerStep(w)
    PROVE  InnerStep(w) \/ RestoreRedeploys(w) \/ RaiseEvent(w)
BY DEF WorkerStep, InnerStep, Deploying

\* The canary returns what its handler's state accepts, and traffic in range.
LEMMA ReturnsContinues ==
    ASSUME TypeOK, WorkersOK, NEW w \in Workers, At(w, "execute"),
           NEW e \in {"healthy", "complete", "unhealthy"},
           NEW t \in -1..100, e = "healthy" => t \in 0..100, Returns(w, e, t)
    PROVE  /\ Continues(w)
           /\ canary' \in [Machines -> -1..100]
           /\ saved' \in -1..100
<1> DEFINE u == IF e = "healthy" THEN t ELSE 0
           r == [worker[w] EXCEPT !.pc = "raise", !.event = e, !.traffic = u]
<1>1. worker[w] \in WorkerRecords /\ WellFormed(worker[w]) /\ Live(w)
  BY LiveIsRecord DEF WorkersOK, At
<1>2. worker[w].kind = "monitor" /\ worker[w].also = None
  BY <1>1, StepOfKind DEF At, WellFormed, WorkerRecords
<1>3. e \in Events /\ Accepts("monitor", e) /\ "raise" \in StepNames /\ u \in 0..100
  BY DEF Events, Accepts, Sources, StepNames
<1>4. worker' = [worker EXCEPT ![w] = r]
  BY <1>1 DEF Returns, TypeOK, WorkerRecords
<1> HIDE DEF u
<1>5. /\ r \in WorkerRecords
      /\ r.sm = worker[w].sm /\ r.kind = worker[w].kind /\ r.pc = "raise"
      /\ r.event = e /\ r.also = None
  BY <1>1, <1>2, <1>3 DEF WorkerRecords
<1>6. WellFormed(r)
  BY <1>2, <1>3, <1>5 DEF WellFormed
<1> HIDE DEF r
<1>7. Continues(w)
  BY <1>1, <1>4, <1>5, <1>6, ReplacedContinues
<1>8. worker[w].sm \in Machines
  BY <1>1 DEF WorkerRecords
<1> QED
  BY <1>7, <1>8 DEF Returns, TypeOK

\* A share below the maximum is a percentage.
LEMMA StepInRange ==
    ASSUME NEW c \in -1..100, c # -1, ~(c + TrafficStep >= MaxTraffic)
    PROVE  c + TrafficStep \in 0..100 /\ c + TrafficStep \in -1..100
OBVIOUS

\* The steps of the monitor state continue their worker.
LEMMA MonitoringContinues ==
    ASSUME TypeOK, WorkersOK, NEW w \in Workers, Monitoring(w)
    PROVE  /\ Continues(w)
           /\ canary' \in [Machines -> -1..100]
           /\ saved' \in -1..100
           /\ tested' \in Versions \cup {None}
           /\ UNCHANGED <<fsm, current, platform, installed>>
<1>0. Live(w) /\ worker[w].pc \in {"test", "execute"}
  BY DEF Monitoring, RunTest, ExecuteFirst, CheckPasses, CheckFails, StrategyFails, At
<1>1. worker[w] \in WorkerRecords /\ WellFormed(worker[w])
  BY <1>0, LiveIsRecord DEF WorkersOK
<1>2. worker[w].kind = "monitor" /\ worker[w].also = None
  BY <1>0, <1>1, StepOfKind DEF WellFormed, WorkerRecords
<1>3. worker[w].sm \in Machines /\ canary[worker[w].sm] \in -1..100
  BY <1>1 DEF WorkerRecords, TypeOK
<1>9. tested \in Versions \cup {None} /\ canary \in [Machines -> -1..100]
      /\ saved \in -1..100
  BY DEF TypeOK
<1>10. -1 \in -1..100
  OBVIOUS
<1>4. CASE RunTest(w)
  <2>1. "unhealthy" \in Events /\ Accepts("monitor", "unhealthy")
    BY DEF Events, Accepts, Sources
  <2>2. Continues(w)
    BY <1>0, <1>2, <1>4, <2>1, ProceedContinues, RaisingContinues DEF RunTest, At
  <2> QED
    BY <1>4, <1>9, <2>2 DEF RunTest, strategy
<1>5. CASE ExecuteFirst(w)
  <2>1. FirstTraffic \in 0..100 /\ FirstTraffic \in -1..100
    BY DEF FirstTraffic
  <2>2. At(w, "execute") /\ Returns(w, "healthy", FirstTraffic)
    BY <1>5 DEF ExecuteFirst
  <2>3. Continues(w) /\ canary' \in [Machines -> -1..100] /\ saved' \in -1..100
    BY <2>1, <2>2, ReturnsContinues, ZenonT(60)
  <2> QED
    BY <1>5, <1>9, <2>3 DEF ExecuteFirst
<1>6. CASE CheckPasses(w)
  <2> DEFINE traffic == canary[worker[w].sm] + TrafficStep
  <2>1. CASE traffic >= MaxTraffic
    <3>1. Returns(w, "complete", -1) /\ tested' = dep["candidate"].ver
      BY <1>6, <2>1 DEF CheckPasses
    <3>2. dep["candidate"].ver \in Versions \cup {None}
      BY DEF TypeOK, Deployments, Subsets
    <3>0. At(w, "execute")
      BY <1>6 DEF CheckPasses
    <3>3. Continues(w) /\ canary' \in [Machines -> -1..100] /\ saved' \in -1..100
      BY <1>10, <3>0, <3>1, ReturnsContinues, ZenonT(60)
    <3> QED
      BY <1>6, <3>1, <3>2, <3>3 DEF CheckPasses
  <2>2. CASE ~(traffic >= MaxTraffic)
    <3>1. Returns(w, "healthy", traffic) /\ tested' = tested
      BY <1>6, <2>2 DEF CheckPasses
    <3>0. canary[worker[w].sm] # -1
      BY <1>6 DEF CheckPasses
    <3>2. traffic \in 0..100 /\ traffic \in -1..100
      BY <1>3, <2>2, <3>0, StepInRange
    <3> HIDE DEF traffic
    <3>3. Continues(w) /\ canary' \in [Machines -> -1..100] /\ saved' \in -1..100
      BY <1>6, <3>1, <3>2, ReturnsContinues, ZenonT(60) DEF CheckPasses
    <3> QED
      BY <1>6, <1>9, <3>1, <3>3 DEF CheckPasses
  <2> QED
    BY <2>1, <2>2
<1>7. CASE CheckFails(w)
  <2>1. CASE worker[w].fails + 1 >= ErrorThreshold
    <3>1. At(w, "execute") /\ Returns(w, "unhealthy", -1)
      BY <1>7, <2>1 DEF CheckFails
    <3>2. Continues(w) /\ canary' \in [Machines -> -1..100] /\ saved' \in -1..100
      BY <1>10, <3>1, ReturnsContinues, ZenonT(60)
    <3> QED
      BY <1>7, <1>9, <3>2 DEF CheckFails
  <2>2. CASE ~(worker[w].fails + 1 >= ErrorThreshold)
    <3> DEFINE r == [worker[w] EXCEPT !.fails = worker[w].fails + 1]
    <3>1. worker' = [worker EXCEPT ![w] = r] /\ canary' = canary
          /\ saved' = canary[worker[w].sm]
      BY <1>7, <2>2 DEF CheckFails
    <3>2. /\ r \in WorkerRecords
          /\ r.sm = worker[w].sm /\ r.kind = worker[w].kind
          /\ r.pc = worker[w].pc /\ r.event = worker[w].event /\ r.also = worker[w].also
      BY <1>1, <2>2 DEF WorkerRecords
    <3>3. WellFormed(r)
      BY <1>1, <3>2 DEF WellFormed
    <3> HIDE DEF r
    <3>4. Continues(w)
      BY <1>0, <3>1, <3>2, <3>3, ReplacedContinues
    <3> QED
      BY <1>3, <1>7, <1>9, <3>1, <3>4 DEF CheckFails
  <2> QED
    BY <2>1, <2>2
<1>8. CASE StrategyFails(w)
  <2> DEFINE r == [worker[w] EXCEPT !.pc = "raise", !.event = "fail", !.also = "unhealthy"]
  <2>1. worker' = [worker EXCEPT ![w] = r] /\ "strategy" \in Faults
    BY <1>1, <1>8 DEF StrategyFails, TypeOK, WorkerRecords
  <2>2. "raise" \in StepNames /\ "unhealthy" \in Events
    BY DEF StepNames, Events
  <2>3. /\ r \in WorkerRecords
        /\ r.sm = worker[w].sm /\ r.kind = worker[w].kind
        /\ r.pc = "raise" /\ r.event = "fail" /\ r.also = "unhealthy"
    BY <1>1, <2>2, FailAccepted DEF WorkerRecords
  <2>4. WellFormed(r)
    BY <1>1, <1>2, <2>1, <2>3, FailAccepted DEF WellFormed, WorkerRecords
  <2> HIDE DEF r
  <2>5. Continues(w)
    BY <1>0, <2>1, <2>3, <2>4, ReplacedContinues
  <2>10. FirstTraffic \in -1..100
    BY DEF FirstTraffic
  <2>6. /\ saved' = FirstTraffic \/ saved' = canary[worker[w].sm]
        /\ canary' = [canary EXCEPT ![worker[w].sm] = saved']
    BY <1>8 DEF StrategyFails
  <2>7. saved' \in -1..100
    BY <1>3, <2>6, <2>10, Zenon
  <2>8. canary' \in [Machines -> -1..100]
    BY <2>6, <2>7, Zenon DEF TypeOK
  <2>9. tested' \in Versions \cup {None} /\ UNCHANGED <<fsm, current, platform, installed>>
    BY <1>8, <1>9 DEF StrategyFails
  <2> QED
    BY <2>5, <2>7, <2>8, <2>9
<1> QED
  BY <1>4, <1>5, <1>6, <1>7, <1>8 DEF Monitoring

\* What a step leaves of the types of the variables that hold the deployments
\* and the traffic.
PlatformOK ==
    /\ dep \in [Subsets -> Deployments]
    /\ split \in 0..100
    /\ mesh \in 0..100
    /\ installed \in BOOLEAN

\* The calls to the releaser plugin continue their worker.
LEMMA ReleasingContinues ==
    ASSUME TypeOK, WorkersOK, NEW w \in Workers, Releasing(w)
    PROVE  /\ Continues(w)
           /\ PlatformOK'
           /\ UNCHANGED <<fsm, current, dep, mesh, strategy, installed>>
<1>0. PlatformOK
  BY DEF TypeOK, PlatformOK
<1>1. Live(w) /\ worker[w].pc # "raise" /\ worker[w].pc # "execute"
  BY DEF Releasing, Setup, Sleep, Scale, WaitHealthy, DestroyConfig, At
<1>2. worker[w] \in WorkerRecords /\ WellFormed(worker[w])
  BY <1>1, LiveIsRecord DEF WorkersOK
<1>3. Proceed(w) => Continues(w)
  BY <1>1, ProceedContinues
<1>4. Abort(w) \/ CallFails(w) => Continues(w)
  BY <1>1, AbortContinues
<1>5. CASE Setup(w)
  BY <1>0, <1>3, <1>4, <1>5 DEF Setup, platform, PlatformOK
<1>6. CASE Sleep(w)
  BY <1>0, <1>3, <1>6 DEF Sleep, platform, PlatformOK
<1>7. CASE Scale(w)
  <2>1. ScaledDown(w) => Continues(w)
    <3>1. SUFFICES ASSUME worker[w].kind = "deploy", Raising(w, "deployed")
                   PROVE  Continues(w)
      BY <1>3 DEF ScaledDown
    <3>2. "deployed" \in Events /\ Accepts("deploy", "deployed")
      BY DEF Events, Accepts, Sources
    <3> QED
      BY <1>1, <3>1, <3>2, RaisingContinues
  <2>2. Continues(w)
    BY <1>3, <1>4, <1>7, <2>1 DEF Scale
  <2>3. split' \in 0..100
    <3>1. worker[w].traffic \in 0..100 /\ split \in 0..100
      BY <1>0, <1>2 DEF WorkerRecords, PlatformOK
    <3> QED
      BY <1>7, <3>1 DEF Scale
  <2> QED
    BY <1>0, <1>7, <2>2, <2>3 DEF Scale, PlatformOK
<1>8. CASE WaitHealthy(w)
  BY <1>0, <1>3, <1>4, <1>8 DEF WaitHealthy, platform, PlatformOK
<1>9. CASE DestroyConfig(w)
  <2>1. Continues(w)
    BY <1>3, <1>4, <1>9 DEF DestroyConfig
  <2>2. split' \in 0..100
    BY <1>0, <1>9 DEF DestroyConfig, PlatformOK
  <2> QED
    BY <1>0, <1>9, <2>1, <2>2 DEF DestroyConfig, PlatformOK
<1> QED
  BY <1>5, <1>6, <1>7, <1>8, <1>9 DEF Releasing

\* Writes of deployments keep their type.
LEMMA DeploymentWrites ==
    ASSUME PlatformOK, NEW d \in Subsets
    PROVE  /\ dep[d] \in Deployments
           /\ Absent \in Deployments
           /\ CloneOf(dep[d]) \in Deployments
           /\ \A c \in Deployments : [dep EXCEPT ![d] = c] \in [Subsets -> Deployments]
           /\ \A phase \in {"absent", "zero", "starting", "ready"} :
                 [dep EXCEPT ![d].phase = phase] \in [Subsets -> Deployments]
<1>1. dep[d] \in Deployments /\ dep \in [Subsets -> Deployments]
  BY DEF PlatformOK
<1>2. CloneOf(dep[d]) \in Deployments /\ Absent \in Deployments
  BY <1>1 DEF CloneOf, Deployments, Absent
<1>3. ASSUME NEW phase \in {"absent", "zero", "starting", "ready"}
      PROVE  [dep EXCEPT ![d].phase = phase] \in [Subsets -> Deployments]
  BY <1>1 DEF Deployments
<1> QED
  BY <1>1, <1>2, <1>3

\* The calls of the runtime plugin continue their worker.
LEMMA DeployingContinues ==
    ASSUME TypeOK, WorkersOK, NEW w \in Workers, InnerStep(w),
           ~Releasing(w), ~Monitoring(w)
    PROVE  /\ Continues(w)
           /\ PlatformOK'
           /\ UNCHANGED <<fsm, current, split, mesh, strategy>>
<1>0. PlatformOK
  BY DEF TypeOK, PlatformOK
<1>1. Live(w) /\ worker[w].pc # "raise" /\ worker[w].pc # "execute"
  BY DEF InnerStep, LookupPrimary, ClonePrimary, AwaitClone, FindCandidate,
         DeletePrimary, RemoveCandidate, FindPrimary, DeleteCandidate,
         RestoreCandidate, AwaitRestored, RemovePrimary, At
<1>2. worker[w] \in WorkerRecords /\ WellFormed(worker[w]) /\ worker[w].kind \in Active
      /\ worker[w].pc \in DOMAIN Steps[worker[w].kind]
  BY <1>1, LiveIsRecord DEF WorkersOK, WellFormed, WorkerRecords
<1>3. Proceed(w) => Continues(w)
  BY <1>1, ProceedContinues
<1>4. Abort(w) \/ CallFails(w) => Continues(w)
  BY <1>1, AbortContinues
<1> DEFINE same == PlatformOK' /\ UNCHANGED <<fsm, current, split, mesh, strategy>>
<1>5. CASE LookupPrimary(w)
  <2>1. NoAction(w) => Continues(w)
    <3>1. worker[w].kind \in {"configure", "deploy"}
      BY <1>2, <1>5, StepOfKind DEF LookupPrimary, At
    <3>2. "configured" \in Events /\ Accepts("configure", "configured")
      BY DEF Events, Accepts, Sources
    <3> QED
      BY <1>1, <3>1, <3>2, JumpTargets, GotoContinues, RaisingContinues DEF NoAction
  <2> QED
    BY <1>0, <1>3, <1>5, <2>1 DEF LookupPrimary, platform, PlatformOK
<1>6. CASE ClonePrimary(w)
  <2>1. dep' \in [Subsets -> Deployments] /\ installed' \in BOOLEAN
    BY <1>0, <1>6, DeploymentWrites DEF ClonePrimary, PlatformOK, Subsets
  <2> QED
    BY <1>0, <1>3, <1>4, <1>6, <2>1 DEF ClonePrimary, PlatformOK
<1>7. CASE AwaitClone(w)
  <2>1. Continues(w)
    <3>1. CASE worker' = [worker EXCEPT ![w].pc = "primaryHealthy", ![w].created = TRUE]
      <4> DEFINE r == [worker[w] EXCEPT !.pc = "primaryHealthy", !.created = TRUE]
      <4>1. worker[w].kind \in {"configure", "deploy", "promote"}
        BY <1>2, <1>7, StepOfKind DEF AwaitClone, At
      <4>2. "primaryHealthy" \in DOMAIN Steps[worker[w].kind]
            /\ "primaryHealthy" \in StepNames /\ worker[w].also = None
        BY <1>1, <1>2, <4>1, JumpTargets DEF StepNames, WellFormed
      <4>3. /\ r \in WorkerRecords /\ r.sm = worker[w].sm /\ r.kind = worker[w].kind
            /\ r.pc = "primaryHealthy" /\ r.also = None
        BY <1>2, <4>2 DEF WorkerRecords
      <4>4. WellFormed(r)
        BY <4>2, <4>3 DEF WellFormed
      <4>5. worker' = [worker EXCEPT ![w] = r]
        BY <1>2, <3>1 DEF TypeOK, WorkerRecords
      <4> HIDE DEF r
      <4> QED
        BY <1>1, <4>3, <4>4, <4>5, ReplacedContinues
    <3> QED
      BY <1>4, <1>7, <3>1 DEF AwaitClone
  <2> QED
    BY <1>0, <1>7, <2>1 DEF AwaitClone, platform, PlatformOK
<1>8. CASE FindCandidate(w)
  <2>1. worker[w].kind = "promote"
    BY <1>2, <1>8, StepOfKind DEF FindCandidate, At
  <2>2. Goto(w, "primaryHealthy") => Continues(w)
    BY <1>1, <2>1, JumpTargets, GotoContinues
  <2> QED
    BY <1>0, <1>3, <1>4, <1>8, <2>2 DEF FindCandidate, platform, PlatformOK
<1>9. CASE DeletePrimary(w)
  <2>1. dep' \in [Subsets -> Deployments]
    BY <1>0, <1>9, DeploymentWrites DEF DeletePrimary, PlatformOK, Subsets
  <2> QED
    BY <1>0, <1>3, <1>4, <1>9, <2>1 DEF DeletePrimary, PlatformOK
<1>10. CASE RemoveCandidate(w)
  <2>1. dep' \in [Subsets -> Deployments]
    BY <1>0, <1>10, DeploymentWrites DEF RemoveCandidate, PlatformOK, Subsets
  <2> QED
    BY <1>0, <1>3, <1>4, <1>10, <2>1 DEF RemoveCandidate, PlatformOK
<1>11. CASE FindPrimary(w)
  <2>1. worker[w].kind = "destroy"
    BY <1>2, <1>11, StepOfKind DEF FindPrimary, At
  <2>2. Goto(w, "candidateHealthy") => Continues(w)
    BY <1>1, <2>1, JumpTargets, GotoContinues
  <2> QED
    BY <1>0, <1>3, <1>4, <1>11, <2>2 DEF FindPrimary, platform, PlatformOK
<1>12. CASE DeleteCandidate(w)
  <2>1. dep' \in [Subsets -> Deployments]
    BY <1>0, <1>12, DeploymentWrites DEF DeleteCandidate, PlatformOK, Subsets
  <2> QED
    BY <1>0, <1>3, <1>4, <1>12, <2>1 DEF DeleteCandidate, PlatformOK
<1>13. CASE RestoreCandidate(w)
  <2>1. dep' \in [Subsets -> Deployments]
    BY <1>0, <1>13, DeploymentWrites DEF RestoreCandidate, PlatformOK, Subsets
  <2> QED
    BY <1>0, <1>3, <1>4, <1>13, <2>1 DEF RestoreCandidate, PlatformOK
<1>14. CASE AwaitRestored(w)
  BY <1>0, <1>3, <1>4, <1>14 DEF AwaitRestored, platform, PlatformOK
<1>15. CASE RemovePrimary(w)
  <2>1. dep' \in [Subsets -> Deployments]
    BY <1>0, <1>15, DeploymentWrites DEF RemovePrimary, PlatformOK, Subsets
  <2> QED
    BY <1>0, <1>3, <1>4, <1>15, <2>1 DEF RemovePrimary, PlatformOK
<1> QED
  BY <1>5, <1>6, <1>7, <1>8, <1>9, <1>10, <1>11, <1>12, <1>13, <1>14, <1>15 DEF InnerStep

-----------------------------------------------------------------------------
(* Events and the starts of goroutines.                                    *)

\* w ends, or becomes the goroutine of the state its event leads to, or has a
\* second event to raise.
LEMMA RaiseEventOK ==
    ASSUME TypeOK, WorkersOK, NEW w \in Workers, RaiseEvent(w)
    PROVE  LET m == worker[w].sm
               event == worker[w].event
               target == Target(fsm[m], event)
               accepted == Accepts(fsm[m], event)
           IN  /\ m \in Machines /\ event \in Events
               /\ Accepts(worker[w].kind, event)
               /\ worker' \in [Workers -> WorkerRecords \cup {None}]
               /\ \A v \in Workers \ {w} : worker'[v] = worker[v]
               /\ worker'[w] # None => WellFormed(worker'[w])
               /\ fsm' = IF accepted THEN [fsm EXCEPT ![m] = target] ELSE fsm
               /\ accepted => target \in States
               /\ accepted /\ target \in Active =>
                     worker'[w] = Started(m, target, worker[w].traffic)
               /\ worker'[w] # None =>
                     \/ accepted /\ target \in Active
                     \/ "strategy" \in Faults
<1> DEFINE m == worker[w].sm
           event == worker[w].event
           target == Target(fsm[m], event)
           accepted == Accepts(fsm[m], event)
<1>1. Live(w) /\ worker[w].pc = "raise"
  BY DEF RaiseEvent, At
<1>2. worker[w] \in WorkerRecords /\ WellFormed(worker[w])
  BY <1>1, LiveIsRecord DEF WorkersOK
<1>3. m \in Machines /\ event \in Events /\ Accepts(worker[w].kind, event)
      /\ worker[w].traffic \in 0..100 /\ fsm[m] \in States
  BY <1>1, <1>2 DEF WellFormed, WorkerRecords, TypeOK
<1>4. accepted => target \in States
  BY <1>3, TargetOK
<1>5. fsm' = IF accepted THEN [fsm EXCEPT ![m] = target] ELSE fsm
  BY DEF RaiseEvent
<1>6. CASE worker[w].also # None
  <2> DEFINE r == [worker[w] EXCEPT !.event = worker[w].also, !.also = None]
  <2>1. worker' = [worker EXCEPT ![w] = r]
    BY <1>6 DEF RaiseEvent
  <2>2. worker[w].kind = "monitor" /\ event = "fail" /\ worker[w].also = "unhealthy"
        /\ "strategy" \in Faults
    BY <1>2, <1>6 DEF WellFormed
  <2>3. "unhealthy" \in Events /\ Accepts("monitor", "unhealthy")
        /\ Target(fsm[m], "fail") \notin Active
    BY DEF Events, Accepts, Sources, Target, Destination, Active
  <2>4. /\ r \in WorkerRecords /\ r.kind = "monitor" /\ r.pc = "raise"
        /\ r.event = "unhealthy" /\ r.also = None
    BY <1>1, <1>2, <2>2, <2>3 DEF WorkerRecords
  <2>5. WellFormed(r)
    BY <2>3, <2>4 DEF WellFormed
  <2> HIDE DEF r
  <2>6. worker' \in [Workers -> WorkerRecords \cup {None}] /\ worker'[w] = r
        /\ \A v \in Workers \ {w} : worker'[v] = worker[v]
    BY <2>1, <2>4 DEF TypeOK
  <2> QED
    BY <1>3, <1>4, <1>5, <2>2, <2>3, <2>5, <2>6
<1>7. CASE worker[w].also = None /\ accepted /\ target \in Active
  <2> DEFINE r == Started(m, target, worker[w].traffic)
  <2>1. worker' = [worker EXCEPT ![w] = r]
    BY <1>7 DEF RaiseEvent
  <2>2. r \in WorkerRecords /\ WellFormed(r)
    BY <1>3, <1>7, StartedOK
  <2> HIDE DEF r
  <2>3. worker' \in [Workers -> WorkerRecords \cup {None}] /\ worker'[w] = r
        /\ \A v \in Workers \ {w} : worker'[v] = worker[v]
    BY <2>1, <2>2 DEF TypeOK
  <2> QED
    BY <1>3, <1>4, <1>5, <1>7, <2>2, <2>3 DEF r
<1>8. CASE worker[w].also = None /\ ~(accepted /\ target \in Active)
  <2>1. worker' = [worker EXCEPT ![w] = None]
    BY <1>8 DEF RaiseEvent
  <2>2. worker' \in [Workers -> WorkerRecords \cup {None}] /\ worker'[w] = None
        /\ \A v \in Workers \ {w} : worker'[v] = worker[v]
    BY <2>1 DEF TypeOK
  <2> QED
    BY <1>3, <1>4, <1>5, <1>8, <2>2
<1> QED
  BY <1>6, <1>7, <1>8

\* A callback started from outside takes a free slot.
Spawned(m, k) ==
    /\ worker' \in [Workers -> WorkerRecords \cup {None}]
    /\ \A v \in Workers : Live(v) => worker'[v] = worker[v]
    /\ \E w \in Workers :
          /\ ~Live(w)
          /\ worker'[w] = Started(m, k, 0)
          /\ worker'[w] # None
          /\ \A v \in Workers \ {w} : worker'[v] = worker[v]

\* What spawning a goroutine does to the workers.
LEMMA SpawnOK ==
    ASSUME TypeOK, NEW m \in Machines, NEW k \in Active, Spawn(m, k)
    PROVE  Spawned(m, k)
<1>1. PICK w \in Workers : ~Live(w) /\ worker' = [worker EXCEPT ![w] = Started(m, k, 0)]
  BY DEF Spawn
<1>2. Started(m, k, 0) \in WorkerRecords
  BY StartedOK
<1>3. worker' \in [Workers -> WorkerRecords \cup {None}]
      /\ worker'[w] = Started(m, k, 0) /\ worker'[w] # None
      /\ \A v \in Workers \ {w} : worker'[v] = worker[v]
  BY <1>1, <1>2 DEF TypeOK
<1> QED
  BY <1>1, <1>3 DEF Spawned, Live

\* RestoreCandidate's other outcome continues w and starts a deploy.
LEMMA RestoreRedeploysOK ==
    ASSUME TypeOK, WorkersOK, NEW w \in Workers, RestoreRedeploys(w)
    PROVE  \E m \in Machines, v \in Workers :
              /\ ~Live(v) /\ v # w /\ NewMachine(m) /\ current' = m
              /\ fsm' = [fsm EXCEPT ![m] = "deploy"]
              /\ canary' = [canary EXCEPT ![m] = saved]
              /\ worker' \in [Workers -> WorkerRecords \cup {None}]
              /\ worker'[w] # None /\ WellFormed(worker'[w])
              /\ worker'[w].sm = worker[w].sm /\ worker'[w].kind = worker[w].kind
              /\ worker'[v] = Started(m, "deploy", 0) /\ worker'[v] # None
              /\ \A u \in Workers \ {v, w} : worker'[u] = worker[u]
<1>1. PICK m \in Machines, v \in Workers :
         /\ NewMachine(m) /\ ~Live(v) /\ current' = m
         /\ fsm' = [fsm EXCEPT ![m] = Target(fsm[current], "deploy")]
         /\ canary' = [canary EXCEPT ![m] = saved]
         /\ worker' = [worker EXCEPT ![w] = Succeeded(w), ![v] = Started(m, "deploy", 0)]
  BY DEF RestoreRedeploys
<1>2. Live(w) /\ worker[w].pc = "restore" /\ v # w
  BY <1>1 DEF RestoreRedeploys, At
<1>3. Succeeded(w) \in WorkerRecords /\ WellFormed(Succeeded(w))
      /\ Succeeded(w).sm = worker[w].sm /\ Succeeded(w).kind = worker[w].kind
  BY <1>2, SucceededOK
<1>4. Started(m, "deploy", 0) \in WorkerRecords
  BY StartedOK DEF Active
<1>5. Target(fsm[current], "deploy") = "deploy"
  BY DEF Target, Destination
<1>6. /\ worker' \in [Workers -> WorkerRecords \cup {None}]
      /\ worker'[w] = Succeeded(w) /\ worker'[v] = Started(m, "deploy", 0)
      /\ \A u \in Workers \ {v, w} : worker'[u] = worker[u]
  BY <1>1, <1>2, <1>3, <1>4 DEF TypeOK
<1> QED
  BY <1>1, <1>2, <1>3, <1>4, <1>5, <1>6

-----------------------------------------------------------------------------
(* The inductive invariant behind the theorems that hold without any       *)
(* restriction on users and faults.                                        *)

AttendedBy(m, w) == Live(w) /\ worker[w].sm = m /\ worker[w].kind = fsm[m]

IInv == TypeOK /\ WorkersOK /\ Attended

\* The invariant holds initially.
LEMMA IInvInit ==
    ASSUME Init
    PROVE  IInv
<1>1. \A w \in Workers : ~Live(w)
  BY DEF Init, Live
<1>2. \A m \in Machines : fsm[m] \notin Active
  BY DEF Init, Active
<1>3. dep \in [Subsets -> Deployments]
  BY DEF Init, Subsets, Deployments, Absent
<1>4. fsm \in [Machines -> States] /\ current \in Machines
  BY DEF Init, States, Rest
<1>5. worker \in [Workers -> WorkerRecords \cup {None}]
  BY DEF Init
<1>6. split \in 0..100 /\ mesh \in 0..100 /\ saved \in -1..100
  <2>1. split = 100 /\ mesh = 100 /\ saved = -1
    BY DEF Init
  <2> QED
    BY <2>1
<1>7. canary \in [Machines -> -1..100]
  <2>1. canary = [m \in Machines |-> -1] /\ -1 \in -1..100
    BY DEF Init
  <2> QED
    BY <2>1
<1>8. tested \in Versions \cup {None} /\ installed \in BOOLEAN
  BY DEF Init
<1>9. TypeOK
  BY <1>3, <1>4, <1>5, <1>6, <1>7, <1>8 DEF TypeOK
<1> QED
  BY <1>1, <1>2, <1>9 DEF IInv, WorkersOK, Attended

\* A call of a worker keeps the invariant.
LEMMA InnerStepKeepsIInv ==
    ASSUME IInv, NEW w \in Workers, InnerStep(w)
    PROVE  IInv'
<1>1. TypeOK /\ WorkersOK /\ Attended
  BY DEF IInv
<1>2. Continues(w) /\ UNCHANGED <<fsm, current>> /\ PlatformOK'
      /\ canary' \in [Machines -> -1..100] /\ saved' \in -1..100
      /\ tested' \in Versions \cup {None}
  <2>1. CASE Releasing(w)
    BY <1>1, <2>1, ReleasingContinues DEF strategy, TypeOK
  <2>2. CASE Monitoring(w)
    BY <1>1, <2>2, MonitoringContinues DEF platform, TypeOK, PlatformOK
  <2>3. CASE ~Releasing(w) /\ ~Monitoring(w)
    BY <1>1, <2>3, DeployingContinues DEF strategy, TypeOK
  <2> QED
    BY <2>1, <2>2, <2>3
<1>3. TypeOK'
  BY <1>1, <1>2 DEF TypeOK, PlatformOK, Continues
<1>4. WorkersOK'
  BY <1>1, <1>2 DEF WorkersOK, Continues, Live
<1>5. Live(w)'
  BY <1>2 DEF Continues, Live
<1>6. Attended'
  <2>1. SUFFICES ASSUME NEW m \in Machines, fsm'[m] \in Active
                 PROVE  \E v \in Workers : AttendedBy(m, v)'
    BY DEF Attended, AttendedBy
  <2>2. PICK v \in Workers : AttendedBy(m, v)
    BY <1>1, <1>2, <2>1 DEF Attended, AttendedBy
  <2> QED
    BY <1>2, <1>5, <2>2 DEF AttendedBy, Continues, Live
<1> QED
  BY <1>3, <1>4, <1>6 DEF IInv

\* An event raised by a worker keeps the invariant.
LEMMA RaiseEventKeepsIInv ==
    ASSUME IInv, NEW w \in Workers, RaiseEvent(w)
    PROVE  IInv'
<1> DEFINE m == worker[w].sm
           event == worker[w].event
           target == Target(fsm[m], event)
           accepted == Accepts(fsm[m], event)
<1>1. TypeOK /\ WorkersOK /\ Attended /\ Live(w)
  BY DEF IInv, RaiseEvent, At
<1>2. /\ m \in Machines /\ event \in Events
      /\ Accepts(worker[w].kind, event)
      /\ worker' \in [Workers -> WorkerRecords \cup {None}]
      /\ \A v \in Workers \ {w} : worker'[v] = worker[v]
      /\ worker'[w] # None => WellFormed(worker'[w])
      /\ fsm' = IF accepted THEN [fsm EXCEPT ![m] = target] ELSE fsm
      /\ accepted => target \in States
      /\ accepted /\ target \in Active =>
            worker'[w] = Started(m, target, worker[w].traffic)
  BY <1>1, RaiseEventOK
<1>3. UNCHANGED <<current, dep, split, mesh, canary, saved, tested, installed>>
  BY DEF RaiseEvent, platform, strategy
<1>4. TypeOK'
  BY <1>1, <1>2, <1>3 DEF TypeOK
<1>5. WorkersOK'
  BY <1>1, <1>2 DEF WorkersOK, Live
<1>6. worker[w].traffic \in 0..100
  BY <1>1, LiveIsRecord DEF WorkerRecords
<1> HIDE DEF target
<1>7. ASSUME NEW n \in Machines, fsm'[n] \in Active
      PROVE  \E v \in Workers : AttendedBy(n, v)'
  <2>1. CASE accepted /\ n = m
    <3>1. fsm'[m] = target /\ target \in Active
      BY <1>1, <1>2, <1>7, <2>1 DEF TypeOK
    <3>2. worker'[w] = Started(m, target, worker[w].traffic)
      BY <1>2, <2>1, <3>1
    <3>3. m \in Machines
      BY <1>2
    <3>4. \A t \in 0..100 : /\ Started(m, target, t) \in WorkerRecords
                            /\ Started(m, target, t).sm = m
                            /\ Started(m, target, t).kind = target
      <4> HIDE DEF m
      <4>1. target \in Active /\ m \in Machines
        BY <3>1, <3>3
      <4> QED
        BY <4>1, StartedAll, Zenon
    <3>5. worker'[w] \in WorkerRecords /\ worker'[w].sm = m /\ worker'[w].kind = target
      BY <1>6, <3>2, <3>4
    <3> QED
      BY <2>1, <3>1, <3>5 DEF AttendedBy, Live
  <2>2. CASE ~(accepted /\ n = m)
    <3>1. fsm'[n] = fsm[n]
      BY <1>1, <1>2, <2>2 DEF TypeOK
    <3>2. PICK v \in Workers : AttendedBy(n, v)
      BY <1>1, <1>7, <3>1 DEF Attended, AttendedBy
    <3>3. v # w
      BY <1>2, <2>2, <3>2 DEF AttendedBy
    <3> QED
      BY <1>2, <3>1, <3>2, <3>3 DEF AttendedBy, Live
  <2> QED
    BY <2>1, <2>2
<1>8. Attended'
  BY <1>7 DEF Attended, AttendedBy
<1> QED
  BY <1>4, <1>5, <1>8 DEF IInv

\* A machine moved to an active state from outside, with a goroutine for it.
LEMMA SpawnedKeepsAttended ==
    ASSUME IInv, NEW m \in Machines, NEW k \in Active, Spawned(m, k),
           fsm' = [fsm EXCEPT ![m] = k]
    PROVE  WorkersOK' /\ Attended' /\ fsm' \in [Machines -> States]
<1>1. TypeOK /\ WorkersOK /\ Attended
  BY DEF IInv
<1>2. PICK w \in Workers :
         /\ ~Live(w) /\ worker'[w] = Started(m, k, 0) /\ worker'[w] # None
         /\ \A v \in Workers \ {w} : worker'[v] = worker[v]
  BY DEF Spawned
<1>3. WellFormed(worker'[w]) /\ worker'[w].sm = m /\ worker'[w].kind = k
  BY <1>2, StartedOK
<1>4. WorkersOK'
  BY <1>1, <1>2, <1>3 DEF WorkersOK, Live
<1>5. fsm' \in [Machines -> States] /\ fsm'[m] = k
  BY <1>1 DEF TypeOK, States
<1>6. ASSUME NEW n \in Machines, fsm'[n] \in Active
      PROVE  \E v \in Workers : AttendedBy(n, v)'
  <2>1. CASE n = m
    BY <1>2, <1>3, <1>5, <2>1 DEF AttendedBy, Live
  <2>2. CASE n # m
    <3>1. fsm'[n] = fsm[n]
      BY <1>1, <2>2 DEF TypeOK
    <3>2. PICK v \in Workers : AttendedBy(n, v)
      BY <1>1, <1>6, <3>1 DEF Attended, AttendedBy
    <3>3. v # w
      BY <1>2, <3>2 DEF AttendedBy
    <3> QED
      BY <1>2, <3>1, <3>2, <3>3 DEF AttendedBy, Live
  <2> QED
    BY <2>1, <2>2
<1>7. Attended'
  BY <1>6 DEF Attended, AttendedBy
<1> QED
  BY <1>4, <1>5, <1>7

\* The clone taken for a deployment keeps the invariant.
LEMMA RestoreRedeploysKeepsIInv ==
    ASSUME IInv, NEW w \in Workers, RestoreRedeploys(w)
    PROVE  IInv'
<1>1. TypeOK /\ WorkersOK /\ Attended /\ Live(w) /\ PlatformOK
  BY DEF IInv, RestoreRedeploys, At, TypeOK, PlatformOK
<1>2. PICK m \in Machines, v \in Workers :
         /\ ~Live(v) /\ v # w /\ NewMachine(m) /\ current' = m
         /\ fsm' = [fsm EXCEPT ![m] = "deploy"]
         /\ canary' = [canary EXCEPT ![m] = saved]
         /\ worker' \in [Workers -> WorkerRecords \cup {None}]
         /\ worker'[w] # None /\ WellFormed(worker'[w])
         /\ worker'[w].sm = worker[w].sm /\ worker'[w].kind = worker[w].kind
         /\ worker'[v] = Started(m, "deploy", 0) /\ worker'[v] # None
         /\ \A u \in Workers \ {v, w} : worker'[u] = worker[u]
  BY <1>1, RestoreRedeploysOK
<1>3. WellFormed(worker'[v]) /\ worker'[v].sm = m /\ worker'[v].kind = "deploy"
  <2>1. "deploy" \in Active /\ 0 \in 0..100
    BY DEF Active
  <2> QED
    BY <1>2, <2>1, StartedOK
<1>4. WorkersOK'
  BY <1>1, <1>2, <1>3 DEF WorkersOK, Live
<1>5. TypeOK'
  <2>1. dep' \in [Subsets -> Deployments]
    BY <1>1, DeploymentWrites DEF RestoreRedeploys, Subsets
  <2>2. UNCHANGED <<split, mesh, saved, tested, installed>>
    BY DEF RestoreRedeploys
  <2>3. fsm' \in [Machines -> States] /\ canary' \in [Machines -> -1..100]
    <3>1. "deploy" \in States /\ saved \in -1..100 /\ fsm \in [Machines -> States]
          /\ canary \in [Machines -> -1..100]
      BY <1>1 DEF States, Active, TypeOK
    <3> QED
      BY <1>2, <3>1
  <2>4. split' \in 0..100 /\ mesh' \in 0..100 /\ saved' \in -1..100
        /\ tested' \in Versions \cup {None} /\ installed' \in BOOLEAN
    BY <1>1, <2>2 DEF TypeOK
  <2> QED
    BY <1>2, <2>1, <2>3, <2>4 DEF TypeOK
<1>6. ASSUME NEW n \in Machines, fsm'[n] \in Active
      PROVE  \E u \in Workers : AttendedBy(n, u)'
  <2>1. CASE n = m
    BY <1>1, <1>2, <1>3, <2>1 DEF AttendedBy, Live, TypeOK
  <2>2. CASE n # m
    <3>1. fsm'[n] = fsm[n]
      BY <1>1, <1>2, <2>2 DEF TypeOK
    <3>2. PICK u \in Workers : AttendedBy(n, u)
      BY <1>1, <1>6, <3>1 DEF Attended, AttendedBy
    <3>3. u # v
      BY <1>2, <3>2 DEF AttendedBy
    <3> QED
      BY <1>1, <1>2, <3>1, <3>2, <3>3 DEF AttendedBy, Live
  <2> QED
    BY <2>1, <2>2
<1>7. Attended'
  BY <1>6 DEF Attended, AttendedBy
<1> QED
  BY <1>4, <1>5, <1>7 DEF IInv

\* The events that come from outside lead to one state each.
LEMMA UserTargets ==
    \A s : /\ Target(s, "deploy") = "deploy"
           /\ Target(s, "configure") = "configure"
           /\ Target(s, "destroy") = "destroy"
BY DEF Target, Destination

\* What users do keeps the invariant.
LEMMA UserStepKeepsIInv ==
    ASSUME IInv, UserStep
    PROVE  IInv'
<1>1. TypeOK /\ WorkersOK /\ Attended /\ PlatformOK
  BY DEF IInv, TypeOK, PlatformOK
<1>2. saved \in -1..100 /\ canary \in [Machines -> -1..100] /\ current \in Machines
      /\ dep \in [Subsets -> Deployments]
  BY <1>1 DEF TypeOK
<1>3. {"deploy", "configure", "destroy"} \subseteq Active
  BY DEF Active
<1>4. ASSUME NEW ver \in Versions
      PROVE  [dep EXCEPT !["candidate"] = [phase |-> "starting", ver |-> ver]]
                \in [Subsets -> Deployments]
  BY <1>1, DeploymentWrites DEF Deployments, Subsets
<1>5. ASSUME NEW ver \in Versions, Deploy(ver)
      PROVE  IInv'
  <2>1. PICK m \in Machines :
           /\ current' = m
           /\ fsm' = [fsm EXCEPT ![m] = "deploy"]
           /\ canary' = [canary EXCEPT ![m] = saved]
           /\ Spawn(m, "deploy")
    BY <1>5, UserTargets DEF Deploy
  <2>2. Spawned(m, "deploy")
    BY <1>1, <1>3, <2>1, SpawnOK
  <2>3. WorkersOK' /\ Attended' /\ fsm' \in [Machines -> States]
    BY <1>3, <2>1, <2>2, SpawnedKeepsAttended
  <2>4. canary' \in [Machines -> -1..100]
    BY <1>2, <2>1
  <2>5. dep' \in [Subsets -> Deployments]
        /\ UNCHANGED <<split, mesh, saved, tested, installed>>
    BY <1>4, <1>5 DEF Deploy
  <2>6. TypeOK'
    BY <1>1, <2>1, <2>2, <2>3, <2>4, <2>5 DEF TypeOK, Spawned
  <2> QED
    BY <2>3, <2>6 DEF IInv
<1>6. CASE PostRelease
  <2>1. fsm' = [fsm EXCEPT ![current] = "configure"] /\ Spawn(current, "configure")
        /\ UNCHANGED <<current, platform, strategy, installed>>
    BY <1>6, UserTargets DEF PostRelease
  <2>2. Spawned(current, "configure")
    BY <1>1, <1>2, <1>3, <2>1, SpawnOK
  <2>3. WorkersOK' /\ Attended' /\ fsm' \in [Machines -> States]
    BY <1>2, <1>3, <2>1, <2>2, SpawnedKeepsAttended
  <2>4. TypeOK'
    BY <1>1, <2>1, <2>2, <2>3 DEF TypeOK, Spawned, platform, strategy
  <2> QED
    BY <2>3, <2>4 DEF IInv
<1>7. CASE UpdateRelease
  <2>1. PICK m \in Machines :
           /\ current' = m
           /\ fsm' = [fsm EXCEPT ![m] = "configure"]
           /\ canary' = [canary EXCEPT ![m] = saved]
           /\ Spawn(m, "configure")
    BY <1>7, UserTargets DEF UpdateRelease
  <2>2. Spawned(m, "configure")
    BY <1>1, <1>3, <2>1, SpawnOK
  <2>3. WorkersOK' /\ Attended' /\ fsm' \in [Machines -> States]
    BY <1>3, <2>1, <2>2, SpawnedKeepsAttended
  <2>4. canary' \in [Machines -> -1..100]
    BY <1>2, <2>1
  <2>5. TypeOK'
    BY <1>1, <1>7, <2>1, <2>2, <2>3, <2>4 DEF UpdateRelease, TypeOK, Spawned, platform
  <2> QED
    BY <2>3, <2>5 DEF IInv
<1>8. CASE DeleteRelease
  <2>1. fsm' = [fsm EXCEPT ![current] = "destroy"] /\ Spawn(current, "destroy")
        /\ UNCHANGED <<current, platform, strategy, installed>>
    BY <1>8, UserTargets DEF DeleteRelease
  <2>2. Spawned(current, "destroy")
    BY <1>1, <1>2, <1>3, <2>1, SpawnOK
  <2>3. WorkersOK' /\ Attended' /\ fsm' \in [Machines -> States]
    BY <1>2, <1>3, <2>1, <2>2, SpawnedKeepsAttended
  <2>4. TypeOK'
    BY <1>1, <2>1, <2>2, <2>3 DEF TypeOK, Spawned, platform, strategy
  <2> QED
    BY <2>3, <2>4 DEF IInv
<1>9. ASSUME UNCHANGED <<fsm, current, worker, split, mesh, strategy, installed>>,
             dep' \in [Subsets -> Deployments]
      PROVE  IInv'
  BY <1>1, <1>9 DEF IInv, TypeOK, WorkersOK, Attended, Live, strategy
<1>10. ASSUME NEW ver \in Versions, DeployUnmanaged(ver)
       PROVE  IInv'
  BY <1>4, <1>9, <1>10 DEF DeployUnmanaged
<1>11. CASE DeleteDeployment
  <2>1. dep' \in [Subsets -> Deployments]
    BY <1>1, <1>11, DeploymentWrites DEF DeleteDeployment, Subsets
  <2> QED
    BY <1>9, <1>11, <2>1 DEF DeleteDeployment
<1> QED
  BY <1>5, <1>6, <1>7, <1>8, <1>10, <1>11 DEF UserStep

\* What pods and proxies do keeps the invariant.
LEMMA PlatformStepKeepsIInv ==
    ASSUME IInv, PlatformStep \/ UNCHANGED vars
    PROVE  IInv'
<1>1. TypeOK /\ WorkersOK /\ Attended /\ PlatformOK
  BY DEF IInv, TypeOK, PlatformOK
<1>2. CASE UNCHANGED vars
  BY <1>1, <1>2 DEF IInv, TypeOK, WorkersOK, Attended, Live, vars
<1>3. CASE Sync
  BY <1>1, <1>3 DEF Sync, IInv, TypeOK, WorkersOK, Attended, Live, strategy
<1>4. ASSUME NEW d \in Subsets, PodsReady(d) \/ PodsCrash(d)
      PROVE  IInv'
  <2>1. dep' \in [Subsets -> Deployments]
    <3>1. \A phase \in {"starting", "ready"} :
             [dep EXCEPT ![d].phase = phase] \in [Subsets -> Deployments]
      BY <1>1, DeploymentWrites
    <3>2. \/ dep' = [dep EXCEPT ![d].phase = "ready"]
          \/ dep' = [dep EXCEPT ![d].phase = "starting"]
      BY <1>4 DEF PodsReady, PodsCrash
    <3> QED
      BY <3>1, <3>2
  <2>2. UNCHANGED <<fsm, current, worker, split, mesh, strategy, installed>>
    BY <1>4 DEF PodsReady, PodsCrash
  <2> QED
    BY <1>1, <2>1, <2>2 DEF IInv, TypeOK, WorkersOK, Attended, Live, strategy
<1> QED
  BY <1>2, <1>3, <1>4 DEF PlatformStep

\* The invariant holds in every reachable state.
THEOREM Invariance == Spec => []IInv
<1>1. Init => IInv
  BY IInvInit
<1>2. IInv /\ [Next]_vars => IInv'
  <2>1. ASSUME IInv, NEW w \in Workers, WorkerStep(w)
        PROVE  IInv'
    BY <2>1, WorkerStepCases, InnerStepKeepsIInv, RestoreRedeploysKeepsIInv,
       RaiseEventKeepsIInv
  <2> QED
    BY <2>1, UserStepKeepsIInv, PlatformStepKeepsIInv DEF Next
<1> QED
  BY <1>1, <1>2, PTL DEF Spec

\* Every variable keeps its type; in particular the canary never asks for a
\* share outside 0..100, for every configuration its validation accepts.
THEOREM TypeCorrect == Spec => []TypeOK
<1>1. IInv => TypeOK
  BY DEF IInv
<1> QED
  BY <1>1, Invariance, PTL

\* A release in an active state always has a goroutine working for that state,
\* whatever fails, and also when it is destroyed in the middle of a rollout.
THEOREM AlwaysAttended == Spec => []Attended
<1>1. IInv => Attended
  BY DEF IInv
<1> QED
  BY <1>1, Invariance, PTL
=============================================================================
