------------------------ MODULE RolloutSafetyProofs ------------------------
(***************************************************************************)
(* The safety properties of Rollout, for any number of goroutines, of      *)
(* machine objects and of versions and every configuration of the canary,  *)
(* when releases are destroyed at rest and no fault but a failing call is  *)
(* taken for an answer (Calm).                                             *)
(*                                                                         *)
(* A release at rest has no goroutine, and a request is accepted at rest   *)
(* only; so there is never more than one, and what its calls have          *)
(* established (Established) is undone by nobody else.                     *)
(***************************************************************************)
EXTENDS RolloutProofs

\* What the theorems assume of users and of faults.
Calm == DestroyFrom \subseteq {"idle", "fail"} /\ Faults \subseteq {"call"}

\* What holds of the deployments whatever the goroutine is doing.
Grounded ==
    /\ mesh # 100 \/ split # 100 => Running("primary")
    /\ dep["primary"].phase # "zero"
    /\ dep["candidate"].phase = "zero" => Running("primary")

\* A goroutine that is about to raise the event of an operation that went well.
EndsRollout(k, p, e) ==
    /\ p = "raise"
    /\ \/ k \in {"deploy", "rollback"} /\ e = "complete"
       \/ k = "promote" /\ e = "promoted"

EndsDestroy(k, p, e) == k = "destroy" /\ p = "raise" /\ e = "complete"

\* On the way from the last check that passed to the copy of the candidate.
Promoting(k, p, e) ==
    \/ k = "monitor" /\ p = "raise" /\ e = "complete"
    \/ k = "promote" /\ p \in {"scaleUp", "settle", "find", "deletePrimary", "clone"}

\* A goroutine that counts on the primary.
NeedsPrimary(k, p, e) ==
    \/ p \in {"scaleDown", "drain", "removeCandidate"}
    \/ k \in {"monitor", "scale", "rollback"}
    \/ k = "deploy" /\ p = "raise" /\ e = "deployed"

\* What the calls of a goroutine of kind k have established when it gets to
\* step p, and about the primary when that is to raise event e.
StepSafe(k, p, e) ==
    /\ p = "clone" => dep["primary"].phase = "absent"
    /\ NeedsPrimary(k, p, e) => Running("primary")
    /\ p = "drain" => split = 0
    /\ p = "removeCandidate" => split = 0 /\ mesh = 0
    /\ k \in {"promote", "destroy"} /\ p = "settle" => split = 100
    /\ p \in {"find", "deletePrimary", "removePrimary"} => split = 100 /\ mesh = 100
    /\ \/ p = "deletePrimary"
       \/ k = "destroy" /\ p \in {"scaleUp", "settle", "removePrimary"}
       => dep["candidate"].phase # "zero"

\* And what the end of an operation rests on: the version tested, and traffic on
\* the deployment that is left.
EndSafe(k, p, e) ==
    /\ Promoting(k, p, e) /\ dep["candidate"].phase # "absent" =>
          dep["candidate"].ver = tested
    /\ EndsRollout(k, p, e) =>
          split = 0 /\ mesh = 0 /\ Running("primary") /\ ~Running("candidate")
    /\ (k = "destroy" /\ p = "destroyConfig") \/ EndsDestroy(k, p, e) =>
          split = 100 /\ mesh = 100 /\ ~Running("primary")
    /\ /\ "destroy" \notin UserDeletes
       /\ \/ k = "destroy" /\ p \in {"scaleUp", "settle", "removePrimary", "destroyConfig"}
          \/ EndsDestroy(k, p, e)
       => Running("candidate")

Established(k, p, e) == StepSafe(k, p, e) /\ EndSafe(k, p, e)

Does(w) == Established(worker[w].kind, worker[w].pc, worker[w].event)

\* The inductive invariant.
SInv ==
    /\ IInv
    /\ SingleFlight
    /\ Grounded
    /\ \A w \in Workers : Live(w) => Does(w)

-----------------------------------------------------------------------------
(* What goroutines do next.                                                *)

\* The successor of each step of a handler.
LEMMA Followers ==
    ASSUME NEW k \in Active, NEW p \in DOMAIN Steps[k]
    PROVE  /\ p = "setup" => Steps[k][p] = "settle"
           /\ p = "settle" => Steps[k][p] \in {"lookup", "find", "removePrimary"}
           /\ p = "settle" /\ Steps[k][p] = "find" => k = "promote"
           /\ p = "settle" /\ Steps[k][p] = "removePrimary" => k = "destroy"
           /\ p = "settle" /\ Steps[k][p] = "lookup" => k = "configure"
           /\ p = "lookup" => Steps[k][p] = "clone"
           /\ p = "clone" => Steps[k][p] = "cloneReady"
           /\ p = "primaryHealthy" => Steps[k][p] = "scaleDown"
           /\ p = "scaleDown" => Steps[k][p] = "drain"
           /\ p = "drain" => Steps[k][p] = "removeCandidate"
           /\ p = "removeCandidate" => Steps[k][p] = "raise"
           /\ p = "test" => Steps[k][p] = "execute"
           /\ p = "scaleStep" => Steps[k][p] = "raise"
           /\ p = "scaleUp" => Steps[k][p] = "settle"
           /\ p = "find" => Steps[k][p] = "deletePrimary"
           /\ p = "deletePrimary" => Steps[k][p] = "clone"
           /\ p = "findPrimary" => Steps[k][p] = "deleteCandidate"
           /\ p = "deleteCandidate" => Steps[k][p] = "restore"
           /\ p = "restore" => Steps[k][p] = "restoreReady"
           /\ p = "restoreReady" => Steps[k][p] = "candidateHealthy"
           /\ p = "candidateHealthy" => Steps[k][p] = "scaleUp"
           /\ p = "removePrimary" => Steps[k][p] = "destroyConfig"
           /\ p = "destroyConfig" => Steps[k][p] = "raise"
<1>1. CASE k = "configure"
  BY <1>1, SMTT(30) DEF Steps, ConfigureSteps
<1>2. CASE k = "deploy"
  BY <1>2, SMTT(30) DEF Steps, DeploySteps
<1>3. CASE k = "monitor"
  BY <1>3, SMTT(30) DEF Steps, MonitorSteps
<1>4. CASE k = "scale"
  BY <1>4, SMTT(30) DEF Steps, ScaleSteps
<1>5. CASE k = "promote"
  BY <1>5, SMTT(30) DEF Steps, PromoteSteps
<1>6. CASE k = "rollback"
  BY <1>6, SMTT(30) DEF Steps, RollbackSteps
<1>7. CASE k = "destroy"
  BY <1>7, SMTT(30) DEF Steps, DestroySteps
<1> QED
  BY <1>1, <1>2, <1>3, <1>4, <1>5, <1>6, <1>7 DEF Active

\* Only a configuration sets Consul up.
LEMMA SetupOfKind ==
    ASSUME NEW k \in Active, "setup" \in DOMAIN Steps[k]
    PROVE  k \notin {"promote", "destroy"}
BY DEF Steps, PromoteSteps, DestroySteps

\* Where a live worker is, and what the invariant says of it.
LEMMA Context ==
    ASSUME SInv, NEW w \in Workers, Live(w)
    PROVE  /\ TypeOK /\ WorkersOK /\ Grounded /\ Does(w)
           /\ worker[w] \in WorkerRecords
           /\ worker[w].kind \in Active
           /\ worker[w].pc \in DOMAIN Steps[worker[w].kind] \cup {"raise"}
           /\ worker[w].sm = current /\ fsm[current] = worker[w].kind
           /\ \A v \in Workers : v # w => ~Live(v)
<1>1. TypeOK /\ WorkersOK /\ Grounded /\ Does(w)
  BY DEF SInv, IInv
<1>2. worker[w] \in WorkerRecords /\ WellFormed(worker[w])
  BY <1>1, LiveIsRecord DEF WorkersOK
<1> QED
  BY <1>1, <1>2 DEF SInv, SingleFlight, WellFormed, WorkerRecords

\* The fields after a call that succeeded.
LEMMA ProceedFields ==
    ASSUME SInv, NEW w \in Workers, Live(w), worker[w].pc # "raise", Proceed(w)
    PROVE  /\ worker'[w].kind = worker[w].kind
           /\ worker'[w].pc = Steps[worker[w].kind][worker[w].pc]
           /\ worker'[w].pc = "raise" => worker'[w].event = Outcome[worker[w].kind]
<1> DEFINE next == Steps[worker[w].kind][worker[w].pc]
           e == IF next = "raise" THEN Outcome[worker[w].kind] ELSE None
<1>1. worker[w] \in WorkerRecords /\ worker \in [Workers -> WorkerRecords \cup {None}]
  BY Context DEF TypeOK
<1>2. worker'[w] = [worker[w] EXCEPT !.pc = next, !.event = e]
  BY <1>1 DEF Proceed, Succeeded
<1> HIDE DEF next, e
<1>3. worker'[w].kind = worker[w].kind /\ worker'[w].pc = next /\ worker'[w].event = e
  BY <1>1, <1>2 DEF WorkerRecords
<1> QED
  BY <1>3 DEF next, e

\* The fields after a jump.
LEMMA GotoFields ==
    ASSUME SInv, NEW w \in Workers, Live(w), NEW p, Goto(w, p)
    PROVE  worker'[w].kind = worker[w].kind /\ worker'[w].pc = p
BY Context DEF Goto, TypeOK, WorkerRecords

\* The fields of a worker that is going to raise an event.
LEMMA RaisingFields ==
    ASSUME SInv, NEW w \in Workers, Live(w), NEW e, Raising(w, e)
    PROVE  /\ worker'[w].kind = worker[w].kind
           /\ worker'[w].pc = "raise" /\ worker'[w].event = e
<1>1. worker[w] \in WorkerRecords /\ worker \in [Workers -> WorkerRecords \cup {None}]
  BY Context DEF TypeOK
<1>2. worker'[w] = [worker[w] EXCEPT !.pc = "raise", !.event = e]
  BY <1>1 DEF Raising
<1> QED
  BY <1>1, <1>2 DEF WorkerRecords

\* A call that fails takes nothing back, and event_fail promises nothing.
LEMMA FailureKeeps ==
    ASSUME SInv, NEW w \in Workers, Live(w), Abort(w) \/ CallFails(w),
           UNCHANGED <<dep, split, mesh, tested>>
    PROVE  Grounded' /\ Does(w)'
<1>1. worker'[w].kind = worker[w].kind /\ worker'[w].pc = "raise"
      /\ worker'[w].event = "fail"
  BY RaisingFields DEF Abort, CallFails
<1>2. Grounded /\ StepSafe(worker[w].kind, worker[w].pc, worker[w].event)
  BY Context DEF Does, Established
<1> QED
  BY <1>1, <1>2
  DEF Grounded, Running, Does, Established, StepSafe, EndSafe,
      NeedsPrimary, EndsRollout, EndsDestroy, Promoting

-----------------------------------------------------------------------------
(* Each call of a goroutine establishes what its next step relies on.      *)

\* The calls to Consul and the sleeps.
LEMMA ReleasingSafe ==
    ASSUME SInv, NEW w \in Workers, Releasing(w)
    PROVE  Grounded' /\ Does(w)'
<1> DEFINE k == worker[w].kind
           p == worker[w].pc
<1>1. Live(w)
  BY DEF Releasing, Setup, Sleep, Scale, WaitHealthy, DestroyConfig, At
<1>2. p # "raise"
  BY DEF Releasing, Setup, Sleep, Scale, WaitHealthy, DestroyConfig, At, Subsets
<1>3. k \in Active /\ p \in DOMAIN Steps[k]
  BY <1>1, <1>2, Context
<1>4. Grounded /\ StepSafe(k, p, worker[w].event) /\ EndSafe(k, p, worker[w].event)
  BY <1>1, Context DEF Does, Established
<1>5. CASE Setup(w)
  <2>1. p = "setup" /\ UNCHANGED <<dep, split, mesh, tested>>
    BY <1>5 DEF Setup, At, platform, strategy
  <2>2. CASE Proceed(w)
    <3>1. worker'[w].kind = k /\ worker'[w].pc = "settle" /\ k \notin {"promote", "destroy"}
      BY <1>1, <1>2, <1>3, <2>1, <2>2, ProceedFields, Followers, SetupOfKind
    <3> QED
      BY <1>4, <2>1, <3>1
      DEF Grounded, Running, Does, Established, StepSafe, EndSafe,
          NeedsPrimary, EndsRollout, EndsDestroy, Promoting
  <2> QED
    BY <1>1, <1>5, <2>1, <2>2, FailureKeeps DEF Setup
<1>6. CASE Sleep(w)
  <2>1. p \in {"settle", "drain"} /\ mesh = split /\ UNCHANGED <<dep, split, mesh, tested>>
        /\ Proceed(w)
    BY <1>6 DEF Sleep, At, platform, strategy
  <2>2. worker'[w].kind = k /\ worker'[w].pc = Steps[k][p]
    BY <1>1, <1>2, <2>1, ProceedFields
  <2>3. CASE p = "drain"
    <3>1. worker'[w].pc = "removeCandidate"
      BY <1>3, <2>2, <2>3, Followers
    <3> QED
      BY <1>4, <2>1, <2>2, <2>3, <3>1 DEF Grounded, Running, Does, Established, StepSafe,
           EndSafe, NeedsPrimary, EndsRollout, EndsDestroy, Promoting
  <2>4. CASE p = "settle"
    <3>1. \/ worker'[w].pc = "lookup" /\ k = "configure"
          \/ worker'[w].pc = "find" /\ k = "promote"
          \/ worker'[w].pc = "removePrimary" /\ k = "destroy"
      BY <1>3, <2>2, <2>4, Followers
    <3> QED
      BY <1>4, <2>1, <2>2, <2>4, <3>1 DEF Grounded, Running, Does, Established, StepSafe,
           EndSafe, NeedsPrimary, EndsRollout, EndsDestroy, Promoting
  <2> QED
    BY <2>1, <2>3, <2>4
<1>7. CASE Scale(w)
  <2>1. UNCHANGED <<dep, mesh, tested>>
    BY <1>7 DEF Scale, strategy
  <2>2. CASE p = "scaleDown" /\ split' = 0 /\ ScaledDown(w)
    <3>1. worker'[w].kind = k
          /\ \/ worker'[w].pc = "drain"
             \/ k = "deploy" /\ worker'[w].pc = "raise" /\ worker'[w].event = "deployed"
      BY <1>1, <1>2, <1>3, <2>2, ProceedFields, RaisingFields, Followers DEF ScaledDown
    <3> QED
      BY <1>4, <2>1, <2>2, <3>1 DEF Grounded, Running, Does, Established, StepSafe,
           EndSafe, NeedsPrimary, EndsRollout, EndsDestroy, Promoting
  <2>3. CASE p = "scaleUp" /\ split' = 100 /\ Proceed(w)
    <3>1. worker'[w].kind = k /\ worker'[w].pc = "settle"
      BY <1>1, <1>2, <1>3, <2>3, ProceedFields, Followers
    <3> QED
      BY <1>4, <2>1, <2>3, <3>1 DEF Grounded, Running, Does, Established, StepSafe,
           EndSafe, NeedsPrimary, EndsRollout, EndsDestroy, Promoting
  <2>4. CASE p = "scaleStep" /\ Proceed(w)
    <3>1. worker'[w].kind = k /\ worker'[w].pc = "raise" /\ k = "scale"
      BY <1>1, <1>2, <1>3, <2>4, ProceedFields, Followers, StepOfKind
    <3> QED
      BY <1>4, <2>1, <2>4, <3>1 DEF Grounded, Running, Does, Established, StepSafe,
           EndSafe, NeedsPrimary, EndsRollout, EndsDestroy, Promoting
  <2>5. CASE CallFails(w) /\ split' = split
    BY <1>1, <2>1, <2>5, FailureKeeps
  <2> QED
    BY <1>7, <2>2, <2>3, <2>4, <2>5 DEF Scale, At
<1>8. CASE WaitHealthy(w)
  <2>1. PICK d \in Subsets :
          /\ p = IF d = "primary" THEN "primaryHealthy" ELSE "candidateHealthy"
          /\ \/ dep[d].phase = "ready" /\ Proceed(w)
             \/ dep[d].phase # "ready" /\ Abort(w)
             \/ CallFails(w)
    BY <1>8 DEF WaitHealthy, At
  <2>2. UNCHANGED <<dep, split, mesh, tested>>
    BY <1>8 DEF WaitHealthy, platform, strategy
  <2>3. CASE dep[d].phase = "ready" /\ Proceed(w)
    <3>1. worker'[w].kind = k
          /\ \/ d = "primary" /\ worker'[w].pc = "scaleDown"
             \/ d = "candidate" /\ worker'[w].pc = "scaleUp" /\ k = "destroy"
      BY <1>1, <1>2, <1>3, <2>1, <2>3, ProceedFields, Followers, StepOfKind DEF Subsets
    <3> QED
      BY <1>4, <2>2, <2>3, <3>1 DEF Grounded, Running, Does, Established, StepSafe,
           EndSafe, NeedsPrimary, EndsRollout, EndsDestroy, Promoting
  <2> QED
    BY <1>1, <2>1, <2>2, <2>3, FailureKeeps
<1>9. CASE DestroyConfig(w)
  <2>1. p = "destroyConfig" /\ k = "destroy" /\ split' \in {split, 100}
        /\ UNCHANGED <<dep, mesh, tested>> /\ (Proceed(w) \/ CallFails(w))
        /\ (Proceed(w) \/ Abort(w))
    BY <1>3, <1>9, StepOfKind DEF DestroyConfig, At, strategy, CallFails
  <2>2. split = 100 /\ split' = 100
    BY <1>4, <2>1 DEF EndSafe
  <2>3. CASE Proceed(w)
    <3>1. worker'[w].kind = k /\ worker'[w].pc = "raise"
      BY <1>1, <1>2, <1>3, <2>1, <2>3, ProceedFields, Followers
    <3> QED
      BY <1>4, <2>1, <2>2, <3>1 DEF Grounded, Running, Does, Established, StepSafe,
           EndSafe, NeedsPrimary, EndsRollout, EndsDestroy, Promoting
  <2> QED
    BY <1>1, <2>1, <2>2, <2>3, FailureKeeps
<1> QED
  BY <1>5, <1>6, <1>7, <1>8, <1>9 DEF Releasing

\* The calls of InitPrimary and PromoteCandidate.
LEMMA DeployingSafe ==
    ASSUME SInv, Calm, NEW w \in Workers,
           \/ LookupPrimary(w) \/ ClonePrimary(w) \/ AwaitClone(w)
           \/ FindCandidate(w) \/ DeletePrimary(w) \/ RemoveCandidate(w)
    PROVE  Grounded' /\ Does(w)'
<1> DEFINE k == worker[w].kind
           p == worker[w].pc
<1>1. Live(w) /\ p # "raise"
  BY DEF LookupPrimary, ClonePrimary, AwaitClone, FindCandidate, DeletePrimary,
         RemoveCandidate, At
<1>2. k \in Active /\ p \in DOMAIN Steps[k] /\ worker[w] \in WorkerRecords /\ TypeOK
  BY <1>1, Context
<1>3. Grounded /\ StepSafe(k, p, worker[w].event) /\ EndSafe(k, p, worker[w].event)
  BY <1>1, Context DEF Does, Established
<1>4. dep \in [Subsets -> Deployments] /\ "primary" \in Subsets /\ "candidate" \in Subsets
  BY <1>2 DEF TypeOK, Subsets
<1>5. CASE LookupPrimary(w)
  <2>1. p = "lookup" /\ UNCHANGED <<dep, split, mesh, tested>>
    BY <1>5 DEF LookupPrimary, At, platform, strategy
  <2>2. CASE NoAction(w)
    <3>1. worker'[w].kind = k
          /\ \/ worker'[w].pc = "primaryHealthy"
             \/ k = "configure" /\ worker'[w].pc = "raise" /\ worker'[w].event = "configured"
      BY <1>1, <1>2, <2>1, <2>2, GotoFields, RaisingFields, StepOfKind DEF NoAction
    <3> QED
      BY <1>3, <2>1, <3>1
      DEF Grounded, Running, Does, Established, StepSafe, EndSafe,
          NeedsPrimary, EndsRollout, EndsDestroy, Promoting
  <2>3. CASE ~NoAction(w)
    <3>1. dep["primary"].phase = "absent" /\ Proceed(w)
      BY <1>5, <2>3 DEF LookupPrimary, Calm
    <3>2. worker'[w].kind = k /\ worker'[w].pc = "clone" /\ k \in {"configure", "deploy", "promote"}
      BY <1>1, <1>2, <2>1, <3>1, ProceedFields, Followers, StepOfKind
    <3>3. k # "promote"
      BY <1>2, <2>1, StepOfKind
    <3> QED
      BY <1>3, <2>1, <3>1, <3>2, <3>3
      DEF Grounded, Running, Does, Established, StepSafe, EndSafe,
          NeedsPrimary, EndsRollout, EndsDestroy, Promoting
  <2> QED
    BY <2>2, <2>3
<1>6. CASE ClonePrimary(w)
  <2>1. p = "clone" /\ UNCHANGED <<split, mesh, tested>>
    BY <1>6 DEF ClonePrimary, At, strategy
  <2>2. CASE dep["candidate"].phase # "absent" /\ Proceed(w)
             /\ dep' = [dep EXCEPT !["primary"] = CloneOf(dep["candidate"])]
    <3>1. dep["primary"].phase = "absent" /\ dep["candidate"].phase # "zero"
      BY <1>3, <2>1 DEF StepSafe, Grounded, Running
    <3>2. dep'["primary"].phase = "starting" /\ dep'["candidate"] = dep["candidate"]
      BY <1>4, <2>2, <3>1 DEF CloneOf
    <3>3. worker'[w].kind = k /\ worker'[w].pc = "cloneReady"
      BY <1>1, <1>2, <2>1, <2>2, ProceedFields, Followers
    <3>4. k \in {"configure", "deploy", "promote"}
      BY <1>2, <2>1, StepOfKind
    <3> QED
      BY <1>3, <2>1, <3>1, <3>2, <3>3, <3>4
      DEF Grounded, Running, Does, Established, StepSafe, EndSafe,
          NeedsPrimary, EndsRollout, EndsDestroy, Promoting
  <2> QED
    BY <1>1, <1>6, <2>1, <2>2, FailureKeeps DEF ClonePrimary
<1>7. CASE AwaitClone(w)
  <2>1. p = "cloneReady" /\ UNCHANGED <<dep, split, mesh, tested>>
    BY <1>7 DEF AwaitClone, At, platform, strategy
  <2>2. CASE worker' = [worker EXCEPT ![w].pc = "primaryHealthy", ![w].created = TRUE]
    <3>1. worker'[w] = [worker[w] EXCEPT !.pc = "primaryHealthy", !.created = TRUE]
      BY <1>2, <2>2 DEF TypeOK
    <3>2. worker'[w].kind = k /\ worker'[w].pc = "primaryHealthy"
      BY <1>2, <3>1 DEF WorkerRecords
    <3>3. k \in {"configure", "deploy", "promote"}
      BY <1>2, <2>1, StepOfKind
    <3> QED
      BY <1>3, <2>1, <3>2, <3>3
      DEF Grounded, Running, Does, Established, StepSafe, EndSafe,
          NeedsPrimary, EndsRollout, EndsDestroy, Promoting
  <2> QED
    BY <1>1, <1>7, <2>1, <2>2, FailureKeeps DEF AwaitClone
<1>8. CASE FindCandidate(w)
  <2>1. p = "find" /\ k = "promote" /\ UNCHANGED <<dep, split, mesh, tested>>
    BY <1>2, <1>8, StepOfKind DEF FindCandidate, At, platform, strategy
  <2>2. CASE dep["candidate"].phase = "ready" /\ Proceed(w)
    <3>1. worker'[w].kind = k /\ worker'[w].pc = "deletePrimary"
      BY <1>1, <1>2, <2>1, <2>2, ProceedFields, Followers
    <3> QED
      BY <1>3, <2>1, <2>2, <3>1
      DEF Grounded, Running, Does, Established, StepSafe, EndSafe,
          NeedsPrimary, EndsRollout, EndsDestroy, Promoting
  <2>3. CASE Goto(w, "primaryHealthy")
    <3>1. worker'[w].kind = k /\ worker'[w].pc = "primaryHealthy"
      BY <1>1, <2>3, GotoFields
    <3> QED
      BY <1>3, <2>1, <3>1
      DEF Grounded, Running, Does, Established, StepSafe, EndSafe,
          NeedsPrimary, EndsRollout, EndsDestroy, Promoting
  <2> QED
    BY <1>1, <1>8, <2>1, <2>2, <2>3, FailureKeeps DEF FindCandidate
<1>9. CASE DeletePrimary(w)
  <2>1. p = "deletePrimary" /\ k = "promote" /\ UNCHANGED <<split, mesh, tested>>
    BY <1>2, <1>9, StepOfKind DEF DeletePrimary, At, strategy
  <2>2. CASE dep' = [dep EXCEPT !["primary"] = Absent] /\ Proceed(w)
    <3>1. dep'["primary"].phase = "absent" /\ dep'["candidate"] = dep["candidate"]
      BY <1>4, <2>2 DEF Absent
    <3>2. worker'[w].kind = k /\ worker'[w].pc = "clone"
      BY <1>1, <1>2, <2>1, <2>2, ProceedFields, Followers
    <3> QED
      BY <1>3, <2>1, <3>1, <3>2
      DEF Grounded, Running, Does, Established, StepSafe, EndSafe,
          NeedsPrimary, EndsRollout, EndsDestroy, Promoting
  <2> QED
    BY <1>1, <1>9, <2>1, <2>2, FailureKeeps DEF DeletePrimary
<1>10. CASE RemoveCandidate(w)
  <2>1. p = "removeCandidate" /\ UNCHANGED <<split, mesh, tested>>
    BY <1>10 DEF RemoveCandidate, At, strategy
  <2>2. split = 0 /\ mesh = 0 /\ Running("primary")
    BY <1>3, <2>1 DEF StepSafe, NeedsPrimary
  <2>3. CASE Proceed(w) /\ dep' = IF dep["candidate"].phase = "absent" THEN dep
                                  ELSE [dep EXCEPT !["candidate"].phase = "zero"]
    <3>1. dep'["primary"] = dep["primary"] /\ dep'["candidate"].phase \in {"absent", "zero"}
      BY <1>4, <2>3 DEF Deployments
    <3>2. worker'[w].kind = k /\ worker'[w].pc = "raise" /\ worker'[w].event = Outcome[k]
      BY <1>1, <1>2, <2>1, <2>3, ProceedFields, Followers
    <3>3. k \in {"configure", "deploy", "promote", "rollback"}
      BY <1>2, <2>1, StepOfKind
    <3>4. ~Promoting(k, "raise", worker'[w].event) /\ ~EndsDestroy(k, "raise", worker'[w].event)
      BY <3>3 DEF Promoting, EndsDestroy
    <3>5. Running("primary")' /\ ~Running("candidate")'
      BY <2>2, <3>1 DEF Running
    <3>6. Grounded'
      BY <1>3, <2>1, <3>1, <3>5 DEF Grounded, Running
    <3>7. Does(w)'
      BY <2>1, <2>2, <3>2, <3>3, <3>4, <3>5 DEF Does, Established, StepSafe, EndSafe
    <3> QED
      BY <3>6, <3>7
  <2> QED
    BY <1>1, <1>10, <2>1, <2>3, FailureKeeps DEF RemoveCandidate
<1> QED
  BY <1>5, <1>6, <1>7, <1>8, <1>9, <1>10

\* The calls of RestoreOriginal and RemovePrimary.
LEMMA DestroyingSafe ==
    ASSUME SInv, NEW w \in Workers,
           \/ FindPrimary(w) \/ DeleteCandidate(w) \/ RestoreCandidate(w)
           \/ AwaitRestored(w) \/ RemovePrimary(w)
    PROVE  Grounded' /\ Does(w)'
<1> DEFINE p == worker[w].pc
<1>1. Live(w) /\ p # "raise"
  BY DEF FindPrimary, DeleteCandidate, RestoreCandidate, AwaitRestored, RemovePrimary, At
<1>2. worker[w].kind \in Active /\ p \in DOMAIN Steps[worker[w].kind] /\ TypeOK
  BY <1>1, Context
<1>3. worker[w].kind = "destroy"
  BY <1>2, StepOfKind DEF FindPrimary, DeleteCandidate, RestoreCandidate, AwaitRestored,
                         RemovePrimary, At
<1>4. Grounded /\ StepSafe("destroy", p, worker[w].event) /\ EndSafe("destroy", p, worker[w].event)
  BY <1>1, <1>3, Context DEF Does, Established
<1>5. dep \in [Subsets -> Deployments] /\ "primary" \in Subsets /\ "candidate" \in Subsets
  BY <1>2 DEF TypeOK, Subsets
<1>6. ASSUME UNCHANGED <<split, mesh, tested>>, Grounded', worker'[w].kind = "destroy",
             worker'[w].pc \in {"candidateHealthy", "deleteCandidate", "restore", "restoreReady"}
      PROVE  Does(w)'
  BY <1>6 DEF Does, Established, StepSafe, EndSafe, NeedsPrimary, EndsRollout, EndsDestroy,
              Promoting
<1>7. CASE FindPrimary(w)
  <2>1. p = "findPrimary" /\ UNCHANGED <<dep, split, mesh, tested>>
    BY <1>7 DEF FindPrimary, At, platform, strategy
  <2>2. Grounded'
    BY <1>4, <2>1 DEF Grounded, Running
  <2>3. CASE Proceed(w)
    <3>1. worker'[w].kind = "destroy" /\ worker'[w].pc = "deleteCandidate"
      BY <1>1, <1>2, <1>3, <2>1, <2>3, ProceedFields, Followers
    <3> QED
      BY <1>6, <2>1, <2>2, <3>1
  <2>4. CASE Goto(w, "candidateHealthy")
    BY <1>1, <1>3, <1>6, <2>1, <2>2, <2>4, GotoFields
  <2> QED
    BY <1>1, <1>7, <2>1, <2>3, <2>4, FailureKeeps DEF FindPrimary
<1>8. CASE DeleteCandidate(w)
  <2>1. p = "deleteCandidate" /\ UNCHANGED <<split, mesh, tested>>
    BY <1>8 DEF DeleteCandidate, At, strategy
  <2>2. CASE Proceed(w) /\ dep' = [dep EXCEPT !["candidate"] = Absent]
    <3>1. dep'["candidate"].phase = "absent" /\ dep'["primary"] = dep["primary"]
      BY <1>5, <2>2 DEF Absent
    <3>2. Grounded'
      BY <1>4, <2>1, <3>1 DEF Grounded, Running
    <3>3. worker'[w].kind = "destroy" /\ worker'[w].pc = "restore"
      BY <1>1, <1>2, <1>3, <2>1, <2>2, ProceedFields, Followers
    <3> QED
      BY <1>6, <2>1, <3>2, <3>3
  <2> QED
    BY <1>1, <1>8, <2>1, <2>2, FailureKeeps DEF DeleteCandidate
<1>9. CASE RestoreCandidate(w)
  <2>1. p = "restore" /\ UNCHANGED <<split, mesh, tested>>
    BY <1>9 DEF RestoreCandidate, At, strategy
  <2>2. CASE Proceed(w) /\ dep["primary"].phase # "absent"
             /\ dep' = [dep EXCEPT !["candidate"] = CloneOf(dep["primary"])]
    <3>1. dep'["candidate"].phase = "starting" /\ dep'["primary"] = dep["primary"]
      BY <1>4, <1>5, <2>2 DEF CloneOf, Grounded
    <3>2. Grounded'
      BY <1>4, <2>1, <3>1 DEF Grounded, Running
    <3>3. worker'[w].kind = "destroy" /\ worker'[w].pc = "restoreReady"
      BY <1>1, <1>2, <1>3, <2>1, <2>2, ProceedFields, Followers
    <3> QED
      BY <1>6, <2>1, <3>2, <3>3
  <2> QED
    BY <1>1, <1>9, <2>1, <2>2, FailureKeeps DEF RestoreCandidate
<1>10. CASE AwaitRestored(w)
  <2>1. p = "restoreReady" /\ UNCHANGED <<dep, split, mesh, tested>>
    BY <1>10 DEF AwaitRestored, At, platform, strategy
  <2>2. Grounded'
    BY <1>4, <2>1 DEF Grounded, Running
  <2>3. CASE Proceed(w)
    <3>1. worker'[w].kind = "destroy" /\ worker'[w].pc = "candidateHealthy"
      BY <1>1, <1>2, <1>3, <2>1, <2>3, ProceedFields, Followers
    <3> QED
      BY <1>6, <2>1, <2>2, <3>1
  <2> QED
    BY <1>1, <1>10, <2>1, <2>3, FailureKeeps DEF AwaitRestored
<1>11. CASE RemovePrimary(w)
  <2>1. p = "removePrimary" /\ UNCHANGED <<split, mesh, tested>>
    BY <1>11 DEF RemovePrimary, At, strategy
  <2>2. CASE Proceed(w) /\ dep' = [dep EXCEPT !["primary"] = Absent]
    <3>1. dep'["primary"].phase = "absent" /\ dep'["candidate"] = dep["candidate"]
      BY <1>5, <2>2 DEF Absent
    <3>2. worker'[w].kind = "destroy" /\ worker'[w].pc = "destroyConfig"
      BY <1>1, <1>2, <1>3, <2>1, <2>2, ProceedFields, Followers
    <3> QED
      BY <1>4, <2>1, <3>1, <3>2
      DEF Grounded, Running, Does, Established, StepSafe, EndSafe,
          NeedsPrimary, EndsRollout, EndsDestroy, Promoting
  <2> QED
    BY <1>1, <1>11, <2>1, <2>2, FailureKeeps DEF RemovePrimary
<1> QED
  BY <1>7, <1>8, <1>9, <1>10, <1>11

\* The test and the canary: the primary is there while the release is watched.
LEMMA MonitoringSafe ==
    ASSUME SInv, NEW w \in Workers, Monitoring(w)
    PROVE  Grounded' /\ Does(w)'
<1> DEFINE k == worker[w].kind
           p == worker[w].pc
<1>1. Live(w) /\ p \in {"test", "execute"}
  BY DEF Monitoring, RunTest, ExecuteFirst, CheckPasses, CheckFails, StrategyFails, At
<1>2. TypeOK /\ WorkersOK /\ k \in Active /\ p \in DOMAIN Steps[k]
      /\ worker[w] \in WorkerRecords /\ worker \in [Workers -> WorkerRecords \cup {None}]
  BY <1>1, Context DEF TypeOK
<1>3. k = "monitor"
  BY <1>1, <1>2, StepOfKind
<1>4. Grounded /\ Running("primary")
  BY <1>1, <1>3, Context DEF Does, Established, StepSafe, NeedsPrimary
<1>5. Continues(w) /\ UNCHANGED <<dep, split, mesh>>
  BY <1>2, MonitoringContinues DEF platform
<1>6. worker'[w].kind = "monitor" /\ worker'[w].pc \in DOMAIN Steps["monitor"] \cup {"raise"}
  BY <1>3, <1>5 DEF Continues, WellFormed
<1>7. worker'[w].pc \in {"test", "execute", "raise"}
  BY <1>6 DEF Steps, MonitorSteps
<1>8. worker'[w].pc = "raise" /\ worker'[w].event = "complete" => dep["candidate"].ver = tested'
  <2>1. CASE RunTest(w)
    <3>1. CASE Proceed(w)
      BY <1>1, <1>2, <2>1, <3>1, ProceedFields, Followers DEF RunTest, At
    <3>2. CASE Raising(w, "unhealthy")
      BY <1>1, <3>2, RaisingFields
    <3> QED
      BY <2>1, <3>1, <3>2 DEF RunTest
  <2>2. ASSUME NEW e, NEW t, Returns(w, e, t)
        PROVE  worker'[w].event = e
    <3> DEFINE u == IF e = "healthy" THEN t ELSE 0
    <3>1. worker'[w] = [worker[w] EXCEPT !.pc = "raise", !.event = e, !.traffic = u]
      BY <1>2, <2>2 DEF Returns
    <3> HIDE DEF u
    <3> QED
      BY <1>2, <3>1 DEF WorkerRecords
  <2>3. CASE ExecuteFirst(w)
    BY <2>2, <2>3 DEF ExecuteFirst
  <2>4. CASE CheckPasses(w)
    <3>1. \/ tested' = dep["candidate"].ver
          \/ Returns(w, "healthy", canary[worker[w].sm] + TrafficStep)
      BY <2>4 DEF CheckPasses
    <3>2. Returns(w, "healthy", canary[worker[w].sm] + TrafficStep) => worker'[w].event = "healthy"
      BY <2>2
    <3> QED
      BY <3>1, <3>2
  <2>5. CASE CheckFails(w)
    <3>1. CASE Returns(w, "unhealthy", -1)
      BY <2>2, <3>1
    <3>2. CASE worker' = [worker EXCEPT ![w].fails = @ + 1]
      <4>1. worker'[w] = [worker[w] EXCEPT !.fails = worker[w].fails + 1]
        BY <1>2, <3>2
      <4>2. worker'[w].pc = p
        BY <1>2, <4>1 DEF WorkerRecords
      <4> QED
        BY <1>1, <4>2
    <3> QED
      BY <2>5, <3>1, <3>2 DEF CheckFails
  <2>6. CASE StrategyFails(w)
    <3>1. worker'[w] = [worker[w] EXCEPT !.pc = "raise", !.event = "fail", !.also = "unhealthy"]
      BY <1>2, <2>6 DEF StrategyFails
    <3>2. worker'[w].event = "fail"
      BY <1>2, <3>1 DEF WorkerRecords
    <3> QED
      BY <3>2
  <2> QED
    BY <2>1, <2>3, <2>4, <2>5, <2>6 DEF Monitoring
<1> QED
  BY <1>4, <1>5, <1>6, <1>7, <1>8
  DEF Grounded, Running, Does, Established, StepSafe, EndSafe,
      NeedsPrimary, EndsRollout, EndsDestroy, Promoting

-----------------------------------------------------------------------------
(* Every step keeps the invariant.                                         *)

\* RestoreOriginal runs while the release is being destroyed, not after.
LEMMA NeverRedeploys ==
    ASSUME SInv, NEW w \in Workers, RestoreRedeploys(w)
    PROVE  FALSE
<1>1. Live(w) /\ worker[w].pc = "restore" /\ fsm[current] \in {"idle", "fail"}
  BY DEF RestoreRedeploys, At
<1>2. fsm[current] \in Active
  BY <1>1, Context
<1> QED
  BY <1>1, <1>2 DEF Active

\* A call, a sleep or a check of the one goroutine there is.
LEMMA CallKeeps ==
    ASSUME SInv, Calm, NEW w \in Workers, InnerStep(w)
    PROVE  SInv'
<1>1. TypeOK /\ WorkersOK
  BY DEF SInv, IInv
<1>2. Grounded' /\ Does(w)'
  BY ReleasingSafe, MonitoringSafe, DeployingSafe, DestroyingSafe DEF InnerStep
<1>3. Continues(w) /\ UNCHANGED <<fsm, current>>
  BY <1>1, ReleasingContinues, MonitoringContinues, DeployingContinues DEF InnerStep
<1>4. Live(w)
  BY DEF InnerStep, Releasing, Setup, Sleep, Scale, WaitHealthy, DestroyConfig, Monitoring,
         RunTest, ExecuteFirst, CheckPasses, CheckFails, StrategyFails, LookupPrimary,
         ClonePrimary, AwaitClone, FindCandidate, DeletePrimary, RemoveCandidate, FindPrimary,
         DeleteCandidate, RestoreCandidate, AwaitRestored, RemovePrimary, At
<1>5. \A v \in Workers : v # w => ~Live(v) /\ ~Live(v)'
  BY <1>3, <1>4, Context DEF Live, Continues
<1>6. worker[w].sm = current /\ fsm[current] = worker[w].kind
  BY <1>4, Context
<1>7. SingleFlight'
  BY <1>3, <1>5, <1>6 DEF SingleFlight, Continues
<1>8. \A v \in Workers : Live(v)' => Does(v)'
  BY <1>2, <1>5
<1> QED
  BY <1>2, <1>7, <1>8, InnerStepKeepsIInv DEF SInv

\* The handlers that follow each other.
LEMMA Successors ==
    ASSUME NEW k \in Active, NEW e \in Events, Accepts(k, e), Target(k, e) \in Active
    PROVE  \/ Target(k, e) = "monitor" /\ ((k = "deploy" /\ e = "deployed") \/ k = "scale")
           \/ Target(k, e) \in {"scale", "rollback"} /\ k = "monitor"
           \/ Target(k, e) = "promote" /\ k = "monitor" /\ e = "complete"
           \/ Target(k, e) = "destroy"
BY DEF Target, Accepts, Sources, Destination, Events, Active

\* Where a new goroutine starts.
LEMMA StartedFields ==
    ASSUME NEW m \in Machines, NEW k \in Active, NEW t \in 0..100
    PROVE  /\ Started(m, k, t).sm = m /\ Started(m, k, t).kind = k
           /\ Started(m, k, t).event = None
           /\ Started(m, k, t).pc = FirstStep[k]
           /\ k = "monitor" => FirstStep[k] \in {"test", "execute"}
           /\ k = "scale" => FirstStep[k] = "scaleStep"
           /\ k = "promote" => FirstStep[k] = "scaleUp"
           /\ k = "rollback" => FirstStep[k] = "scaleDown"
           /\ k = "destroy" => FirstStep[k] = "findPrimary"
           /\ k = "configure" => FirstStep[k] = "setup"
           /\ k = "deploy" => FirstStep[k] = "lookup"
BY DEF Started, FirstStep

\* The goroutine's event is accepted, and the next one relies on what it leaves.
LEMMA EventKeeps ==
    ASSUME SInv, Calm, NEW w \in Workers, RaiseEvent(w)
    PROVE  SInv'
<1> DEFINE k == worker[w].kind
           e == worker[w].event
           target == Target(k, e)
<1>1. Live(w) /\ worker[w].pc = "raise"
  BY DEF RaiseEvent, At
<1>2. /\ TypeOK /\ WorkersOK /\ Grounded /\ Does(w) /\ worker[w] \in WorkerRecords
      /\ k \in Active /\ worker[w].sm = current /\ fsm[current] = k
      /\ \A v \in Workers : v # w => ~Live(v)
  BY <1>1, Context
<1>3. WellFormed(worker[w])
  BY <1>1, <1>2 DEF WorkersOK
<1>4. e \in Events /\ Accepts(k, e) /\ worker[w].also = None
  BY <1>1, <1>3 DEF WellFormed, Calm
<1>5. fsm' = [fsm EXCEPT ![current] = target] /\ current' = current
      /\ UNCHANGED <<dep, split, mesh, tested>>
  BY <1>2, <1>4 DEF RaiseEvent, platform, strategy
<1>6. worker' = [worker EXCEPT ![w] = IF target \in Active
                                     THEN Started(current, target, worker[w].traffic)
                                     ELSE None]
  BY <1>2, <1>4 DEF RaiseEvent
<1>7. Grounded'
  BY <1>2, <1>5 DEF Grounded, Running
<1>8. worker[w].traffic \in 0..100 /\ current \in Machines /\ fsm \in [Machines -> States]
      /\ worker \in [Workers -> WorkerRecords \cup {None}]
  BY <1>2 DEF WorkerRecords, TypeOK
<1>9. \A v \in Workers : v # w => ~Live(v)'
  BY <1>2, <1>6, <1>8 DEF Live
<1>10. fsm'[current] = target
  BY <1>5, <1>8
<1> HIDE DEF target
<1>11. CASE target \notin Active
  <2>1. ~Live(w)'
    BY <1>6, <1>8, <1>11 DEF Live
  <2>2. \A v \in Workers : ~Live(v)'
    BY <1>9, <2>1
  <2>3. SingleFlight'
    BY <2>2 DEF SingleFlight
  <2> QED
    BY <1>7, <2>2, <2>3, RaiseEventKeepsIInv DEF SInv
<1>12. CASE target \in Active
  <2>1. worker'[w] = Started(current, target, worker[w].traffic)
    BY <1>6, <1>8, <1>12
  <2>2. /\ worker'[w].sm = current /\ worker'[w].kind = target
        /\ worker'[w].event = None /\ worker'[w].pc = FirstStep[target]
    BY <1>8, <1>12, <2>1, StartedFields
  <2>3. SingleFlight'
    BY <1>5, <1>9, <1>10, <2>2 DEF SingleFlight
  <2>4. StepSafe(k, "raise", e) /\ EndSafe(k, "raise", e)
    BY <1>1, <1>2 DEF Does, Established
  <2>5. Does(w)'
    <3>1. CASE target = "monitor"
      <4>1. (k = "deploy" /\ e = "deployed") \/ k = "scale"
        BY <1>2, <1>4, <1>12, <3>1, Successors DEF target
      <4>2. worker'[w].pc \in {"test", "execute"}
        BY <1>8, <1>12, <2>2, <3>1, StartedFields
      <4> QED
        BY <1>5, <2>2, <2>4, <3>1, <4>1, <4>2
        DEF Grounded, Running, Does, Established, StepSafe, EndSafe,
            NeedsPrimary, EndsRollout, EndsDestroy, Promoting
    <3>2. CASE target \in {"scale", "rollback"}
      <4>1. k = "monitor"
        BY <1>2, <1>4, <1>12, <3>2, Successors DEF target
      <4>2. \/ target = "scale" /\ worker'[w].pc = "scaleStep"
            \/ target = "rollback" /\ worker'[w].pc = "scaleDown"
        BY <1>8, <1>12, <2>2, <3>2, StartedFields
      <4> QED
        BY <1>5, <2>2, <2>4, <4>1, <4>2
        DEF Grounded, Running, Does, Established, StepSafe, EndSafe,
            NeedsPrimary, EndsRollout, EndsDestroy, Promoting
    <3>3. CASE target = "promote"
      <4>1. k = "monitor" /\ e = "complete"
        BY <1>2, <1>4, <1>12, <3>3, Successors DEF target
      <4>2. worker'[w].pc = "scaleUp"
        BY <1>8, <1>12, <2>2, <3>3, StartedFields
      <4> QED
        BY <1>5, <2>2, <2>4, <3>3, <4>1, <4>2
        DEF Grounded, Running, Does, Established, StepSafe, EndSafe,
            NeedsPrimary, EndsRollout, EndsDestroy, Promoting
    <3>4. CASE target = "destroy"
      <4>1. worker'[w].pc = "findPrimary"
        BY <1>8, <1>12, <2>2, <3>4, StartedFields
      <4> QED
        BY <2>2, <3>4, <4>1
        DEF Grounded, Running, Does, Established, StepSafe, EndSafe,
            NeedsPrimary, EndsRollout, EndsDestroy, Promoting
    <3>5. target \in {"monitor", "scale", "rollback", "promote", "destroy"}
      BY <1>2, <1>4, <1>12, Successors DEF target
    <3> QED
      BY <3>1, <3>2, <3>3, <3>4, <3>5
  <2> QED
    BY <1>7, <1>9, <2>3, <2>5, RaiseEventKeepsIInv DEF SInv
<1> QED
  BY <1>11, <1>12

\* Nothing runs while a release is at rest.
LEMMA NobodyAtRest ==
    ASSUME SInv, fsm[current] \notin Active
    PROVE  \A w \in Workers : ~Live(w)
BY Context

\* A request that is accepted at rest starts the only goroutine, which relies on
\* nothing yet.
LEMMA RequestKeeps ==
    ASSUME SInv, IInv', Grounded', fsm[current] \notin Active, current' = current,
           NEW k \in {"configure", "deploy", "destroy"},
           fsm' = [fsm EXCEPT ![current] = k], Spawn(current, k)
    PROVE  SInv'
<1>1. TypeOK /\ current \in Machines /\ k \in Active
  BY DEF SInv, IInv, TypeOK, Active
<1>2. PICK w \in Workers :
         /\ worker'[w] = Started(current, k, 0)
         /\ \A v \in Workers \ {w} : worker'[v] = worker[v]
  BY <1>1, SpawnOK DEF Spawned
<1>3. \A v \in Workers : v # w => ~Live(v)'
  BY <1>2, NobodyAtRest DEF Live
<1>4. /\ worker'[w].sm = current /\ worker'[w].kind = k
      /\ worker'[w].pc = FirstStep[k]
  BY <1>1, <1>2, StartedFields
<1>5. worker'[w].pc \in {"setup", "lookup", "findPrimary"}
  BY <1>4 DEF FirstStep
<1>6. Does(w)'
  BY <1>4, <1>5
  DEF Grounded, Running, Does, Established, StepSafe, EndSafe,
      NeedsPrimary, EndsRollout, EndsDestroy, Promoting
<1>7. fsm'[current] = k
  BY <1>1 DEF TypeOK
<1>8. SingleFlight'
  BY <1>3, <1>4, <1>7 DEF SingleFlight
<1> QED
  BY <1>3, <1>6, <1>8 DEF SInv

\* Whichever machine a request gets, it is the one that goes on.
LEMMA SameMachine ==
    ASSUME SInv, fsm[current] \notin Active, NEW m \in Machines, NewMachine(m)
    PROVE  m = current
BY NobodyAtRest DEF NewMachine

\* Changes of deployments that leave the goroutine where it is.
LEMMA ChangeKeeps ==
    ASSUME SInv, IInv', Grounded', UNCHANGED <<fsm, current, worker>>,
           \A w \in Workers : Live(w) => Does(w)'
    PROVE  SInv'
BY DEF SInv, SingleFlight, Live

\* What users do.
LEMMA UserStepKeeps ==
    ASSUME SInv, Calm, UserStep
    PROVE  SInv'
<1>1. TypeOK /\ Grounded /\ IInv /\ IInv'
  BY UserStepKeepsIInv DEF SInv, IInv
<1>2. dep \in [Subsets -> Deployments] /\ "primary" \in Subsets /\ "candidate" \in Subsets
  BY <1>1 DEF TypeOK, Subsets
<1>3. \A s \in {"start", "idle", "fail"} : s \notin Active
  BY DEF Active
<1>4. ASSUME NEW ver \in Versions, UNCHANGED <<split, mesh>>,
             dep' = [dep EXCEPT !["candidate"] = [phase |-> "starting", ver |-> ver]]
      PROVE  /\ dep'["primary"] = dep["primary"] /\ dep'["candidate"].phase = "starting"
             /\ Grounded'
  BY <1>1, <1>2, <1>4 DEF Grounded, Running
<1>5. ASSUME NEW ver \in Versions, Deploy(ver)
      PROVE  SInv'
  <2>1. fsm[current] \notin Active /\ Grounded'
    BY <1>3, <1>4, <1>5 DEF Deploy
  <2>2. PICK m \in Machines :
           /\ NewMachine(m) /\ current' = m /\ Spawn(m, "deploy")
           /\ fsm' = [fsm EXCEPT ![m] = "deploy"]
    BY <1>5, UserTargets DEF Deploy
  <2>3. m = current
    BY <2>1, <2>2, SameMachine
  <2> QED
    BY <1>1, <2>1, <2>2, <2>3, RequestKeeps
<1>6. ASSUME NEW ver \in Versions, DeployUnmanaged(ver)
      PROVE  SInv'
  <2>1. /\ dep'["primary"] = dep["primary"] /\ dep'["candidate"].phase = "starting"
        /\ Grounded' /\ fsm[current] = "destroy"
        /\ UNCHANGED <<fsm, current, worker, split, mesh, tested>>
    BY <1>4, <1>6 DEF DeployUnmanaged, strategy
  <2>2. ASSUME NEW w \in Workers, Live(w)
        PROVE  Does(w)'
    <3>1. Does(w) /\ worker[w].kind = "destroy"
      BY <2>1, <2>2, Context
    <3> QED
      BY <2>1, <3>1
      DEF Grounded, Running, Does, Established, StepSafe, EndSafe,
          NeedsPrimary, EndsRollout, EndsDestroy, Promoting
  <2> QED
    BY <1>1, <2>1, <2>2, ChangeKeeps
<1>7. CASE PostRelease
  <2>1. fsm[current] \notin Active
    BY <1>3, <1>7 DEF PostRelease, Accepts, Sources
  <2>2. /\ fsm' = [fsm EXCEPT ![current] = "configure"] /\ Spawn(current, "configure")
        /\ UNCHANGED <<current, dep, split, mesh>>
    BY <1>7, UserTargets DEF PostRelease, platform
  <2>3. Grounded'
    BY <1>1, <2>2 DEF Grounded, Running
  <2> QED
    BY <1>1, <2>1, <2>2, <2>3, RequestKeeps
<1>8. CASE UpdateRelease
  <2>1. fsm[current] \notin Active /\ UNCHANGED <<dep, split, mesh>>
    BY <1>3, <1>8 DEF UpdateRelease, platform
  <2>2. PICK m \in Machines :
           /\ NewMachine(m) /\ current' = m /\ Spawn(m, "configure")
           /\ fsm' = [fsm EXCEPT ![m] = "configure"]
    BY <1>8, UserTargets DEF UpdateRelease
  <2>3. m = current
    BY <2>1, <2>2, SameMachine
  <2>4. Grounded'
    BY <1>1, <2>1 DEF Grounded, Running
  <2> QED
    BY <1>1, <2>1, <2>2, <2>3, <2>4, RequestKeeps
<1>9. CASE DeleteRelease
  <2>1. fsm[current] \notin Active
    BY <1>3, <1>9 DEF DeleteRelease, Calm
  <2>2. /\ fsm' = [fsm EXCEPT ![current] = "destroy"] /\ Spawn(current, "destroy")
        /\ UNCHANGED <<current, dep, split, mesh>>
    BY <1>9, UserTargets DEF DeleteRelease, platform
  <2>3. Grounded'
    BY <1>1, <2>2 DEF Grounded, Running
  <2> QED
    BY <1>1, <2>1, <2>2, <2>3, RequestKeeps
<1>10. CASE DeleteDeployment
  <2>1. /\ dep' = [dep EXCEPT !["candidate"] = Absent] /\ fsm[current] \in UserDeletes
        /\ UNCHANGED <<fsm, current, worker, split, mesh, tested>>
    BY <1>10 DEF DeleteDeployment, strategy
  <2>2. dep'["primary"] = dep["primary"] /\ dep'["candidate"].phase = "absent"
    BY <1>2, <2>1 DEF Absent
  <2>3. Grounded'
    BY <1>1, <2>1, <2>2 DEF Grounded, Running
  <2>4. ASSUME NEW w \in Workers, Live(w)
        PROVE  Does(w)'
    <3>1. Does(w) /\ worker[w].kind = fsm[current]
      BY <2>4, Context
    <3> QED
      BY <2>1, <2>2, <3>1
      DEF Grounded, Running, Does, Established, StepSafe, EndSafe,
          NeedsPrimary, EndsRollout, EndsDestroy, Promoting
  <2> QED
    BY <1>1, <2>1, <2>3, <2>4, ChangeKeeps
<1> QED
  BY <1>5, <1>6, <1>7, <1>8, <1>9, <1>10 DEF UserStep

\* What pods and proxies do.
LEMMA PlatformStepKeeps ==
    ASSUME SInv, PlatformStep \/ UNCHANGED vars
    PROVE  SInv'
<1>1. TypeOK /\ Grounded /\ IInv /\ IInv'
  BY PlatformStepKeepsIInv DEF SInv, IInv
<1>2. dep \in [Subsets -> Deployments]
  BY <1>1 DEF TypeOK
<1>3. CASE UNCHANGED vars
  <2>1. Grounded' /\ \A w \in Workers : Live(w) => Does(w)'
    BY <1>1, <1>3, Context DEF vars, Grounded, Running, Does, Established,
         StepSafe, EndSafe, NeedsPrimary, EndsRollout, EndsDestroy, Promoting
  <2> QED
    BY <1>1, <1>3, <2>1, ChangeKeeps DEF vars
<1>4. CASE Sync
  <2>1. mesh' = split /\ UNCHANGED <<fsm, current, worker, dep, split, tested>>
    BY <1>4 DEF Sync, strategy
  <2>2. Grounded'
    BY <1>1, <2>1 DEF Grounded, Running
  <2>3. ASSUME NEW w \in Workers, Live(w)
        PROVE  Does(w)'
    <3>1. Does(w)
      BY <2>3, Context
    <3> QED
      BY <2>1, <3>1
      DEF Grounded, Running, Does, Established, StepSafe, EndSafe,
          NeedsPrimary, EndsRollout, EndsDestroy, Promoting
  <2> QED
    BY <1>1, <2>1, <2>2, <2>3, ChangeKeeps
<1>5. ASSUME NEW d \in Subsets, PodsReady(d) \/ PodsCrash(d)
      PROVE  SInv'
  <2>1. /\ UNCHANGED <<fsm, current, worker, split, mesh, tested>>
        /\ dep[d].phase \in {"starting", "ready"}
        /\ \E phase \in {"starting", "ready"} : dep' = [dep EXCEPT ![d].phase = phase]
    BY <1>5 DEF PodsReady, PodsCrash, strategy
  <2>2. /\ dep'[d].phase \in {"starting", "ready"} /\ dep'[d].ver = dep[d].ver
        /\ \A c \in Subsets : c # d => dep'[c] = dep[c]
    BY <1>2, <2>1 DEF Deployments
  <2>3. \A c \in Subsets :
           /\ Running(c)' <=> Running(c)
           /\ dep'[c].phase = "absent" <=> dep[c].phase = "absent"
           /\ dep'[c].phase = "zero" <=> dep[c].phase = "zero"
           /\ dep'[c].ver = dep[c].ver
    BY <2>1, <2>2 DEF Running
  <2>4. "primary" \in Subsets /\ "candidate" \in Subsets
    BY DEF Subsets
  <2>5. Grounded'
    BY <1>1, <2>1, <2>3, <2>4 DEF Grounded
  <2>6. ASSUME NEW w \in Workers, Live(w)
        PROVE  Does(w)'
    <3>1. Does(w)
      BY <2>6, Context
    <3> QED
      BY <2>1, <2>3, <2>4, <3>1 DEF Does, Established, StepSafe, EndSafe,
           NeedsPrimary, EndsRollout, EndsDestroy, Promoting
  <2> QED
    BY <1>1, <2>1, <2>5, <2>6, ChangeKeeps
<1> QED
  BY <1>3, <1>4, <1>5 DEF PlatformStep

\* A release that has not been configured.
LEMMA SInvInit ==
    ASSUME Init
    PROVE  SInv
<1>1. \A w \in Workers : ~Live(w)
  BY DEF Init, Live
<1>2. split = 100 /\ mesh = 100
  BY DEF Init
<1>3. /\ dep["primary"] = Absent
      /\ dep["candidate"].phase \in {"absent", "ready"}
  BY DEF Init, Absent
<1>4. Grounded
  BY <1>2, <1>3 DEF Grounded, Absent
<1> QED
  BY <1>1, <1>4, IInvInit DEF SInv, SingleFlight

\* Every step keeps the invariant.
LEMMA NextKeeps ==
    ASSUME SInv, Calm, [Next]_vars
    PROVE  SInv'
<1>1. ASSUME NEW w \in Workers, WorkerStep(w)
      PROVE  SInv'
  BY <1>1, WorkerStepCases, CallKeeps, EventKeeps, NeverRedeploys
<1> QED
  BY <1>1, UserStepKeeps, PlatformStepKeeps DEF Next

\* What calls have established stays so until it is used, whatever fails and
\* whatever pods and users do meanwhile.
THEOREM SafetyInvariance == ASSUME Calm PROVE Spec => []SInv
<1>1. Init => SInv
  BY SInvInit
<1>2. SInv /\ [Next]_vars => SInv'
  BY NextKeeps
<1> QED
  BY <1>1, <1>2, PTL DEF Spec

\* One goroutine works on a release at a time, the one its state calls for.
THEOREM OneAtATime == ASSUME Calm PROVE Spec => []SingleFlight
<1>1. SInv => SingleFlight
  BY DEF SInv
<1> QED
  BY <1>1, SafetyInvariance, PTL

\* Each goroutine finds what its next call relies on.
THEOREM StepsAlwaysSafe == ASSUME Calm PROVE Spec => []StepsAreSafe
<1>1. SInv => StepsAreSafe
  <2> SUFFICES ASSUME SInv PROVE StepsAreSafe
    OBVIOUS
  <2>1. Grounded /\ \A w \in Workers : Live(w) =>
           StepSafe(worker[w].kind, worker[w].pc, worker[w].event)
    BY DEF SInv, Does, Established
  <2> QED
    BY <2>1 DEF StepsAreSafe, Grounded, StepSafe, NeedsPrimary
<1> QED
  BY <1>1, SafetyInvariance, PTL

\* Traffic goes to a running primary or to the candidate.
THEOREM PrimaryAlwaysServes == ASSUME Calm PROVE Spec => []PrimaryServes
<1>1. SInv => PrimaryServes
  <2> SUFFICES ASSUME SInv, Share(mesh, "primary") > 0 PROVE Running("primary")
    BY DEF PrimaryServes
  <2>1. mesh # 100
    BY DEF Share
  <2> QED
    BY <2>1 DEF SInv, Grounded
<1> QED
  BY <1>1, SafetyInvariance, PTL

\* What a call of the goroutine can take away, and when.
LEMMA CallsDrained ==
    ASSUME SInv, NEW w \in Workers, InnerStep(w), NEW d \in Subsets, Withdrawn(d)
    PROVE  Share(mesh, d) = 0 \/ At(w, "deleteCandidate")
<1>1. Running(d) /\ dep'[d].phase \in {"absent", "zero"} /\ dep' # dep
  BY DEF Withdrawn, Running
<1>2. TypeOK /\ dep \in [Subsets -> Deployments] /\ mesh \in 0..100
  BY DEF SInv, IInv, TypeOK
<1>3. d \in {"primary", "candidate"}
  BY DEF Subsets
<1>4. CASE Releasing(w) \/ Monitoring(w)
  BY <1>1, <1>4, <1>2, MonitoringContinues DEF Releasing, Setup, Sleep, Scale, WaitHealthy,
     DestroyConfig, platform, SInv, IInv
<1>5. CASE LookupPrimary(w) \/ AwaitClone(w) \/ FindCandidate(w) \/ FindPrimary(w)
           \/ AwaitRestored(w)
  BY <1>1, <1>5 DEF LookupPrimary, AwaitClone, FindCandidate, FindPrimary, AwaitRestored,
                    platform
<1>6. CASE ClonePrimary(w)
  <2>1. At(w, "clone") /\ dep' = [dep EXCEPT !["primary"] = CloneOf(dep["candidate"])]
    BY <1>1, <1>6 DEF ClonePrimary
  <2>2. dep["primary"].phase = "absent"
    BY <2>1, Context DEF At, Does, Established, StepSafe
  <2> QED
    BY <1>1, <1>2, <1>3, <2>1, <2>2 DEF Running
<1>7. CASE DeletePrimary(w) \/ RemovePrimary(w)
  <2>1. /\ At(w, "deletePrimary") \/ At(w, "removePrimary")
        /\ dep' = [dep EXCEPT !["primary"] = Absent]
    BY <1>1, <1>7 DEF DeletePrimary, RemovePrimary
  <2>2. mesh = 100
    BY <2>1, Context DEF At, Does, Established, StepSafe
  <2>3. d = "primary"
    BY <1>1, <1>2, <1>3, <2>1 DEF Running
  <2> QED
    BY <2>2, <2>3 DEF Share
<1>8. CASE RemoveCandidate(w)
  <2>1. At(w, "removeCandidate") /\ dep' = [dep EXCEPT !["candidate"].phase = "zero"]
    BY <1>1, <1>8 DEF RemoveCandidate
  <2>2. mesh = 0
    BY <2>1, Context DEF At, Does, Established, StepSafe
  <2>3. d = "candidate"
    BY <1>1, <1>2, <1>3, <2>1 DEF Running
  <2> QED
    BY <2>2, <2>3 DEF Share
<1>9. CASE DeleteCandidate(w)
  BY <1>9 DEF DeleteCandidate
<1>10. CASE RestoreCandidate(w)
  <2>1. dep' = [dep EXCEPT !["candidate"] = CloneOf(dep["primary"])]
    BY <1>1, <1>10 DEF RestoreCandidate
  <2>2. dep["primary"].phase \in {"starting", "ready"}
    <3>1. dep["primary"].phase # "absent" /\ dep["primary"].phase # "zero"
      BY <1>1, <1>10 DEF RestoreCandidate, SInv, Grounded
    <3> QED
      BY <1>2, <3>1 DEF Deployments, Subsets
  <2>3. dep'["candidate"].phase = "starting" /\ dep'["primary"] = dep["primary"]
    BY <1>2, <2>1, <2>2 DEF CloneOf, Subsets
  <2> QED
    BY <1>1, <1>3, <2>2, <2>3
<1> QED
  BY <1>4, <1>5, <1>6, <1>7, <1>8, <1>9, <1>10 DEF InnerStep

\* Goroutines change the platform with calls; events and requests leave running
\* deployments alone.
LEMMA WithdrawnByCall ==
    ASSUME SInv, [Next]_vars, NEW d \in Subsets, Withdrawn(d)
    PROVE  \E w \in Workers : InnerStep(w)
<1>1. Running(d) /\ dep'[d].phase \in {"absent", "zero"} /\ dep' # dep /\ worker' # worker
  BY DEF Withdrawn, Running
<1>2. ASSUME NEW w \in Workers, WorkerStep(w)
      PROVE  InnerStep(w)
  BY <1>1, <1>2, WorkerStepCases, NeverRedeploys DEF RaiseEvent, platform
<1>3. ~PlatformStep /\ ~UNCHANGED vars
  BY <1>1 DEF PlatformStep, Sync, PodsReady, PodsCrash, vars
<1>4. ~UserStep
  <2>1. ASSUME NEW ver \in Versions, Deploy(ver)
        PROVE  FALSE
    <3>1. /\ dep' = [dep EXCEPT !["candidate"] = [phase |-> "starting", ver |-> ver]]
          /\ dep \in [Subsets -> Deployments]
      BY <2>1 DEF Deploy, SInv, IInv, TypeOK
    <3> QED
      BY <1>1, <3>1 DEF Running, Subsets
  <2> QED
    BY <1>1, <2>1 DEF UserStep, DeployUnmanaged, PostRelease, UpdateRelease, DeleteRelease,
                      DeleteDeployment, platform
<1> QED
  BY <1>2, <1>3, <1>4 DEF Next

\* Running deployments are taken away only when the proxies send them nothing.
THEOREM RemovesDrained == ASSUME Calm PROVE Spec => DrainedRemoval
<1> DEFINE Step == \A d \in Subsets : Withdrawn(d) =>
                      \/ Share(mesh, d) = 0
                      \/ \E w \in Workers : At(w, "deleteCandidate")
<1>1. SInv /\ [Next]_vars => [Step]_vars
  BY WithdrawnByCall, CallsDrained
<1> QED
  BY <1>1, SafetyInvariance, PTL DEF Spec, DrainedRemoval

\* The version that is copied is the one the strategy completed for.
THEOREM PromotesOnlyTested == ASSUME Calm PROVE Spec => PromotesTested
<1> DEFINE Step == \A w \in Workers :
                      Clones(w) /\ worker[w].kind = "promote" => dep'["primary"].ver = tested
<1>1. SInv /\ [Next]_vars => [Step]_vars
  <2> SUFFICES ASSUME SInv, Next, NEW w \in Workers, Clones(w), worker[w].kind = "promote"
               PROVE  dep'["primary"].ver = tested
    OBVIOUS
  <2>1. /\ Live(w) /\ worker[w].pc = "clone" /\ worker' # worker
        /\ dep'["primary"] # dep["primary"] /\ dep' # dep
    BY DEF Clones, At
  <2>2. /\ fsm[current] = "promote" /\ Does(w)
        /\ \A v \in Workers : v # w => ~Live(v)
        /\ dep \in [Subsets -> Deployments]
    BY <2>1, Context DEF TypeOK
  <2>3. ~PlatformStep
    BY <2>1 DEF PlatformStep, Sync, PodsReady, PodsCrash
  <2>4. ~UserStep
    BY <2>1, <2>2 DEF UserStep, Deploy, DeployUnmanaged, PostRelease, UpdateRelease,
                      DeleteRelease, DeleteDeployment, platform
  <2>5. PICK v \in Workers : WorkerStep(v)
    BY <2>3, <2>4 DEF Next
  <2>6. Live(v)
    BY <2>5 DEF WorkerStep, RaiseEvent, Releasing, Setup, Sleep, Scale, WaitHealthy, DestroyConfig,
         Monitoring, RunTest, ExecuteFirst, CheckPasses, CheckFails, StrategyFails, Deploying,
         LookupPrimary, ClonePrimary, AwaitClone, FindCandidate, DeletePrimary, RemoveCandidate,
         FindPrimary, DeleteCandidate, RestoreCandidate, RestoreRedeploys, AwaitRestored,
         RemovePrimary, At
  <2>7. v = w
    BY <2>2, <2>6
  <2>8. ClonePrimary(w)
    BY <2>1, <2>5, <2>7 DEF WorkerStep, RaiseEvent, Releasing, Setup, Sleep, Scale, WaitHealthy,
         DestroyConfig, Monitoring, RunTest, ExecuteFirst, CheckPasses, CheckFails, StrategyFails,
         Deploying, LookupPrimary, AwaitClone, FindCandidate, DeletePrimary,
         RemoveCandidate, FindPrimary, DeleteCandidate, RestoreCandidate, RestoreRedeploys,
         AwaitRestored, RemovePrimary, At, platform
  <2>9. /\ dep["candidate"].phase # "absent"
        /\ dep' = [dep EXCEPT !["primary"] = CloneOf(dep["candidate"])]
    BY <2>1, <2>8 DEF ClonePrimary
  <2>10. dep["candidate"].ver = tested
    BY <2>1, <2>2, <2>9 DEF Does, Established, EndSafe, Promoting
  <2> QED
    BY <2>2, <2>9, <2>10 DEF CloneOf, Subsets
<1> QED
  BY <1>1, SafetyInvariance, PTL DEF Spec, PromotesTested

\* A release comes to state idle with an event.
LEMMA IdleByEvent ==
    ASSUME SInv, Next, fsm[current] \in Active, fsm'[current] = "idle"
    PROVE  \E w \in Workers : RaiseEvent(w)
<1>1. fsm' # fsm
  BY DEF Active
<1>2. ~PlatformStep
  BY <1>1 DEF PlatformStep, Sync, PodsReady, PodsCrash
<1>3. ~UserStep
  <2>1. TypeOK /\ fsm \in [Machines -> States] /\ current \in Machines
    BY DEF SInv, IInv, TypeOK
  <2>2. ASSUME DeleteRelease
        PROVE  FALSE
    BY <2>1, <2>2, UserTargets DEF DeleteRelease
  <2> QED
    BY <1>1, <2>1, <2>2 DEF UserStep, Deploy, DeployUnmanaged, PostRelease, UpdateRelease,
         DeleteDeployment, Active, Accepts, Sources
<1>4. ASSUME NEW w \in Workers, InnerStep(w)
      PROVE  FALSE
  BY <1>1, <1>4, ReleasingContinues, MonitoringContinues, DeployingContinues
     DEF InnerStep, SInv, IInv
<1> QED
  BY <1>2, <1>3, <1>4, WorkerStepCases, NeverRedeploys DEF Next

\* An operation that ends well leaves all traffic on the deployment it leaves.
THEOREM EndsQuiet == ASSUME Calm, "destroy" \notin UserDeletes PROVE Spec => QuietIdle
<1> DEFINE Step ==
      /\ fsm[current] \in {"deploy", "promote", "rollback"} /\ fsm'[current] = "idle"
         => mesh = 0 /\ split = 0 /\ Running("primary") /\ ~Running("candidate")
      /\ fsm[current] = "destroy" /\ fsm'[current] = "idle"
         => mesh = 100 /\ ~Running("primary") /\ Running("candidate")
<1>1. SInv /\ [Next]_vars => [Step]_vars
  <2> SUFFICES ASSUME SInv, Next, fsm'[current] = "idle",
                      fsm[current] \in {"deploy", "promote", "rollback", "destroy"}
               PROVE  Step
    OBVIOUS
  <2>1. PICK w \in Workers : RaiseEvent(w)
    BY IdleByEvent DEF Active
  <2>2. Live(w) /\ worker[w].pc = "raise"
    BY <2>1 DEF RaiseEvent, At
  <2>3. /\ TypeOK /\ WorkersOK /\ Does(w) /\ fsm[current] = worker[w].kind
        /\ worker[w].sm = current
    BY <2>2, Context
  <2>4. worker[w].event \in Events /\ Accepts(worker[w].kind, worker[w].event)
    BY <2>2, <2>3 DEF WorkersOK, WellFormed
  <2>5. Target(worker[w].kind, worker[w].event) = "idle"
    BY <2>1, <2>3, <2>4 DEF RaiseEvent, TypeOK
  <2>6. \/ worker[w].event = "complete"
        \/ worker[w].event = "promoted" /\ worker[w].kind = "promote"
    BY <2>3, <2>4, <2>5 DEF Target, Destination, Accepts, Sources, Events
  <2>7. worker[w].kind = "promote" => worker[w].event = "promoted"
    BY <2>4, <2>6 DEF Accepts, Sources
  <2> QED
    BY <2>2, <2>3, <2>6, <2>7 DEF Does, Established, EndSafe, EndsRollout, EndsDestroy
<1> QED
  BY <1>1, SafetyInvariance, PTL DEF Spec, QuietIdle

=============================================================================
