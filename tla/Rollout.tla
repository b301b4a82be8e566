------------------------------ MODULE Rollout ------------------------------
(***************************************************************************)
(* One release of the controller: its state machine, the goroutines that   *)
(* the state machine starts, the deployments and the traffic split those   *)
(* goroutines change one call at a time, and the users who deploy,         *)
(* reconfigure and destroy while they run.                                 *)
(*                                                                         *)
(* A worker is a goroutine started by an enter_<state> callback of         *)
(* statemachine.go.  Each of its steps is one call to a plugin, or, where  *)
(* the runtime plugin makes several calls to the platform, one of those;   *)
(* steps of several workers interleave.                                    *)
(***************************************************************************)
EXTENDS Integers, StateMachine

CONSTANTS
    Workers,        \* goroutines alive at a time (a bound)
    Machines,       \* StateMachine objects alive at a time (a bound)
    Versions,       \* application versions users deploy
    None,           \* no version, no event, no worker
    InitialTraffic, TrafficStep, MaxTraffic, ErrorThreshold,  \* canary config
    HasTest,        \* the release has a post deployment test
    Faults,         \* the calls that may fail although they could succeed
    DestroyFrom,    \* the states in which a user destroys the release
    UserDeletes     \* the states in which a user deletes the candidate

\* The validate tags of the canary PluginConfig; a threshold of 0 is refused
\* by "required".
ASSUME CanaryAssumption ==
    /\ InitialTraffic \in 0..100
    /\ TrafficStep \in 1..100
    /\ MaxTraffic \in 1..100
    /\ ErrorThreshold \in Nat \ {0}

\* "call" is any plugin call returning an error; "lookup" is the read of the
\* primary in InitPrimary failing; "strategy" is Strategy.Execute returning
\* an error.
ASSUME EnvironmentAssumption ==
    /\ HasTest \in BOOLEAN
    /\ Faults \subseteq {"call", "lookup", "strategy"}
    /\ DestroyFrom \subseteq States
    /\ UserDeletes \subseteq States

VARIABLES
    fsm,        \* state of each StateMachine object
    current,    \* the object the provider hands out for the release
    worker,     \* the goroutines
    dep,        \* the primary and the candidate deployment on the platform
    split,      \* candidate's percentage in Consul's configuration
    mesh,       \* candidate's percentage as routed by the proxies
    canary,     \* CandidateTraffic in each object's canary plugin
    saved,      \* CandidateTraffic in the plugin's stored state
    tested,     \* history: the version the strategy last completed for
    installed   \* history: a primary has been created before

vars == <<fsm, current, worker, dep, split, mesh, canary, saved, tested, installed>>
platform == <<dep, split, mesh>>
strategy == <<canary, saved, tested>>
-----------------------------------------------------------------------------
(* What each goroutine does: for each step, the step that follows when the *)
(* call succeeds.  "raise" is the FSM.Event call that ends the goroutine.  *)

ConfigureSteps ==
    [ setup |-> "settle", settle |-> "lookup", lookup |-> "clone",
      clone |-> "cloneReady", cloneReady |-> "primaryHealthy",
      primaryHealthy |-> "scaleDown", scaleDown |-> "drain",
      drain |-> "removeCandidate", removeCandidate |-> "raise" ]

\* Mutant: doDeploy removes the candidate without sleeping first.
DeployStepsNoSleep ==
    [ lookup |-> "clone", clone |-> "cloneReady",
      cloneReady |-> "primaryHealthy", primaryHealthy |-> "scaleDown",
      scaleDown |-> "removeCandidate", drain |-> "removeCandidate",
      removeCandidate |-> "raise" ]

DeploySteps ==
    [ lookup |-> "clone", clone |-> "cloneReady",
      cloneReady |-> "primaryHealthy", primaryHealthy |-> "scaleDown",
      scaleDown |-> "drain", drain |-> "removeCandidate",
      removeCandidate |-> "raise" ]

MonitorSteps == [ test |-> "execute", execute |-> "raise" ]

ScaleSteps == [ scaleStep |-> "raise" ]

\* Mutant: doPromote replaces the primary without sleeping first.
PromoteStepsNoSleep ==
    [ scaleUp |-> "find", settle |-> "find", find |-> "deletePrimary",
      deletePrimary |-> "clone", clone |-> "cloneReady",
      cloneReady |-> "primaryHealthy", primaryHealthy |-> "scaleDown",
      scaleDown |-> "drain", drain |-> "removeCandidate",
      removeCandidate |-> "raise" ]

PromoteSteps ==
    [ scaleUp |-> "settle", settle |-> "find", find |-> "deletePrimary",
      deletePrimary |-> "clone", clone |-> "cloneReady",
      cloneReady |-> "primaryHealthy", primaryHealthy |-> "scaleDown",
      scaleDown |-> "drain", drain |-> "removeCandidate",
      removeCandidate |-> "raise" ]

\* Mutants: doRollback leaves the candidate running, or removes it at once.
RollbackStepsKeep ==
    [ scaleDown |-> "drain", drain |-> "raise", removeCandidate |-> "raise" ]

RollbackStepsNoSleep ==
    [ scaleDown |-> "removeCandidate", drain |-> "removeCandidate",
      removeCandidate |-> "raise" ]

RollbackSteps ==
    [ scaleDown |-> "drain", drain |-> "removeCandidate",
      removeCandidate |-> "raise" ]

DestroySteps ==
    [ findPrimary |-> "deleteCandidate", deleteCandidate |-> "restore",
      restore |-> "restoreReady", restoreReady |-> "candidateHealthy",
      candidateHealthy |-> "scaleUp", scaleUp |-> "settle",
      settle |-> "removePrimary", removePrimary |-> "destroyConfig",
      destroyConfig |-> "raise" ]

Steps ==
    [ configure |-> ConfigureSteps, deploy |-> DeploySteps,
      monitor |-> MonitorSteps, scale |-> ScaleSteps, promote |-> PromoteSteps,
      rollback |-> RollbackSteps, destroy |-> DestroySteps ]

FirstStep ==
    [ configure |-> "setup", deploy |-> "lookup",
      monitor |-> IF HasTest THEN "test" ELSE "execute", scale |-> "scaleStep",
      promote |-> "scaleUp", rollback |-> "scaleDown", destroy |-> "findPrimary" ]

\* The event a goroutine raises when all its calls have succeeded.
Outcome ==
    [ configure |-> "configured", deploy |-> "complete", scale |-> "scaled",
      promote |-> "promoted", rollback |-> "complete", destroy |-> "complete" ]

StepNames == {"setup", "settle", "lookup", "clone", "cloneReady", "primaryHealthy",
              "scaleDown", "drain", "removeCandidate", "test", "execute",
              "scaleStep", "scaleUp", "find", "deletePrimary", "findPrimary",
              "deleteCandidate", "restore", "restoreReady", "candidateHealthy",
              "removePrimary", "destroyConfig", "raise"}
-----------------------------------------------------------------------------
Subsets == {"primary", "candidate"}

\* A deployment exists with no pods ("zero"), with pods that are not all
\* available ("starting"), or with all of them available ("ready").
Deployments == [phase : {"absent", "zero", "starting", "ready"},
                ver : Versions \cup {None}]

Absent == [phase |-> "absent", ver |-> None]

\* The share of the release's traffic a subset gets from a candidate weight.
Share(weight, d) == IF d = "candidate" THEN weight ELSE 100 - weight

Running(d) == dep[d].phase \in {"starting", "ready"}

WorkerRecords ==
    [ sm : Machines,                \* the machine whose FSM it raises events on
      kind : Active,                \* the callback that started it
      pc : StepNames,
      event : Events \cup {None},   \* the event it is about to raise
      also : Events \cup {None},    \* an event it raises after that one
      traffic : 0..100,             \* argument of event_healthy
      created : BOOLEAN,            \* InitPrimary returned RuntimeDeploymentUpdate
      fails : 0..ErrorThreshold ]   \* failCount of the canary's Execute

ASSUME NoneAssumption ==
    None \notin Versions \cup Events \cup WorkerRecords

TypeOK ==
    /\ fsm \in [Machines -> States]
    /\ current \in Machines
    /\ worker \in [Workers -> WorkerRecords \cup {None}]
    /\ dep \in [Subsets -> Deployments]
    /\ split \in 0..100
    /\ mesh \in 0..100
    /\ canary \in [Machines -> -1..100]
    /\ saved \in -1..100
    /\ tested \in Versions \cup {None}
    /\ installed \in BOOLEAN

Init ==
    /\ fsm = [m \in Machines |-> "start"]
    /\ current \in Machines
    /\ worker = [w \in Workers |-> None]
    /\ \E ver \in Versions :
          dep \in { [primary |-> Absent, candidate |-> c] :
                       c \in {Absent, [phase |-> "ready", ver |-> ver]} }
    /\ split = 100 /\ mesh = 100       \* no splitter: the default subset
    /\ canary = [m \in Machines |-> -1]
    /\ saved = -1
    /\ tested = None
    /\ installed = FALSE
-----------------------------------------------------------------------------
Live(w) == worker[w] # None

At(w, step) == Live(w) /\ worker[w].pc = step

\* The goroutine an enter_<kind> callback of machine m starts.
Started(m, kind, traffic) ==
    [ sm |-> m, kind |-> kind, pc |-> FirstStep[kind], event |-> None,
      also |-> None, traffic |-> traffic, created |-> FALSE, fails |-> 0 ]

Goto(w, step) == worker' = [worker EXCEPT ![w].pc = step]

Raising(w, event) ==
    worker' = [worker EXCEPT ![w].pc = "raise", ![w].event = event]

\* The worker after its call has succeeded: at the step that follows.
Succeeded(w) ==
    LET next == Steps[worker[w].kind][worker[w].pc]
    IN  [worker[w] EXCEPT !.pc = next,
                          !.event = IF next = "raise" THEN Outcome[worker[w].kind]
                                                      ELSE None]

Proceed(w) == worker' = [worker EXCEPT ![w] = Succeeded(w)]

\* The call failed: every handler then raises event_fail and returns.
Abort(w) == Raising(w, "fail")

\* Calls that can fail on their own: Consul or the platform answers an error.
CallFails(w) == "call" \in Faults /\ Abort(w)
-----------------------------------------------------------------------------
(* Calls to the releaser plugin.                                           *)

\* releaser.Setup: which entries it writes is the matter of another module.
Setup(w) ==
    /\ At(w, "setup")
    /\ Proceed(w) \/ CallFails(w)
    /\ UNCHANGED <<fsm, current, platform, strategy, installed>>

\* time.Sleep(stepDelay): the data plane is assumed to have converged when it
\* returns.
Sleep(w) ==
    /\ At(w, "settle") \/ At(w, "drain")
    /\ mesh = split
    /\ Proceed(w)
    /\ UNCHANGED <<fsm, current, platform, strategy, installed>>

\* Where a worker goes once all the traffic is on the primary: doDeploy skips
\* the removal unless InitPrimary has just created the primary.
ScaledDown(w) ==
    IF worker[w].kind = "deploy" /\ ~worker[w].created
    THEN Raising(w, "deployed") ELSE Proceed(w)

\* releaser.Scale(value): one write of the service splitter.
Scale(w) ==
    /\ \/ /\ At(w, "scaleDown") /\ split' = 0 /\ ScaledDown(w)
       \/ /\ At(w, "scaleUp") /\ split' = 100 /\ Proceed(w)
       \/ /\ At(w, "scaleStep") /\ split' = worker[w].traffic /\ Proceed(w)
       \/ /\ At(w, "scaleDown") \/ At(w, "scaleUp") \/ At(w, "scaleStep")
          /\ CallFails(w) /\ split' = split
    /\ UNCHANGED <<fsm, current, dep, mesh, strategy, installed>>

\* WaitUntilServiceHealthy: retried for 300s, then the last error is returned.
WaitHealthy(w) ==
    /\ \E d \in Subsets :
          /\ At(w, IF d = "primary" THEN "primaryHealthy" ELSE "candidateHealthy")
          /\ \/ dep[d].phase = "ready" /\ Proceed(w)
             \/ dep[d].phase # "ready" /\ Abort(w)
             \/ CallFails(w)
    /\ UNCHANGED <<fsm, current, platform, strategy, installed>>

\* releaser.Destroy: deleting the splitter sends everything to the default
\* subset, the candidate; a failure may come before or after that.
DestroyConfig(w) ==
    /\ At(w, "destroyConfig")
    /\ \/ split' = 100 /\ Proceed(w)
       \/ split' \in {split, 100} /\ CallFails(w)
    /\ UNCHANGED <<fsm, current, dep, mesh, strategy, installed>>
-----------------------------------------------------------------------------
(* Calls the runtime plugin makes to the platform.                         *)

\* InitPrimary up to the clone: with a primary, or without a candidate, there
\* is nothing to do, and an error reading the primary counts as its absence.
NoAction(w) ==
    IF worker[w].kind = "deploy"
    THEN Goto(w, "primaryHealthy") ELSE Raising(w, "configured")

LookupPrimary(w) ==
    /\ At(w, "lookup")
    /\ \/ /\ dep["primary"].phase # "absent"
          /\ NoAction(w)
       \/ /\ dep["primary"].phase = "absent" \/ "lookup" \in Faults
          /\ dep["candidate"].phase # "absent"
          /\ Proceed(w)
       \/ /\ dep["primary"].phase = "absent" \/ "lookup" \in Faults
          /\ dep["candidate"].phase = "absent" \/ "call" \in Faults
          /\ NoAction(w)
    /\ UNCHANGED <<fsm, current, platform, strategy, installed>>

\* What CloneDeployment makes of an existing deployment: a copy that still has
\* to start, with as many instances, none if the original is scaled to zero.
CloneOf(d) ==
    [ phase |-> IF d.phase = "zero" THEN "zero" ELSE "starting", ver |-> d.ver ]

\* CloneDeployment(candidate, primary), creating or overwriting the primary.
ClonePrimary(w) ==
    /\ At(w, "clone")
    /\ \/ /\ dep["candidate"].phase # "absent"
          /\ dep' = [dep EXCEPT !["primary"] = CloneOf(dep["candidate"])]
          /\ installed' = TRUE
          /\ Proceed(w)
       \/ /\ dep["candidate"].phase = "absent" \/ "call" \in Faults
          /\ Abort(w)
          /\ UNCHANGED <<dep, installed>>
    /\ UNCHANGED <<fsm, current, split, mesh, strategy>>

\* GetHealthyDeployment of the clone; InitPrimary then returns Update.
AwaitClone(w) ==
    /\ At(w, "cloneReady")
    /\ \/ /\ dep["primary"].phase = "ready"
          /\ worker' = [worker EXCEPT ![w].pc = "primaryHealthy", ![w].created = TRUE]
       \/ dep["primary"].phase # "ready" /\ Abort(w)
       \/ CallFails(w)
    /\ UNCHANGED <<fsm, current, platform, strategy, installed>>

\* PromoteCandidate waits for the candidate; when it does not exist it returns
\* NotFound without an error, and doPromote carries on.
FindCandidate(w) ==
    /\ At(w, "find")
    /\ \/ dep["candidate"].phase = "ready" /\ Proceed(w)
       \/ dep["candidate"].phase = "absent" /\ Goto(w, "primaryHealthy")
       \/ dep["candidate"].phase \in {"zero", "starting"} /\ Abort(w)
       \/ CallFails(w)
    /\ UNCHANGED <<fsm, current, platform, strategy, installed>>

\* The deletion of the old primary in PromoteCandidate, where an absent primary
\* is an error.
DeletePrimary(w) ==
    /\ At(w, "deletePrimary")
    /\ \/ /\ dep["primary"].phase # "absent"
          /\ dep' = [dep EXCEPT !["primary"] = Absent]
          /\ Proceed(w)
       \/ /\ dep["primary"].phase = "absent" \/ "call" \in Faults
          /\ Abort(w)
          /\ dep' = dep
    /\ UNCHANGED <<fsm, current, split, mesh, strategy, installed>>

\* RemoveCandidate scales the candidate to zero; none is not an error.
RemoveCandidate(w) ==
    /\ At(w, "removeCandidate")
    /\ \/ /\ dep' = IF dep["candidate"].phase = "absent" THEN dep
                    ELSE [dep EXCEPT !["candidate"].phase = "zero"]
          /\ Proceed(w)
       \/ CallFails(w) /\ dep' = dep
    /\ UNCHANGED <<fsm, current, split, mesh, strategy, installed>>

\* RestoreOriginal: without a primary there is nothing to restore.
FindPrimary(w) ==
    /\ At(w, "findPrimary")
    /\ \/ dep["primary"].phase # "absent" /\ Proceed(w)
       \/ dep["primary"].phase = "absent" /\ Goto(w, "candidateHealthy")
       \/ CallFails(w)
    /\ UNCHANGED <<fsm, current, platform, strategy, installed>>

DeleteCandidate(w) ==
    /\ At(w, "deleteCandidate")
    /\ \/ dep' = [dep EXCEPT !["candidate"] = Absent] /\ Proceed(w)
       \/ CallFails(w) /\ dep' = dep
    /\ UNCHANGED <<fsm, current, split, mesh, strategy, installed>>

\* CloneDeployment(primary, candidate).  The copy has the candidate's name, so
\* creating it passes the admission check, which lets it through unseen in state
\* destroy only; in another active state it is rejected.
RestoreCandidate(w) ==
    /\ At(w, "restore")
    /\ \/ /\ dep["primary"].phase # "absent" /\ fsm[current] = "destroy"
          /\ dep' = [dep EXCEPT !["candidate"] = CloneOf(dep["primary"])]
          /\ Proceed(w)
       \/ /\ \/ dep["primary"].phase = "absent"
             \/ fsm[current] \notin {"destroy", "idle", "fail"}
             \/ "call" \in Faults
          /\ Abort(w)
          /\ dep' = dep
    /\ UNCHANGED <<fsm, current, split, mesh, strategy, installed>>

AwaitRestored(w) ==
    /\ At(w, "restoreReady")
    /\ \/ dep["candidate"].phase = "ready" /\ Proceed(w)
       \/ dep["candidate"].phase # "ready" /\ Abort(w)
       \/ CallFails(w)
    /\ UNCHANGED <<fsm, current, platform, strategy, installed>>

RemovePrimary(w) ==
    /\ At(w, "removePrimary")
    /\ \/ dep' = [dep EXCEPT !["primary"] = Absent] /\ Proceed(w)
       \/ CallFails(w) /\ dep' = dep
    /\ UNCHANGED <<fsm, current, split, mesh, strategy, installed>>
-----------------------------------------------------------------------------
(* The monitor state: the post deployment test, then one Execute.          *)

RunTest(w) ==
    /\ At(w, "test")
    /\ Proceed(w) \/ Raising(w, "unhealthy")
    /\ UNCHANGED <<fsm, current, platform, strategy, installed>>

\* Execute returns a status and saves the plugin's state on the way out.
Returns(w, event, traffic) ==
    /\ worker' = [worker EXCEPT ![w].pc = "raise", ![w].event = event,
                                ![w].traffic = IF event = "healthy" THEN traffic ELSE 0]
    /\ canary' = [canary EXCEPT ![worker[w].sm] = traffic]
    /\ saved' = traffic

FirstTraffic == IF InitialTraffic = 0 THEN TrafficStep ELSE InitialTraffic

\* No rollout in progress: wait for the initial delay, set the first split.
ExecuteFirst(w) ==
    /\ At(w, "execute")
    /\ canary[worker[w].sm] = -1
    /\ Returns(w, "healthy", FirstTraffic)
    /\ UNCHANGED <<fsm, current, platform, tested, installed>>

\* Mutant: the traffic is capped, and the rollout never completes.
CheckPassesCapped(w) ==
    LET traffic == canary[worker[w].sm] + TrafficStep
    IN  /\ At(w, "execute")
        /\ canary[worker[w].sm] # -1
        /\ Returns(w, "healthy", IF traffic > MaxTraffic THEN MaxTraffic ELSE traffic)
        /\ UNCHANGED <<fsm, current, platform, tested, installed>>

CheckPasses(w) ==
    LET traffic == canary[worker[w].sm] + TrafficStep
    IN  /\ At(w, "execute")
        /\ canary[worker[w].sm] # -1
        /\ IF traffic >= MaxTraffic
           THEN /\ Returns(w, "complete", -1)
                /\ tested' = dep["candidate"].ver
           ELSE /\ Returns(w, "healthy", traffic)
                /\ tested' = tested
        /\ UNCHANGED <<fsm, current, platform, installed>>

\* Mutant: the threshold is never looked at.
CheckFailsForEver(w) ==
    /\ At(w, "execute")
    /\ canary[worker[w].sm] # -1
    /\ worker' = [worker EXCEPT ![w].fails = @ + 1]
    /\ saved' = canary[worker[w].sm]
    /\ canary' = canary
    /\ UNCHANGED <<fsm, current, platform, tested, installed>>

\* One failed check, and the last one that ErrorThreshold allows.
CheckFails(w) ==
    /\ At(w, "execute")
    /\ canary[worker[w].sm] # -1
    /\ IF worker[w].fails + 1 >= ErrorThreshold
       THEN Returns(w, "unhealthy", -1)
       ELSE /\ worker' = [worker EXCEPT ![w].fails = @ + 1]
            /\ saved' = canary[worker[w].sm]
            /\ canary' = canary
    /\ UNCHANGED <<fsm, current, platform, tested, installed>>

\* An error of Execute, which has set the initial traffic by then, raises
\* event_fail and falls through to the switch, where the failed status that
\* comes with it raises event_unhealthy too.
StrategyFails(w) ==
    /\ At(w, "execute")
    /\ "strategy" \in Faults
    /\ worker' = [worker EXCEPT ![w].pc = "raise", ![w].event = "fail",
                                ![w].also = "unhealthy"]
    /\ saved' = IF canary[worker[w].sm] = -1 THEN FirstTraffic ELSE canary[worker[w].sm]
    /\ canary' = [canary EXCEPT ![worker[w].sm] = saved']
    /\ UNCHANGED <<fsm, current, platform, tested, installed>>
-----------------------------------------------------------------------------
(* Events.  Entering an active state starts its goroutine; the goroutine   *)
(* that raised the event ends, so it takes over its slot.                  *)

RaiseEvent(w) ==
    LET m == worker[w].sm
        event == worker[w].event
        target == Target(fsm[m], event)
        accepted == Accepts(fsm[m], event)
    IN  /\ At(w, "raise")
        /\ fsm' = IF accepted THEN [fsm EXCEPT ![m] = target] ELSE fsm
        /\ worker' = [worker EXCEPT ![w] =
              IF worker[w].also # None
              THEN [worker[w] EXCEPT !.event = worker[w].also, !.also = None]
              ELSE IF accepted /\ target \in Active
              THEN Started(m, target, worker[w].traffic)
              ELSE None]
        /\ UNCHANGED <<current, platform, strategy, installed>>

Spawn(m, kind) ==
    \E w \in Workers : /\ ~Live(w)
                       /\ worker' = [worker EXCEPT ![w] = Started(m, kind, 0)]

\* A machine no goroutine works for can stand for a new object.
NewMachine(m) ==
    LET unused(n) == \A w \in Workers : Live(w) => worker[w].sm # n
    IN  unused(m) /\ (unused(current) => m = current)

\* Mutant: a deployment is admitted whatever the release is doing.
DeployAnyTime(ver) ==
    /\ Accepts(fsm[current], "destroy")
    /\ \E m \in Machines :
          /\ current' = m
          /\ fsm' = [fsm EXCEPT ![m] = "deploy"]
          /\ canary' = [canary EXCEPT ![m] = saved]
          /\ Spawn(m, "deploy")
    /\ dep' = [dep EXCEPT !["candidate"] = [phase |-> "starting", ver |-> ver]]
    /\ UNCHANGED <<split, mesh, saved, tested, installed>>

\* A user's deployment, admitted because the release is at rest: a new machine
\* starts in the release's state, loads the plugins' state and deploys.
Deploy(ver) ==
    /\ fsm[current] \in {"idle", "fail"}
    /\ \E m \in Machines :
          /\ NewMachine(m)
          /\ current' = m
          /\ fsm' = [fsm EXCEPT ![m] = Target(fsm[current], "deploy")]
          /\ canary' = [canary EXCEPT ![m] = saved]
          /\ Spawn(m, "deploy")
    /\ dep' = [dep EXCEPT !["candidate"] = [phase |-> "starting", ver |-> ver]]
    /\ UNCHANGED <<split, mesh, saved, tested, installed>>

\* Mutant: a release being promoted lets deployments through as well.
DeployUnmanagedPromoting(ver) ==
    /\ fsm[current] \in {"destroy", "promote"}
    /\ dep' = [dep EXCEPT !["candidate"] = [phase |-> "starting", ver |-> ver]]
    /\ UNCHANGED <<fsm, current, worker, split, mesh, strategy, installed>>

\* A user's deployment while the release is being destroyed is admitted too.
DeployUnmanaged(ver) ==
    /\ fsm[current] = "destroy"
    /\ dep' = [dep EXCEPT !["candidate"] = [phase |-> "starting", ver |-> ver]]
    /\ UNCHANGED <<fsm, current, worker, split, mesh, strategy, installed>>

\* The clone of a worker whose release has come to rest under it is taken for
\* a user's deployment.
RestoreRedeploys(w) ==
    /\ At(w, "restore")
    /\ dep["primary"].phase # "absent"
    /\ fsm[current] \in {"idle", "fail"}
    /\ dep' = [dep EXCEPT !["candidate"] = CloneOf(dep["primary"])]
    /\ \E m \in Machines, v \in Workers :
          /\ NewMachine(m) /\ ~Live(v)
          /\ current' = m
          /\ fsm' = [fsm EXCEPT ![m] = Target(fsm[current], "deploy")]
          /\ canary' = [canary EXCEPT ![m] = saved]
          /\ worker' = [worker EXCEPT ![w] = Succeeded(w),
                                      ![v] = Started(m, "deploy", 0)]
    /\ UNCHANGED <<split, mesh, saved, tested, installed>>

\* The HTTP API configures the machine the provider holds.
PostRelease ==
    /\ Accepts(fsm[current], "configure")
    /\ fsm' = [fsm EXCEPT ![current] = Target(@, "configure")]
    /\ Spawn(current, "configure")
    /\ UNCHANGED <<current, platform, strategy, installed>>

\* The Kubernetes controller replaces it first, if the stored release is at rest.
UpdateRelease ==
    /\ fsm[current] \in {"idle", "fail"}
    /\ \E m \in Machines :
          /\ NewMachine(m)
          /\ current' = m
          /\ fsm' = [fsm EXCEPT ![m] = Target("start", "configure")]
          /\ canary' = [canary EXCEPT ![m] = saved]
          /\ Spawn(m, "configure")
    /\ UNCHANGED <<platform, saved, tested, installed>>

DeleteRelease ==
    /\ fsm[current] \in DestroyFrom
    /\ Accepts(fsm[current], "destroy")
    /\ fsm' = [fsm EXCEPT ![current] = Target(@, "destroy")]
    /\ Spawn(current, "destroy")
    /\ UNCHANGED <<current, platform, strategy, installed>>

DeleteDeployment ==
    /\ fsm[current] \in UserDeletes
    /\ dep["candidate"].phase # "absent"
    /\ dep' = [dep EXCEPT !["candidate"] = Absent]
    /\ UNCHANGED <<fsm, current, worker, split, mesh, strategy, installed>>
-----------------------------------------------------------------------------
(* The platform and the data plane.                                        *)

PodsReady(d) ==
    /\ dep[d].phase = "starting"
    /\ dep' = [dep EXCEPT ![d].phase = "ready"]
    /\ UNCHANGED <<fsm, current, worker, split, mesh, strategy, installed>>

PodsCrash(d) ==
    /\ dep[d].phase = "ready"
    /\ dep' = [dep EXCEPT ![d].phase = "starting"]
    /\ UNCHANGED <<fsm, current, worker, split, mesh, strategy, installed>>

\* The proxies pick up the splitter.
Sync ==
    /\ mesh # split
    /\ mesh' = split
    /\ UNCHANGED <<fsm, current, worker, dep, split, strategy, installed>>
-----------------------------------------------------------------------------
Monitoring(w) ==
    \/ RunTest(w) \/ ExecuteFirst(w) \/ CheckPasses(w) \/ CheckFails(w)
    \/ StrategyFails(w)

Releasing(w) ==
    Setup(w) \/ Sleep(w) \/ Scale(w) \/ WaitHealthy(w) \/ DestroyConfig(w)

Deploying(w) ==
    \/ LookupPrimary(w) \/ ClonePrimary(w) \/ AwaitClone(w) \/ FindCandidate(w)
    \/ DeletePrimary(w) \/ RemoveCandidate(w) \/ FindPrimary(w)
    \/ DeleteCandidate(w) \/ RestoreCandidate(w) \/ RestoreRedeploys(w)
    \/ AwaitRestored(w) \/ RemovePrimary(w)

WorkerStep(w) == Releasing(w) \/ Deploying(w) \/ Monitoring(w) \/ RaiseEvent(w)

UserStep ==
    \/ \E ver \in Versions : Deploy(ver) \/ DeployUnmanaged(ver)
    \/ PostRelease \/ UpdateRelease \/ DeleteRelease \/ DeleteDeployment

PlatformStep == Sync \/ \E d \in Subsets : PodsReady(d) \/ PodsCrash(d)

Next == (\E w \in Workers : WorkerStep(w)) \/ UserStep \/ PlatformStep

Spec == Init /\ [][Next]_vars

\* Every call of a goroutine returns, for each has a deadline, and the proxies
\* are brought up to date; users and pods owe nothing.
FairSpec == Spec /\ (\A w \in Workers : WF_vars(WorkerStep(w))) /\ WF_vars(Sync)
-----------------------------------------------------------------------------
(* Properties.                                                             *)

\* A release that is being worked on has a goroutine doing the work: every
\* event a goroutine can end with is one its own state accepts, so it never
\* dies and leaves the release in an active state, where admission would
\* reject every deployment for ever.
Attended ==
    \A m \in Machines : fsm[m] \in Active =>
        \E w \in Workers : Live(w) /\ worker[w].sm = m /\ worker[w].kind = fsm[m]

\* At most one goroutine works on a release, the one its state calls for, as
\* long as a release is only destroyed at rest.
SingleFlight ==
    /\ \A w \in Workers : Live(w) =>
          worker[w].sm = current /\ worker[w].kind = fsm[current]
    /\ \A v, w \in Workers : Live(v) /\ Live(w) => v = w

\* A goroutine takes the instances of a running deployment away.
Withdrawn(d) ==
    Running(d) /\ dep'[d].phase \in {"absent", "zero"} /\ worker' # worker

\* The sleeps of doDeploy, doPromote, doRollback and doDestroy do their job: a
\* running deployment is scaled away or deleted only once the proxies send it
\* nothing.  RestoreOriginal, which has no such sleep, is left out here.
DrainedRemoval ==
    [][\A d \in Subsets : Withdrawn(d) =>
           \/ Share(mesh, d) = 0
           \/ \E w \in Workers : At(w, "deleteCandidate")]_vars

\* Whatever fails, the proxies never send traffic to a primary that does not
\* exist or has no instances.
PrimaryServes == Share(mesh, "primary") > 0 => Running("primary")

\* Why it is so, step by step: what the calls before each step of a handler
\* have established when the goroutine gets there.  It strengthens
\* PrimaryServes into an invariant that every step keeps.
StepsAreSafe ==
    /\ mesh # 100 \/ split # 100 => Running("primary")
    /\ dep["primary"].phase # "zero"
    /\ dep["candidate"].phase = "zero" => Running("primary")
    /\ \A w \in Workers : Live(w) =>
          LET kind == worker[w].kind
              pc == worker[w].pc
          IN  /\ pc = "clone" => dep["primary"].phase = "absent"
              /\ \/ pc \in {"scaleDown", "drain", "removeCandidate"}
                 \/ kind \in {"monitor", "scale", "rollback"}
                 \/ kind = "deploy" /\ pc = "raise" /\ worker[w].event = "deployed"
                 => Running("primary")
              /\ pc = "drain" => split = 0
              /\ pc = "removeCandidate" => split = 0 /\ mesh = 0
              /\ kind \in {"promote", "destroy"} /\ pc = "settle" => split = 100
              /\ pc \in {"find", "deletePrimary", "removePrimary"} =>
                    split = 100 /\ mesh = 100
              /\ \/ pc = "deletePrimary"
                 \/ kind = "destroy" /\ pc \in {"scaleUp", "settle", "removePrimary"}
                 => dep["candidate"].phase # "zero"

\* The step in which w makes the candidate's copy the primary.
Clones(w) ==
    At(w, "clone") /\ worker'[w] # worker[w] /\ dep'["primary"] # dep["primary"]

\* The version PromoteCandidate clones is the one the strategy completed for,
\* though the candidate is read again, several calls later, from the platform.
PromotesTested ==
    [][\A w \in Workers :
           Clones(w) /\ worker[w].kind = "promote" => dep'["primary"].ver = tested]_vars

\* What an operation that ends well leaves behind, several steps after the
\* calls that made it so: all traffic on a running primary and no candidate,
\* or, after destroy, all of it on a running candidate and no primary.
QuietIdle ==
    [][/\ fsm[current] \in {"deploy", "promote", "rollback"} /\ fsm'[current] = "idle"
          => mesh = 0 /\ split = 0 /\ Running("primary") /\ ~Running("candidate")
       /\ fsm[current] = "destroy" /\ fsm'[current] = "idle"
          => mesh = 100 /\ ~Running("primary") /\ Running("candidate")]_vars

\* Every operation ends, at idle or at fail.
Terminates == fsm[current] \in Active ~> fsm[current] \in Rest

\* statemachine.go: "if we created a primary this is the first deploy, no need
\* to execute the strategy".
CreatedIsFirst ==
    [][\A w \in Workers :
           Clones(w) /\ worker[w].kind = "deploy" => ~installed]_vars
=============================================================================
