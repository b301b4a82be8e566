------------------------------ MODULE Operator ------------------------------
(***************************************************************************)
(* The Kubernetes operator: Release objects with a generation, a finalizer *)
(* and a deletion mark, the work queue that reconciles them, the goroutine *)
(* that waits for a deletion, and the release they become in the store.    *)
(* The state machine is the one of Controller at a coarser grain: an event *)
(* and the store of the state it leads to are one step here.               *)
(***************************************************************************)
EXTENDS Naturals, StateMachine

CONSTANTS
    Machines,           \* StateMachine objects alive at a time (a bound)
    None,
    MaxObjects,         \* objects made under the name one after another (a bound)
    MaxGenerations,     \* changes of the specification of one object (a bound)
    MaxDisturbances,    \* deployments admitted, requests that fail, deadlines that
                        \* pass, and crashes, taken together (a bound)
    Patient             \* whether users make an object again only when the
                        \* deletion of the one before is over

ASSUME OperatorAssumption ==
    /\ MaxObjects \in Nat \ {0} /\ MaxGenerations \in Nat \ {0}
    /\ MaxDisturbances \in Nat
    /\ Patient \in BOOLEAN

VARIABLES
    object,         \* the Release object in Kubernetes
    made,           \* the number of objects made so far
    queued,         \* whether the object's name is in the work queue
    worker,         \* the Reconcile in progress
    store,          \* the release in the store
    cache,          \* the provider's machine of the release
    machine,        \* state and configuration of each machine
    running,        \* the goroutines each machine has started
    watcher,        \* machines a goroutine waits for the destruction of
    disturbances,
    spoilt          \* history: what has gone wrong

kubernetes == <<object, made>>
release == <<store, cache, machine, running>>
noise == <<disturbances, spoilt>>
vars == <<kubernetes, queued, worker, release, watcher, noise>>

\* What the user asked for; Release.Version is the generation alone.
Configs == [object : 1..MaxObjects, generation : 1..MaxGenerations]

Objects == [config : Configs, finalizer : BOOLEAN, deleting : BOOLEAN]

Stored == [config : Configs, state : States \cup {"new"}]

Steps == {"addFinalizer", "delete", "removeFinalizer", "update", "upsert", "configure", "deploy"}

Spoilers ==
    { "crash",
      "update",     \* one was stored or started while a goroutine was at work
      "deletion" }  \* one was not begun, given up, undone by a deployment, or over
                    \* while a goroutine still worked

Reconciles == [pc : Steps, obj : Objects, sm : Machines \cup {None}]

\* What is not there is told apart from all that may be.
ASSUME NoneAssumption ==
    None \notin Machines /\ None \notin Objects /\ None \notin Stored /\ None \notin Reconciles

TypeOK ==
    /\ object \in Objects \cup {None}
    /\ made \in 0..MaxObjects
    /\ queued \in BOOLEAN
    /\ worker \in Reconciles \cup {None}
    /\ store \in Stored \cup {None}
    /\ cache \in Machines \cup {None}
    /\ machine \in [Machines -> [config : Configs, state : States]]
    /\ running \in [Machines -> SUBSET Active]
    /\ watcher \in SUBSET Machines
    /\ disturbances \in 0..MaxDisturbances
    /\ spoilt \in SUBSET Spoilers

Init ==
    /\ object = None /\ made = 0
    /\ queued = FALSE /\ worker = None
    /\ store = None /\ cache = None
    /\ machine = [m \in Machines |->
                     [config |-> [object |-> 1, generation |-> 1], state |-> "start"]]
    /\ running = [m \in Machines |-> {}]
    /\ watcher = {}
    /\ disturbances = 0 /\ spoilt = {}

\* A request that fails, a deadline that passes, or another thing that need not be.
Fault == disturbances < MaxDisturbances /\ disturbances' = disturbances + 1

NoFault == disturbances' = disturbances

Spoils(what, happened) == spoilt' = IF happened THEN spoilt \cup {what} ELSE spoilt
-----------------------------------------------------------------------------
(* Users, through the API server.  Every change of the object is an event  *)
(* that puts its name in the queue.                                        *)

AtWork == \E m \in Machines : running[m] # {}

\* Nothing of the object before is left, nor is anything still working.
DeletionOver == store = None /\ watcher = {} /\ ~AtWork

Create ==
    /\ object = None /\ made < MaxObjects
    /\ Patient => DeletionOver
    /\ made' = made + 1
    /\ object' = [ config |-> [object |-> made + 1, generation |-> 1],
                   finalizer |-> FALSE, deleting |-> FALSE ]
    /\ queued' = TRUE
    /\ UNCHANGED <<worker, release, watcher, noise>>

Change ==
    /\ object # None /\ ~object.deleting
    /\ object.config.generation < MaxGenerations
    /\ object' = [object EXCEPT !.config.generation = object.config.generation + 1]
    /\ queued' = TRUE
    /\ UNCHANGED <<made, worker, release, watcher, noise>>

\* Kubernetes keeps an object that has a finalizer, marked as deleted.
Delete ==
    /\ object # None /\ ~object.deleting
    /\ object' = IF object.finalizer THEN [object EXCEPT !.deleting = TRUE] ELSE None
    /\ queued' = TRUE
    /\ UNCHANGED <<made, worker, release, watcher, noise>>
-----------------------------------------------------------------------------
(* The machines of the release.                                            *)

\* An object that nothing refers to any more can stand for a new one.
Unused(m) ==
    /\ m # cache /\ m \notin watcher /\ running[m] = {}
    /\ worker # None => worker.sm # m

\* A bound: there is an object for the machine about to be made.
Room == \E m \in Machines : Unused(m)

Fresh == CHOOSE m \in Machines : Unused(m)

\* A machine with this configuration and state takes the event and saves.
Enter(m, config, state, event, left) ==
    LET target == Target(state, event)
    IN  /\ machine' = [machine EXCEPT ![m] = [config |-> config, state |-> target]]
        /\ running' = [running EXCEPT ![m] = left \cup ({target} \cap Active)]
        /\ store' = [config |-> config, state |-> target]

\* Mutant: the state is taken as it is stored.
LoadedRaw(rel) == rel.state

\* A machine is built in the state of the release it is given.
Loaded(rel) == IF rel.state = "new" THEN "start" ELSE rel.state

\* GetStateMachine: the machine of the map, or a new one.
Current == IF cache # None THEN cache ELSE Fresh

CurrentState == IF cache # None THEN machine[cache].state ELSE Loaded(store)

CurrentConfig == IF cache # None THEN machine[cache].config ELSE store.config

\* The events that end the goroutine of each state.
Results ==
    [ configure |-> {"configured", "fail"},
      deploy    |-> {"deployed", "complete", "fail"},
      monitor   |-> {"healthy", "complete", "unhealthy", "fail"},
      scale     |-> {"scaled", "fail"},
      promote   |-> {"promoted", "fail"},
      rollback  |-> {"complete", "fail"},
      destroy   |-> {"complete", "fail"} ]

\* A goroutine ends, with an event the machine takes or refuses.
Operate(m, kind, event) ==
    /\ kind \in running[m] /\ event \in Results[kind]
    /\ LET left == running[m] \ {kind}
       IN  IF Accepts(machine[m].state, event)
           THEN Enter(m, machine[m].config, machine[m].state, event, left)
           ELSE /\ running' = [running EXCEPT ![m] = left]
                /\ UNCHANGED <<store, machine>>
    /\ UNCHANGED <<kubernetes, queued, worker, cache, watcher, noise>>

\* Admission replaces the machine of a release at rest and starts the new one,
\* if that is in the state the old one was seen in.
Admit ==
    /\ Fault /\ Room
    /\ store # None /\ CurrentState \in {"idle", "fail"}
    /\ cache' = Fresh
    /\ IF Accepts(Loaded(store), "deploy")
       THEN Enter(Fresh, store.config, Loaded(store), "deploy", {})
       ELSE /\ machine' = [machine EXCEPT ![Fresh] =
                              [config |-> store.config, state |-> Loaded(store)]]
            /\ UNCHANGED <<store, running>>
    /\ Spoils("deletion", watcher # {} \/ object = None)
    /\ UNCHANGED <<kubernetes, queued, worker, watcher>>
-----------------------------------------------------------------------------
(* Reconcile: one at a time for an object.  An error puts the name back    *)
(* into the queue.                                                         *)

At(step) == worker # None /\ worker.pc = step

Goto(step) == worker' = [worker EXCEPT !.pc = step] /\ queued' = queued

Done == worker' = None /\ queued' = queued

\* Mutant: what has failed is not tried again.
Dropped == worker' = None /\ queued' = queued

Requeue == worker' = None /\ queued' = TRUE

Reconcile ==
    /\ queued /\ worker = None
    /\ queued' = FALSE
    /\ worker' =
          IF object = None THEN None
          ELSE [ obj |-> object, sm |-> None,
                 pc |-> IF object.deleting THEN "delete"
                        ELSE IF object.finalizer THEN "update" ELSE "addFinalizer" ]
    /\ UNCHANGED <<kubernetes, release, watcher, noise>>

\* The API server refuses an update made from an older version of the object.
Update(next) ==
    \/ /\ object = worker.obj /\ NoFault
       /\ object' = next
       /\ worker' = None /\ queued' = TRUE
    \/ object # worker.obj /\ NoFault /\ object' = object /\ Requeue
    \/ Fault /\ object' = object /\ Requeue

AddFinalizer ==
    /\ At("addFinalizer")
    /\ Update([worker.obj EXCEPT !.finalizer = TRUE])
    /\ UNCHANGED <<made, release, watcher, spoilt>>

\* Mutant: a release at work is left alone.
DestroyAtRest(m, config, state) ==
    \/ /\ state \in {"idle", "fail"}
       /\ Enter(m, config, state, "destroy", running[m])
       /\ watcher' = watcher \cup {m}
    \/ /\ state \notin {"idle", "fail"}
       /\ machine' = [machine EXCEPT ![m] = [config |-> config, state |-> state]]
       /\ UNCHANGED <<store, running, watcher>>

\* sm.Destroy, which a machine that has not started, or is destroying, refuses.
Destroy(m, config, state) ==
    \/ /\ Accepts(state, "destroy")
       /\ Enter(m, config, state, "destroy", running[m])
       /\ watcher' = watcher \cup {m}
    \/ /\ ~Accepts(state, "destroy")
       /\ machine' = [machine EXCEPT ![m] = [config |-> config, state |-> state]]
       /\ UNCHANGED <<store, running, watcher>>

\* deleteRelease, whose error nobody looks at.
DeleteRelease ==
    /\ At("delete")
    /\ Goto("removeFinalizer")
    /\ \/ /\ store # None /\ NoFault
          /\ cache # None \/ Room
          /\ cache' = Current
          /\ Destroy(Current, CurrentConfig, CurrentState)
          /\ UNCHANGED spoilt
       \/ store = None /\ NoFault /\ UNCHANGED <<release, watcher, spoilt>>
       \/ Fault /\ Spoils("deletion", TRUE) /\ UNCHANGED <<release, watcher>>
    /\ UNCHANGED kubernetes

RemoveFinalizer ==
    /\ At("removeFinalizer")
    /\ Update(None)
    /\ UNCHANGED <<made, release, watcher, spoilt>>

Unchanged == store # None /\ store.config.generation = worker.obj.config.generation

Busy == store # None /\ store.state \notin {"idle", "fail"}

\* updateRelease: a release that cannot be read counts as one that is new.
UpdateRelease ==
    /\ At("update")
    /\ \/ Unchanged /\ NoFault /\ Done
       \/ ~Unchanged /\ Busy /\ NoFault /\ Requeue
       \/ ~Unchanged /\ ~Busy /\ NoFault /\ Goto("upsert")
       \/ Fault /\ Goto("upsert")
    /\ UNCHANGED <<kubernetes, release, watcher, spoilt>>

Upsert ==
    /\ At("upsert")
    /\ \/ /\ NoFault /\ Goto("configure")
          /\ store' = [config |-> worker.obj.config, state |-> "new"]
          /\ Spoils("update", AtWork)
       \/ Fault /\ store' = store /\ Requeue /\ UNCHANGED spoilt
    /\ UNCHANGED <<kubernetes, cache, machine, running, watcher>>

\* The old machine is dropped and a new one, of the release the handler made,
\* configured.
Configure ==
    /\ At("configure") /\ Room
    /\ cache' = Fresh
    /\ Enter(Fresh, worker.obj.config, "start", "configure", {})
    /\ worker' = [worker EXCEPT !.pc = "deploy", !.sm = Fresh]
    /\ Spoils("update", AtWork)
    /\ UNCHANGED <<kubernetes, queued, watcher, disturbances>>

\* By the time Configure has returned the release may be idle already.
Deploy ==
    /\ At("deploy")
    /\ Done
    /\ LET sm == worker.sm
       IN  IF machine[sm].state = "idle"
           THEN Enter(sm, machine[sm].config, "idle", "deploy", running[sm])
           ELSE UNCHANGED <<store, machine, running>>
    /\ UNCHANGED <<kubernetes, cache, watcher, noise>>

\* The goroutine that waits for a deletion: it removes the release when its
\* machine is idle, and gives up when it has failed or 300s have passed.
Watch(m) ==
    /\ m \in watcher
    /\ watcher' = watcher \ {m}
    /\ \/ /\ machine[m].state = "idle"
          /\ cache' = None
          /\ \/ /\ store' = None /\ NoFault
                /\ Spoils("deletion", AtWork)
             \/ store' = store /\ Fault /\ Spoils("deletion", TRUE)
       \/ /\ \/ machine[m].state = "fail" /\ NoFault
             \/ Fault
          /\ Spoils("deletion", TRUE)
          /\ UNCHANGED <<cache, store>>
    /\ UNCHANGED <<kubernetes, queued, worker, machine, running>>

\* After a restart Kubernetes submits the object again.
Crash ==
    /\ Fault
    /\ queued' = (object # None)
    /\ worker' = None /\ cache' = None /\ watcher' = {}
    /\ running' = [m \in Machines |-> {}]
    /\ spoilt' = spoilt \cup {"crash"} \cup IF watcher = {} THEN {} ELSE {"deletion"}
    /\ UNCHANGED <<kubernetes, store, machine>>
-----------------------------------------------------------------------------
WorkerStep ==
    \/ Reconcile \/ AddFinalizer \/ DeleteRelease \/ RemoveFinalizer
    \/ UpdateRelease \/ Upsert \/ Configure \/ Deploy

MachineStep(m) == \E kind \in Active, event \in Events : Operate(m, kind, event)

Next ==
    \/ Create \/ Change \/ Delete \/ Admit
    \/ WorkerStep
    \/ \E m \in Machines : Watch(m) \/ MachineStep(m)
    \/ Crash

Spec == Init /\ [][Next]_vars

\* The queue is worked off and goroutines go on; a rollout does not stay healthy
\* for ever, since its traffic reaches the maximum (Terminates of Rollout).
FairSpec ==
    /\ Spec
    /\ WF_vars(WorkerStep)
    /\ \A m \in Machines :
          /\ WF_vars(Watch(m))
          /\ WF_vars(MachineStep(m))
          /\ SF_vars(\E event \in Events \ {"healthy"} : Operate(m, "monitor", event))
-----------------------------------------------------------------------------
(* Properties.                                                             *)

\* A crash has left the release in a state nobody works in any more.
Interrupted ==
    /\ "crash" \in spoilt
    /\ store # None /\ store.state \notin {"idle", "fail"}
    /\ ~AtWork

\* release_controller.go: Reconcile "aims to move the current state of the
\* cluster closer to the desired state": what a user asks for is stored in the
\* end, whatever the release was doing and whatever fails on the way, unless the
\* user asks for something else, or a crash interrupts an operation.
Converges ==
    \A config \in Configs :
        object # None /\ object.config = config /\ ~object.deleting
        ~> \/ store # None /\ store.config = config
           \/ object = None \/ object.deleting \/ object.config # config
           \/ Interrupted \/ "update" \in spoilt

\* The object goes at once, the release when it has been destroyed: a release
\* without an object is one whose destruction is waited for.  All that can spoil
\* this: the deletion fails or is given up, admission lets a deployment in before
\* the release is removed, a goroutine that outlives the destruction stores the
\* release again, or a crash has left it stored but never configured, a state in
\* which it refuses to be destroyed.
NoOrphan ==
    object = None /\ store # None /\ worker = None
    => \/ watcher # {} \/ "deletion" \in spoilt
       \/ store.state = "new" /\ "crash" \in spoilt

=============================================================================
