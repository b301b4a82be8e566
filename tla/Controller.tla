----------------------------- MODULE Controller -----------------------------
(***************************************************************************)
(* The control plane around the state machine of one release: the clients  *)
(* that admit, post, reconcile, delete and list it, each a handler running *)
(* concurrently with the others; the provider's map of state machines; the *)
(* release stored in Consul's KV; the goroutine that waits for a deletion; *)
(* crash and restart.  What an operation does to the platform is the       *)
(* matter of module Rollout: here a goroutine only ends with an event.     *)
(***************************************************************************)
EXTENDS FiniteSets, Naturals, StateMachine

CONSTANTS
    Clients,        \* handlers that run at a time (a bound)
    Machines,       \* StateMachine objects alive at a time (a bound)
    Configs,        \* the configurations of the release that users submit
    None,
    Requests,       \* the kinds of request the clients make
    DeleteFrom,     \* the stored states in which a user deletes the release
    Patient,        \* whether clients wait for a deletion to be over
    Timeouts,       \* whether 300s may pass before a deletion is over
    StoreFails,     \* whether reads and writes of the KV may fail
    MaxCrashes      \* crashes of the controller (a bound)

RequestKinds == {"admit", "post", "reconcile", "delete", "list"}

\* CurrentState() of a stored release: the last of its history, "new" for none.
StoredStates == States \cup {"new"}

ASSUME ClientAssumption ==
    /\ Requests \subseteq RequestKinds
    /\ DeleteFrom \subseteq StoredStates
    /\ Patient \in BOOLEAN /\ Timeouts \in BOOLEAN /\ StoreFails \in BOOLEAN
    /\ MaxCrashes \in Nat

VARIABLES
    store,      \* the release in the KV
    cache,      \* the provider's entry for the release
    machine,    \* the StateMachine objects
    running,    \* the goroutines each of them has started
    client,     \* the handlers
    watcher,    \* the goroutines that wait for a deletion
    crashes

vars == <<store, cache, machine, running, client, watcher, crashes>>

Releases == [state : StoredStates, config : Configs]

\* saving: the machine is in enterState, between its new state being visible
\* and the release being stored, and holds the lock of FSM.Event.
MachineRecords == [fsm : States, config : Configs, saving : BOOLEAN]

ClientRecords ==
    [ kind : RequestKinds,
      pc : {"upsert", "find", "insertFound", "check", "drop", "create", "insert",
            "raise", "saved", "followed"},
      rel : Releases,               \* the release as the handler read or made it
      sm : Machines \cup {None} ]

WatcherRecords == [sm : Machines, pc : {"poll", "drop", "erase"}]

\* What is being done to the release, whichever machine does it.
WorkRecords == [state : States, config : Configs, recorded : BOOLEAN]

\* What is not there is told apart from all that may be.
ASSUME NoneAssumption ==
    /\ None \notin Machines /\ None \notin Releases
    /\ None \notin ClientRecords /\ None \notin WatcherRecords
    /\ None \notin WorkRecords

TypeOK ==
    /\ store \in Releases \cup {None}
    /\ cache \in Machines \cup {None}
    /\ machine \in [Machines -> MachineRecords]
    /\ running \in [Machines -> SUBSET Active]
    /\ client \in [Clients -> ClientRecords \cup {None}]
    /\ watcher \in [Clients -> WatcherRecords \cup {None}]
    /\ crashes \in 0..MaxCrashes

Init ==
    /\ store = None
    /\ cache = None
    /\ \E config \in Configs :
          machine = [m \in Machines |->
                        [fsm |-> "start", config |-> config, saving |-> FALSE]]
    /\ running = [m \in Machines |-> {}]
    /\ client = [c \in Clients |-> None]
    /\ watcher = [c \in Clients |-> None]
    /\ crashes = 0
-----------------------------------------------------------------------------
At(c, step) == client[c] # None /\ client[c].pc = step

Goto(c, step) == client' = [client EXCEPT ![c].pc = step]

Return(c) == client' = [client EXCEPT ![c] = None]

\* The events that end the goroutine of each state.
Results ==
    [ configure |-> {"configured", "fail"},
      deploy    |-> {"deployed", "complete", "fail"},
      monitor   |-> {"healthy", "complete", "unhealthy", "fail"},
      scale     |-> {"scaled", "fail"},
      promote   |-> {"promoted", "fail"},
      rollback  |-> {"complete", "fail"},
      destroy   |-> {"complete", "fail"} ]

\* The event a handler raises.
Request ==
    [ admit |-> "deploy", post |-> "configure", reconcile |-> "configure",
      delete |-> "destroy" ]

\* Mutant: the event is not looked up in the table.
AcceptsAny(m, event) == ~machine[m].saving

\* FSM.Event waits for the callbacks of the event before it.
CanRaise(m, event) == ~machine[m].saving /\ Accepts(machine[m].fsm, event)

Refuses(m, event) == ~machine[m].saving /\ ~Accepts(machine[m].fsm, event)

\* The machine as the callbacks of the event's target see it.
Entered(m, event) ==
    machine' = [machine EXCEPT ![m].fsm = Target(@, event), ![m].saving = TRUE]

\* The goroutine of the target; the bound is one of each kind for a machine.
Begun(m, event, left) ==
    LET target == Target(machine[m].fsm, event)
    IN  /\ target \notin left
        /\ running' = [running EXCEPT ![m] = left \cup ({target} \cap Active)]

\* An object that nothing refers to any more can stand for a new one.
Unused(m) ==
    /\ m # cache /\ running[m] = {} /\ ~machine[m].saving
    /\ \A c \in Clients : /\ client[c] # None => client[c].sm # m
                          /\ watcher[c] # None => watcher[c].sm # m

\* Mutant: a release without history is not given the start state.
NewMachineRaw(m, rel) ==
    machine' = [machine EXCEPT ![m] =
        [fsm |-> rel.state, config |-> rel.config, saving |-> FALSE]]

\* statemachine.New: the machine starts in the state of the release it is given.
NewMachine(m, rel) ==
    machine' = [machine EXCEPT ![m] =
        [fsm |-> IF rel.state = "new" THEN "start" ELSE rel.state,
         config |-> rel.config, saving |-> FALSE]]
-----------------------------------------------------------------------------
(* Handlers.  A handler reads the release, or decodes it from its request, *)
(* finds or replaces the machine, and raises an event on it.               *)

\* No deletion is being waited for, and no machine taken out of the map has its
\* last state still to store.
DeletionOver ==
    /\ \A d \in Clients : watcher[d] = None
    /\ \A m \in Machines : machine[m].saving => m = cache

Handle(c, kind, step, rel) ==
    /\ client[c] = None /\ watcher[c] = None
    /\ kind \in Requests
    /\ Patient => DeletionOver
    /\ client' = [client EXCEPT ![c] =
                     [kind |-> kind, pc |-> step, rel |-> rel, sm |-> None]]
    /\ UNCHANGED <<store, cache, machine, running, watcher, crashes>>

\* Without a stored release a deployment is let through, and nothing happens.
Admit(c) == store # None /\ Handle(c, "admit", "find", store)

Post(c, config) ==
    Handle(c, "post", "upsert", [state |-> "new", config |-> config])

\* Mutant: an update is not held back while the release is active.
ReconcileActive(c, config) ==
    /\ store # None => store.config # config
    /\ Handle(c, "reconcile", "upsert", [state |-> "new", config |-> config])

\* An update is ignored when its generation is the stored one and refused while
\* the release is active; a release that cannot be read counts as a new one.
Reconcile(c, config) ==
    /\ \/ store = None \/ StoreFails
       \/ store # None /\ store.config # config /\ store.state \in {"idle", "fail"}
    /\ Handle(c, "reconcile", "upsert", [state |-> "new", config |-> config])

Delete(c) ==
    /\ store # None /\ store.state \in DeleteFrom
    /\ Handle(c, "delete", "create", store)

List(c) == store # None /\ Handle(c, "list", "create", store)

Upsert(c) ==
    /\ At(c, "upsert")
    /\ \/ /\ store' = client[c].rel
          /\ Goto(c, IF client[c].kind = "reconcile" THEN "drop" ELSE "create")
       \/ StoreFails /\ store' = store /\ Return(c)
    /\ UNCHANGED <<cache, machine, running, watcher, crashes>>

\* Mutant: the old machine stays in the map.
DropNothing(c) ==
    /\ At(c, "drop")
    /\ Goto(c, "create")
    /\ UNCHANGED <<store, cache, machine, running, watcher, crashes>>

\* provider.DeleteStateMachine.
Drop(c) ==
    /\ At(c, "drop")
    /\ cache' = None
    /\ client' = [client EXCEPT ![c].pc = "create", ![c].sm = None]
    /\ UNCHANGED <<store, machine, running, watcher, crashes>>

\* provider.GetStateMachine: the machine of the map, or else a new one, which
\* is put in the map once it has been built.
GetStateMachine(c) ==
    /\ At(c, "find") \/ At(c, "create")
    /\ \/ /\ cache # None
          /\ client' = [client EXCEPT ![c].sm = cache,
                 ![c].pc = IF @ = "find" THEN "check" ELSE "raise"]
          /\ machine' = machine
       \/ /\ cache = None
          /\ \E m \in Machines :
                /\ Unused(m)
                /\ NewMachine(m, client[c].rel)
                /\ client' = [client EXCEPT ![c].sm = m,
                       ![c].pc = IF @ = "find" THEN "insertFound" ELSE "insert"]
    /\ UNCHANGED <<store, cache, running, watcher, crashes>>

Insert(c) ==
    /\ At(c, "insertFound") \/ At(c, "insert")
    /\ cache' = client[c].sm
    /\ Goto(c, IF At(c, "insertFound") THEN "check" ELSE "raise")
    /\ UNCHANGED <<store, machine, running, watcher, crashes>>

\* The decision of the admission check, which also writes the deployment's name
\* into the runtime plugin's stored state before it goes on: a release at rest is deployed by a new
\* machine, one being destroyed lets the deployment through, any other rejects.
Check(c) ==
    /\ At(c, "check")
    /\ IF machine[client[c].sm].fsm \in {"idle", "fail"} THEN Goto(c, "drop") ELSE Return(c)
    /\ UNCHANGED <<store, cache, machine, running, watcher, crashes>>

\* sm.Deploy, sm.Configure or sm.Destroy; one the machine refuses is an error.
Raise(c) ==
    LET m == client[c].sm
        event == Request[client[c].kind]
    IN  /\ At(c, "raise")
        /\ client[c].kind # "list"
        /\ \/ CanRaise(m, event) /\ Entered(m, event) /\ Begun(m, event, running[m])
              /\ Goto(c, "saved")
           \/ Refuses(m, event) /\ Return(c) /\ UNCHANGED <<machine, running>>
        /\ UNCHANGED <<store, cache, watcher, crashes>>

\* The event has returned.  A deletion leaves a goroutine behind; a reconciled
\* release that is idle again by now is deployed.
Reply(c) ==
    LET m == client[c].sm
    IN  /\ At(c, "saved") /\ ~machine[m].saving
        /\ IF client[c].kind = "reconcile" /\ machine[m].fsm = "idle"
           THEN /\ Entered(m, "deploy") /\ Begun(m, "deploy", running[m])
                /\ Goto(c, "followed")
           ELSE Return(c) /\ UNCHANGED <<machine, running>>
        /\ watcher' = IF client[c].kind = "delete"
                      THEN [watcher EXCEPT ![c] = [sm |-> m, pc |-> "poll"]] ELSE watcher
        /\ UNCHANGED <<store, cache, crashes>>

Listed(c) ==
    /\ \/ At(c, "raise") /\ client[c].kind = "list"
       \/ At(c, "followed") /\ ~machine[client[c].sm].saving
    /\ Return(c)
    /\ UNCHANGED <<store, cache, machine, running, watcher, crashes>>
-----------------------------------------------------------------------------
(* The machines' goroutines, and the ones that wait for a deletion.        *)

\* Mutant: a goroutine may return without raising an event.
OperateSilently(m) ==
    /\ \E kind \in running[m] : \E event \in Results[kind] :
          \/ CanRaise(m, event) /\ Entered(m, event)
             /\ Begun(m, event, running[m] \ {kind})
          \/ machine' = machine /\ running' = [running EXCEPT ![m] = @ \ {kind}]
    /\ UNCHANGED <<store, cache, client, watcher, crashes>>

\* A goroutine ends with an event; one that is refused changes nothing.
Operate(m) ==
    /\ \E kind \in running[m] : \E event \in Results[kind] :
          \/ CanRaise(m, event) /\ Entered(m, event)
             /\ Begun(m, event, running[m] \ {kind})
          \/ Refuses(m, event) /\ machine' = machine
             /\ running' = [running EXCEPT ![m] = @ \ {kind}]
    /\ UNCHANGED <<store, cache, client, watcher, crashes>>

\* Mutant: the new state is not stored.
SaveNothing(m) ==
    /\ machine[m].saving
    /\ store' = store
    /\ machine' = [machine EXCEPT ![m].saving = FALSE]
    /\ UNCHANGED <<cache, running, client, watcher, crashes>>

\* enterState stores the machine's release; an error is logged, no more.
Save(m) ==
    /\ machine[m].saving
    /\ \/ store' = [state |-> machine[m].fsm, config |-> machine[m].config]
       \/ StoreFails /\ store' = store
    /\ machine' = [machine EXCEPT ![m].saving = FALSE]
    /\ UNCHANGED <<cache, running, client, watcher, crashes>>

\* Mutant: a failed deletion is waited for.
WatchPollIdle(c) ==
    /\ watcher[c] # None /\ watcher[c].pc = "poll"
    /\ \/ /\ machine[watcher[c].sm].fsm = "idle"
          /\ watcher' = [watcher EXCEPT ![c].pc = "drop"]
       \/ Timeouts /\ watcher' = [watcher EXCEPT ![c] = None]
    /\ UNCHANGED <<store, cache, machine, running, client, crashes>>

\* Mutant: a deletion that failed removes the release as well.
WatchPollRest(c) ==
    /\ watcher[c] # None /\ watcher[c].pc = "poll"
    /\ \/ /\ machine[watcher[c].sm].fsm \in {"idle", "fail"}
          /\ watcher' = [watcher EXCEPT ![c].pc = "drop"]
       \/ Timeouts /\ watcher' = [watcher EXCEPT ![c] = None]
    /\ UNCHANGED <<store, cache, machine, running, client, crashes>>

WatchPoll(c) ==
    /\ watcher[c] # None /\ watcher[c].pc = "poll"
    /\ LET state == machine[watcher[c].sm].fsm
       IN  \/ state = "idle" /\ watcher' = [watcher EXCEPT ![c].pc = "drop"]
           \/ state = "fail" /\ watcher' = [watcher EXCEPT ![c] = None]
           \/ Timeouts /\ watcher' = [watcher EXCEPT ![c] = None]
    /\ UNCHANGED <<store, cache, machine, running, client, crashes>>

\* The two calls that remove the release: from the map, then from the KV.
WatchDrop(c) ==
    /\ watcher[c] # None /\ watcher[c].pc = "drop"
    /\ cache' = None
    /\ watcher' = [watcher EXCEPT ![c].pc = "erase"]
    /\ UNCHANGED <<store, machine, running, client, crashes>>

WatchErase(c) ==
    /\ watcher[c] # None /\ watcher[c].pc = "erase"
    /\ store' = None \/ (StoreFails /\ store' = store)
    /\ watcher' = [watcher EXCEPT ![c] = None]
    /\ UNCHANGED <<cache, machine, running, client, crashes>>

\* Nothing but the KV survives.  On start rehydrateReleases asks the store for
\* the releases of the runtime named "", which are none: it resumes nothing.
Crash ==
    /\ crashes < MaxCrashes
    /\ crashes' = crashes + 1
    /\ cache' = None
    /\ machine' = [m \in Machines |-> [machine[m] EXCEPT !.saving = FALSE]]
    /\ running' = [m \in Machines |-> {}]
    /\ client' = [c \in Clients |-> None]
    /\ watcher' = [c \in Clients |-> None]
    /\ UNCHANGED store
-----------------------------------------------------------------------------
NewRequest(c) ==
    \/ Admit(c) \/ Delete(c) \/ List(c)
    \/ \E config \in Configs : Post(c, config) \/ Reconcile(c, config)

HandlerStep(c) ==
    \/ Upsert(c) \/ Drop(c) \/ GetStateMachine(c) \/ Insert(c) \/ Check(c)
    \/ Raise(c) \/ Reply(c) \/ Listed(c)

WatcherStep(c) == WatchPoll(c) \/ WatchDrop(c) \/ WatchErase(c)

MachineStep(m) == Operate(m) \/ Save(m)

Next ==
    \/ \E c \in Clients : NewRequest(c) \/ HandlerStep(c) \/ WatcherStep(c)
    \/ \E m \in Machines : MachineStep(m)
    \/ Crash

Spec == Init /\ [][Next]_vars

\* Goroutines that can run do; clients need not come, and crashes need not be.
FairSpec ==
    /\ Spec
    /\ \A c \in Clients : WF_vars(HandlerStep(c)) /\ WF_vars(WatcherStep(c))
    /\ \A m \in Machines : WF_vars(Operate(m)) /\ WF_vars(Save(m))
-----------------------------------------------------------------------------
(* Properties.                                                             *)

\* However requests race, the table and the lock of a machine's FSM keep its
\* goroutines apart: it runs none but the one its state calls for, until a
\* deletion, which any state but destroy accepts, starts one beside it.
OnePerMachine == \A m \in Machines : running[m] \subseteq {machine[m].fsm}

\* One operation at a time on the release, over all the machine objects that
\* admission and reconciliation replace one another by, when requests come one
\* after another: nobody replaces a machine that still works.
OneOperation ==
    \A m, n \in Machines : running[m] # {} /\ running[n] # {} => m = n

\* What a crash would find in the KV while an operation runs: the release that
\* is being worked on, in the state of that operation.
StoreFollows ==
    \A m \in Machines : running[m] # {} /\ ~machine[m].saving =>
        store = [state |-> machine[m].fsm, config |-> machine[m].config]

\* A configuration that has been stored is not undone by a machine that was
\* built from an older one: only a new request replaces it.
KeepsUpdate ==
    [][store # None /\ store' # None /\ store'.config # store.config
       => \E c \in Clients : At(c, "upsert")]_vars

\* A machine works from the acceptance of an event to the storing of a state in
\* which nothing runs.
Works(m) == running[m] # {} \/ machine[m].saving

\* What the machines do, as one piece of work on the release.
Work ==
    IF \E m \in Machines : Works(m)
    THEN LET m == CHOOSE n \in Machines : Works(n)
         IN  [ state |-> machine[m].fsm, config |-> machine[m].config,
               recorded |-> ~machine[m].saving ]
    ELSE None

Lifecycle == INSTANCE ReleaseLifecycle WITH
    stored <- store, work <- Work, restarts <- crashes

\* When requests come one after another, nobody can tell the handlers, the map
\* and the machines from one release on which one thing is done at a time: what
\* a handler read before still holds when it writes or raises its event.
Sequential == Lifecycle!Spec

\* The goroutine that waits for a deletion comes to an end, whatever the
\* release was doing when it was deleted.
DeletionEnds ==
    \A c \in Clients : watcher[c] # None ~> watcher[c] = None

\* server/release.go: releases "that are currently in process" are reloaded, for
\* "the controller may have crashed part way through an operation".  No
\* operation stays in the KV as one in process for ever.
InProcessMoves ==
    \A state \in Active :
        store # None /\ store.state = state
        ~> store = None \/ store.state # state
=============================================================================
