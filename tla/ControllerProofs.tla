-------------------------- MODULE ControllerProofs --------------------------
(***************************************************************************)
(* The type invariant of Controller for every kind of request, failure and *)
(* crash, and that a machine never runs two goroutines as long as nobody   *)
(* deletes the release (OnePerMachine): the events that handlers raise are *)
(* accepted only where nothing runs, and the goroutine that raises an      *)
(* event is gone when the next one starts.                                 *)
(***************************************************************************)
EXTENDS Controller, TLAPS

\* The steps at which a handler holds a machine.
Holding == {"insertFound", "check", "insert", "raise", "saved", "followed"}

Handlers ==
    \A c \in Clients : client[c] # None =>
        /\ client[c].kind \in Requests
        /\ client[c].pc \in Holding => client[c].sm \in Machines

\* The inductive invariant.
CInv == TypeOK /\ Handlers
-----------------------------------------------------------------------------
\* Rows of the transition table.

\* An accepted event leads to a state.
LEMMA TargetIsState ==
    ASSUME NEW s \in States, NEW e \in Events, Accepts(s, e)
    PROVE  Target(s, e) \in States
BY DEF Target, Accepts, Sources, Destination, Events, States, Active, Rest

\* What a goroutine ends with is an event.
LEMMA ResultIsEvent ==
    ASSUME NEW k \in Active
    PROVE  Results[k] \subseteq Events
BY DEF Results, Active, Events

\* What a handler raises is an event.
LEMMA RequestIsEvent ==
    ASSUME NEW k \in RequestKinds, k # "list"
    PROVE  Request[k] \in Events
BY DEF Request, RequestKinds, Events

\* Deployments and configurations are accepted only where nothing runs.
LEMMA RequestAtRest ==
    ASSUME NEW s \in States, NEW e \in {"deploy", "configure"}, Accepts(s, e)
    PROVE  s \notin Active
BY DEF Accepts, Sources, Active
-----------------------------------------------------------------------------
\* The machine that takes an event is in the event's target; no other changes.
LEMMA EnteredTyped ==
    ASSUME TypeOK, NEW m \in Machines, NEW e \in Events,
           Accepts(machine[m].fsm, e), Entered(m, e)
    PROVE  /\ machine' \in [Machines -> MachineRecords]
           /\ machine'[m].fsm = Target(machine[m].fsm, e)
           /\ \A n \in Machines \ {m} : machine'[n] = machine[n]
<1>1. machine[m] \in MachineRecords /\ machine \in [Machines -> MachineRecords]
  BY DEF TypeOK
<1>2. Target(machine[m].fsm, e) \in States
  BY <1>1, TargetIsState DEF MachineRecords
<1> DEFINE t == Target(machine[m].fsm, e)
           r == [machine[m] EXCEPT !.fsm = t, !.saving = TRUE]
<1>3. machine' = [machine EXCEPT ![m] = r]
  BY <1>1 DEF Entered
<1> HIDE DEF t
<1>4. r \in MachineRecords /\ r.fsm = t
  BY <1>1, <1>2 DEF MachineRecords, t
<1> HIDE DEF r
<1>5. machine' \in [Machines -> MachineRecords] /\ machine'[m].fsm = t
      /\ \A n \in Machines \ {m} : machine'[n] = machine[n]
  BY <1>1, <1>3, <1>4
<1> QED
  BY <1>5 DEF t

\* The event's goroutine joins those that are left.
LEMMA BegunTyped ==
    ASSUME TypeOK, NEW m \in Machines, NEW e, NEW left \in SUBSET Active, Begun(m, e, left)
    PROVE  /\ running' \in [Machines -> SUBSET Active]
           /\ running'[m] = left \cup ({Target(machine[m].fsm, e)} \cap Active)
           /\ \A n \in Machines \ {m} : running'[n] = running[n]
BY DEF Begun, TypeOK

\* A handler that goes on, at a step where it holds a machine if it has to.
LEMMA ClientSet ==
    ASSUME CInv, NEW c \in Clients, NEW r \in ClientRecords, r.kind \in Requests,
           r.pc \in Holding => r.sm \in Machines, client' = [client EXCEPT ![c] = r]
    PROVE  client' \in [Clients -> ClientRecords \cup {None}] /\ Handlers'
BY DEF CInv, TypeOK, Handlers

\* A handler that returns.
LEMMA ClientReturns ==
    ASSUME CInv, NEW c \in Clients, Return(c)
    PROVE  client' \in [Clients -> ClientRecords \cup {None}] /\ Handlers'
BY DEF CInv, TypeOK, Handlers, Return

\* A handler that goes on with the machine it holds.
LEMMA ClientGoes ==
    ASSUME CInv, NEW c \in Clients, client[c] # None, client[c].pc \in Holding,
           NEW step \in {"check", "drop", "raise", "saved", "followed"}, Goto(c, step)
    PROVE  client' \in [Clients -> ClientRecords \cup {None}] /\ Handlers'
<1> DEFINE r == [client[c] EXCEPT !.pc = step]
<1>1. client[c] \in ClientRecords /\ client[c].kind \in Requests /\ client[c].sm \in Machines
  BY DEF CInv, TypeOK, Handlers
<1>2. client' = [client EXCEPT ![c] = r]
  BY DEF Goto, CInv, TypeOK
<1>3. r \in ClientRecords /\ r.kind = client[c].kind /\ r.sm = client[c].sm
  BY <1>1 DEF ClientRecords
<1> HIDE DEF r
<1> QED
  BY <1>1, <1>2, <1>3, ClientSet

\* The invariant, from a step that changes nothing.
LEMMA StillCInv ==
    ASSUME CInv, UNCHANGED <<store, cache, machine, running, client, watcher, crashes>>
    PROVE  CInv'
BY DEF CInv, TypeOK, Handlers
-----------------------------------------------------------------------------
\* A handler starts with a release, and without a machine.
LEMMA HandleKeepsCInv ==
    ASSUME CInv, NEW c \in Clients, NEW kind, NEW step \in {"find", "upsert", "create"},
           NEW rel \in Releases, Handle(c, kind, step, rel)
    PROVE  CInv'
<1> DEFINE r == [kind |-> kind, pc |-> step, rel |-> rel, sm |-> None]
<1>1. kind \in Requests /\ kind \in RequestKinds
  BY ClientAssumption DEF Handle
<1>2. r \in ClientRecords /\ r.kind \in Requests /\ r.pc \notin Holding
  BY <1>1 DEF ClientRecords, Holding
<1>3. client' = [client EXCEPT ![c] = r]
  BY DEF Handle
<1> HIDE DEF r
<1>4. client' \in [Clients -> ClientRecords \cup {None}] /\ Handlers'
  BY <1>2, <1>3, ClientSet
<1> QED
  BY <1>4 DEF Handle, CInv, TypeOK

\* What a handler starts with is read from the KV, or from its request.
LEMMA NewRequestKeepsCInv ==
    ASSUME CInv, NEW c \in Clients, NewRequest(c)
    PROVE  CInv'
<1>1. store # None => store \in Releases
  BY DEF CInv, TypeOK
<1>2. CASE Admit(c)
  BY <1>1, <1>2, HandleKeepsCInv DEF Admit
<1>3. CASE Delete(c)
  BY <1>1, <1>3, HandleKeepsCInv DEF Delete
<1>4. CASE List(c)
  BY <1>1, <1>4, HandleKeepsCInv DEF List
<1>5. ASSUME NEW config \in Configs, Post(c, config) \/ Reconcile(c, config)
      PROVE  CInv'
  <2>1. [state |-> "new", config |-> config] \in Releases
    BY DEF Releases, StoredStates
  <2> QED
    BY <1>5, <2>1, HandleKeepsCInv DEF Post, Reconcile
<1> QED
  BY <1>2, <1>3, <1>4, <1>5 DEF NewRequest

\* The machine a handler makes is in the state of the release it was given.
LEMMA NewMachineTyped ==
    ASSUME CInv, NEW m \in Machines, NEW rel \in Releases, NewMachine(m, rel)
    PROVE  machine' \in [Machines -> MachineRecords]
<1> DEFINE r == [fsm |-> IF rel.state = "new" THEN "start" ELSE rel.state,
                 config |-> rel.config, saving |-> FALSE]
<1>1. r \in MachineRecords
  BY DEF MachineRecords, Releases, StoredStates, States, Rest
<1>2. machine' = [machine EXCEPT ![m] = r]
  BY DEF NewMachine
<1> HIDE DEF r
<1> QED
  BY <1>1, <1>2 DEF CInv, TypeOK

\* A handler reads the machine, or makes it, and holds it from then on.
LEMMA GetStateMachineKeepsCInv ==
    ASSUME CInv, NEW c \in Clients, GetStateMachine(c)
    PROVE  CInv'
<1>1. client[c] \in ClientRecords /\ client[c].kind \in Requests
      /\ client[c].rel \in Releases
  BY DEF CInv, TypeOK, Handlers, GetStateMachine, At, ClientRecords
<1>2. CASE /\ cache # None
           /\ client' = [client EXCEPT ![c].sm = cache,
                  ![c].pc = IF @ = "find" THEN "check" ELSE "raise"]
           /\ machine' = machine
  <2> DEFINE step == IF client[c].pc = "find" THEN "check" ELSE "raise"
             r == [client[c] EXCEPT !.sm = cache, !.pc = step]
  <2>1. cache \in Machines
    BY <1>2 DEF CInv, TypeOK
  <2>2. client' = [client EXCEPT ![c] = r]
    BY <1>1, <1>2 DEF CInv, TypeOK, ClientRecords
  <2>3. r \in ClientRecords /\ r.kind = client[c].kind /\ r.sm \in Machines
    BY <1>1, <2>1 DEF ClientRecords
  <2> HIDE DEF r
  <2>4. client' \in [Clients -> ClientRecords \cup {None}] /\ Handlers'
    BY <1>1, <2>2, <2>3, ClientSet
  <2> QED
    BY <1>2, <2>4 DEF GetStateMachine, CInv, TypeOK
<1>3. ASSUME NEW m \in Machines, NewMachine(m, client[c].rel),
             client' = [client EXCEPT ![c].sm = m,
                 ![c].pc = IF @ = "find" THEN "insertFound" ELSE "insert"]
      PROVE  CInv'
  <2> DEFINE step == IF client[c].pc = "find" THEN "insertFound" ELSE "insert"
             r == [client[c] EXCEPT !.sm = m, !.pc = step]
  <2>1. machine' \in [Machines -> MachineRecords]
    BY <1>1, <1>3, NewMachineTyped
  <2>2. client' = [client EXCEPT ![c] = r]
    BY <1>1, <1>3 DEF CInv, TypeOK, ClientRecords
  <2>3. r \in ClientRecords /\ r.kind = client[c].kind /\ r.sm \in Machines
    BY <1>1 DEF ClientRecords
  <2> HIDE DEF r
  <2>4. client' \in [Clients -> ClientRecords \cup {None}] /\ Handlers'
    BY <1>1, <2>2, <2>3, ClientSet
  <2> QED
    BY <2>1, <2>4 DEF GetStateMachine, CInv, TypeOK
<1> QED
  BY <1>2, <1>3 DEF GetStateMachine

\* A handler that writes the map or the KV.
LEMMA WritingKeepsCInv ==
    ASSUME CInv, NEW c \in Clients, Upsert(c) \/ Drop(c) \/ Insert(c) \/ Check(c) \/ Listed(c)
    PROVE  CInv'
<1>1. client[c] \in ClientRecords /\ client[c].kind \in Requests /\ client[c] # None
  BY DEF CInv, TypeOK, Handlers, Upsert, Drop, Insert, Check, Listed, At
<1>2. CASE Upsert(c)
  <2> DEFINE step == IF client[c].kind = "reconcile" THEN "drop" ELSE "create"
             r == [client[c] EXCEPT !.pc = step]
  <2>1. r \in ClientRecords /\ r.kind = client[c].kind /\ r.pc \notin Holding
    BY <1>1 DEF ClientRecords, Holding
  <2>2. store' \in Releases \cup {None}
    BY <1>1, <1>2 DEF Upsert, ClientRecords, CInv, TypeOK
  <2>3. client' = [client EXCEPT ![c] = r] \/ Return(c)
    BY <1>1, <1>2 DEF Upsert, Goto, CInv, TypeOK
  <2> HIDE DEF r
  <2>4. client' \in [Clients -> ClientRecords \cup {None}] /\ Handlers'
    BY <1>1, <2>1, <2>3, ClientSet, ClientReturns
  <2> QED
    BY <1>2, <2>2, <2>4 DEF Upsert, CInv, TypeOK
<1>3. CASE Drop(c)
  <2> DEFINE r == [client[c] EXCEPT !.pc = "create", !.sm = None]
  <2>1. r \in ClientRecords /\ r.kind = client[c].kind /\ r.pc \notin Holding
    BY <1>1 DEF ClientRecords, Holding
  <2>2. client' = [client EXCEPT ![c] = r]
    BY <1>1, <1>3 DEF Drop, CInv, TypeOK
  <2> HIDE DEF r
  <2>3. client' \in [Clients -> ClientRecords \cup {None}] /\ Handlers'
    BY <1>1, <2>1, <2>2, ClientSet
  <2> QED
    BY <1>3, <2>3 DEF Drop, CInv, TypeOK
<1>4. CASE Insert(c)
  <2>1. client[c].pc \in Holding
    BY <1>4 DEF Insert, At, Holding
  <2>2. client[c].sm \in Machines
    BY <1>1, <2>1 DEF CInv, Handlers
  <2>3. Goto(c, "check") \/ Goto(c, "raise")
    BY <1>4 DEF Insert
  <2>4. client' \in [Clients -> ClientRecords \cup {None}] /\ Handlers'
    BY <1>1, <2>1, <2>3, ClientGoes
  <2> QED
    BY <1>4, <2>2, <2>4 DEF Insert, CInv, TypeOK
<1>5. CASE Check(c)
  <2>1. client[c].pc \in Holding
    BY <1>5 DEF Check, At, Holding
  <2>2. client' \in [Clients -> ClientRecords \cup {None}] /\ Handlers'
    BY <1>1, <1>5, <2>1, ClientGoes, ClientReturns DEF Check
  <2> QED
    BY <1>5, <2>2 DEF Check, CInv, TypeOK
<1>6. CASE Listed(c)
  <2>1. client' \in [Clients -> ClientRecords \cup {None}] /\ Handlers'
    BY <1>6, ClientReturns DEF Listed
  <2> QED
    BY <1>6, <2>1 DEF Listed, CInv, TypeOK
<1> QED
  BY <1>2, <1>3, <1>4, <1>5, <1>6

\* A handler that raises an event raises one its machine accepts, or returns.
LEMMA RaiseKeepsCInv ==
    ASSUME CInv, NEW c \in Clients, Raise(c)
    PROVE  CInv'
<1> DEFINE m == client[c].sm
           event == Request[client[c].kind]
<1>1. client[c] \in ClientRecords /\ client[c] # None /\ client[c].pc = "raise"
      /\ client[c].kind # "list"
  BY DEF CInv, TypeOK, Raise, At
<1>2. client[c].pc \in Holding
  BY <1>1 DEF Holding
<1>3. m \in Machines /\ event \in Events
  BY <1>1, <1>2, RequestIsEvent DEF CInv, Handlers, ClientRecords
<1>4. UNCHANGED <<store, cache, watcher, crashes>>
  BY DEF Raise
<1>5. \/ CanRaise(m, event) /\ Entered(m, event) /\ Begun(m, event, running[m])
         /\ Goto(c, "saved")
      \/ Return(c) /\ UNCHANGED <<machine, running>>
  BY DEF Raise
<1> HIDE DEF m, event
<1>6. CASE CanRaise(m, event) /\ Entered(m, event) /\ Begun(m, event, running[m])
           /\ Goto(c, "saved")
  <2>1. machine' \in [Machines -> MachineRecords]
    BY <1>3, <1>6, EnteredTyped DEF CanRaise, CInv
  <2>2. running[m] \in SUBSET Active
    BY <1>3 DEF CInv, TypeOK
  <2>3. running' \in [Machines -> SUBSET Active]
    BY <1>3, <1>6, <2>2, BegunTyped DEF CInv
  <2>4. client' \in [Clients -> ClientRecords \cup {None}] /\ Handlers'
    BY <1>1, <1>2, <1>6, ClientGoes
  <2> QED
    BY <1>4, <2>1, <2>3, <2>4 DEF CInv, TypeOK
<1>7. CASE Return(c) /\ UNCHANGED <<machine, running>>
  <2>1. client' \in [Clients -> ClientRecords \cup {None}] /\ Handlers'
    BY <1>7, ClientReturns
  <2> QED
    BY <1>4, <1>7, <2>1 DEF CInv, TypeOK
<1> QED
  BY <1>5, <1>6, <1>7

\* The deployment that follows an update is one the idle machine accepts.
LEMMA ReplyKeepsCInv ==
    ASSUME CInv, NEW c \in Clients, Reply(c)
    PROVE  CInv'
<1> DEFINE m == client[c].sm
<1>1. client[c] \in ClientRecords /\ client[c] # None /\ client[c].pc \in Holding
  BY DEF CInv, TypeOK, Reply, At, Holding
<1>2. m \in Machines
  BY <1>1 DEF CInv, Handlers
<1>3. UNCHANGED <<store, cache, crashes>>
  BY DEF Reply
<1>4. watcher' \in [Clients -> WatcherRecords \cup {None}]
  <2>1. [sm |-> m, pc |-> "poll"] \in WatcherRecords
    BY <1>2 DEF WatcherRecords
  <2> QED
    BY <2>1 DEF Reply, CInv, TypeOK
<1>5. \/ machine[m].fsm = "idle" /\ Entered(m, "deploy") /\ Begun(m, "deploy", running[m])
         /\ Goto(c, "followed")
      \/ Return(c) /\ UNCHANGED <<machine, running>>
  BY DEF Reply
<1> HIDE DEF m
<1>6. CASE machine[m].fsm = "idle" /\ Entered(m, "deploy") /\ Begun(m, "deploy", running[m])
           /\ Goto(c, "followed")
  <2>1. "deploy" \in Events /\ Accepts(machine[m].fsm, "deploy")
    BY <1>6 DEF Events, Accepts, Sources
  <2>2. machine' \in [Machines -> MachineRecords]
    BY <1>2, <1>6, <2>1, EnteredTyped DEF CInv
  <2>3. running[m] \in SUBSET Active
    BY <1>2 DEF CInv, TypeOK
  <2>4. running' \in [Machines -> SUBSET Active]
    BY <1>2, <1>6, <2>3, BegunTyped DEF CInv
  <2>5. client' \in [Clients -> ClientRecords \cup {None}] /\ Handlers'
    BY <1>1, <1>6, ClientGoes
  <2> QED
    BY <1>3, <1>4, <2>2, <2>4, <2>5 DEF CInv, TypeOK
<1>7. CASE Return(c) /\ UNCHANGED <<machine, running>>
  <2>1. client' \in [Clients -> ClientRecords \cup {None}] /\ Handlers'
    BY <1>7, ClientReturns
  <2> QED
    BY <1>3, <1>4, <1>7, <2>1 DEF CInv, TypeOK
<1> QED
  BY <1>5, <1>6, <1>7

\* The goroutine that waits for a deletion.
LEMMA WatcherKeepsCInv ==
    ASSUME CInv, NEW c \in Clients, WatcherStep(c)
    PROVE  CInv'
<1>1. watcher[c] \in WatcherRecords
  BY DEF CInv, TypeOK, WatcherStep, WatchPoll, WatchDrop, WatchErase
<1>2. watcher' \in [Clients -> WatcherRecords \cup {None}]
  BY <1>1 DEF CInv, TypeOK, WatcherStep, WatchPoll, WatchDrop, WatchErase, WatcherRecords
<1>3. UNCHANGED <<machine, running, client, crashes>>
      /\ cache' \in Machines \cup {None} /\ store' \in Releases \cup {None}
  BY DEF CInv, TypeOK, WatcherStep, WatchPoll, WatchDrop, WatchErase
<1> QED
  BY <1>2, <1>3 DEF CInv, TypeOK, Handlers

\* What a goroutine does to its machine when it ends.
LEMMA OperateCases ==
    ASSUME CInv, NEW m \in Machines, Operate(m)
    PROVE  \E kind \in running[m], event \in Events :
              \/ CanRaise(m, event) /\ Entered(m, event)
                 /\ Begun(m, event, running[m] \ {kind})
              \/ machine' = machine /\ running' = [running EXCEPT ![m] = @ \ {kind}]
<1>1. running[m] \subseteq Active
  BY DEF CInv, TypeOK
<1>2. PICK kind \in running[m] : \E event \in Results[kind] :
          \/ CanRaise(m, event) /\ Entered(m, event)
             /\ Begun(m, event, running[m] \ {kind})
          \/ Refuses(m, event) /\ machine' = machine
             /\ running' = [running EXCEPT ![m] = @ \ {kind}]
  BY DEF Operate
<1>3. Results[kind] \subseteq Events
  BY <1>1, ResultIsEvent
<1> QED
  BY <1>2, <1>3

\* A goroutine that ends, and the callbacks of its event.
LEMMA MachineKeepsCInv ==
    ASSUME CInv, NEW m \in Machines, MachineStep(m)
    PROVE  CInv'
<1>1. CASE Operate(m)
  <2>1. PICK kind \in running[m], event \in Events :
              \/ CanRaise(m, event) /\ Entered(m, event)
                 /\ Begun(m, event, running[m] \ {kind})
              \/ machine' = machine /\ running' = [running EXCEPT ![m] = @ \ {kind}]
    BY <1>1, OperateCases
  <2>2. running[m] \ {kind} \in SUBSET Active
    BY DEF CInv, TypeOK
  <2>3. CASE CanRaise(m, event) /\ Entered(m, event) /\ Begun(m, event, running[m] \ {kind})
    <3>1. machine' \in [Machines -> MachineRecords]
      BY <2>3, EnteredTyped DEF CanRaise, CInv
    <3>2. running' \in [Machines -> SUBSET Active]
      BY <2>2, <2>3, BegunTyped DEF CInv
    <3> QED
      BY <1>1, <3>1, <3>2 DEF Operate, CInv, TypeOK, Handlers
  <2>4. CASE machine' = machine /\ running' = [running EXCEPT ![m] = @ \ {kind}]
    <3>1. running' \in [Machines -> SUBSET Active]
      BY <2>2, <2>4 DEF CInv, TypeOK
    <3> QED
      BY <1>1, <2>4, <3>1 DEF Operate, CInv, TypeOK, Handlers
  <2> QED
    BY <2>1, <2>3, <2>4
<1>2. CASE Save(m)
  <2> DEFINE r == [machine[m] EXCEPT !.saving = FALSE]
             stored == [state |-> machine[m].fsm, config |-> machine[m].config]
  <2>1. machine[m] \in MachineRecords
    BY DEF CInv, TypeOK
  <2>2. r \in MachineRecords /\ stored \in Releases
    BY <2>1 DEF MachineRecords, Releases, StoredStates
  <2>3. machine' = [machine EXCEPT ![m] = r]
    BY <1>2 DEF Save, CInv, TypeOK
  <2>4. store' \in Releases \cup {None}
    BY <1>2, <2>2 DEF Save, CInv, TypeOK
  <2> HIDE DEF r
  <2>5. machine' \in [Machines -> MachineRecords]
    BY <2>2, <2>3 DEF CInv, TypeOK
  <2> QED
    BY <1>2, <2>4, <2>5 DEF Save, CInv, TypeOK, Handlers
<1> QED
  BY <1>1, <1>2 DEF MachineStep

\* After a crash there is nothing but the KV.
LEMMA CrashKeepsCInv ==
    ASSUME CInv, Crash
    PROVE  CInv'
<1>1. machine' \in [Machines -> MachineRecords]
  <2>1. \A m \in Machines : [machine[m] EXCEPT !.saving = FALSE] \in MachineRecords
    BY DEF CInv, TypeOK, MachineRecords
  <2> QED
    BY <2>1 DEF Crash
<1>2. running' \in [Machines -> SUBSET Active] /\ crashes' \in 0..MaxCrashes
  BY ClientAssumption DEF Crash, CInv, TypeOK
<1>3. client' = [c \in Clients |-> None] /\ watcher' = [c \in Clients |-> None]
      /\ cache' = None /\ store' = store
  BY DEF Crash
<1> QED
  BY <1>1, <1>2, <1>3 DEF CInv, TypeOK, Handlers

\* The controller starts with nothing.
LEMMA InitCInv ==
    ASSUME Init
    PROVE  CInv
<1>1. PICK config \in Configs :
         machine = [m \in Machines |-> [fsm |-> "start", config |-> config, saving |-> FALSE]]
  BY DEF Init
<1>2. machine \in [Machines -> MachineRecords]
  BY <1>1 DEF MachineRecords, States, Rest
<1>3. 0 \in 0..MaxCrashes
  BY ClientAssumption
<1>4. TypeOK
  BY <1>2, <1>3 DEF Init, TypeOK
<1>5. Handlers
  BY DEF Init, Handlers
<1> QED
  BY <1>4, <1>5 DEF CInv

\* Every step keeps the invariant.
LEMMA NextKeepsCInv ==
    ASSUME CInv, [Next]_vars
    PROVE  CInv'
<1>1. ASSUME NEW c \in Clients, HandlerStep(c)
      PROVE  CInv'
  BY <1>1, WritingKeepsCInv, GetStateMachineKeepsCInv, RaiseKeepsCInv, ReplyKeepsCInv
     DEF HandlerStep
<1>2. CASE UNCHANGED vars
  BY <1>2, StillCInv DEF vars
<1> QED
  BY <1>1, <1>2, NewRequestKeepsCInv, WatcherKeepsCInv, MachineKeepsCInv, CrashKeepsCInv
     DEF Next

\* The invariant holds in every reachable state.
LEMMA CInvariance == Spec => []CInv
<1>1. Init => CInv
  BY InitCInv
<1>2. CInv /\ [Next]_vars => CInv'
  BY NextKeepsCInv
<1> QED
  BY <1>1, <1>2, PTL DEF Spec

\* Every variable keeps its type, whatever requests come, however handlers
\* interleave, and wherever the controller crashes: in particular a machine only
\* ever is in a state of the table, and a handler holds one that exists.
THEOREM ControllerTypeCorrect == Spec => []TypeOK
<1>1. CInv => TypeOK
  BY DEF CInv
<1> QED
  BY <1>1, CInvariance, PTL
-----------------------------------------------------------------------------
\* Nothing but a deletion starts a goroutine beside another one.
LEMMA EventKeepsOne ==
    ASSUME CInv, OnePerMachine, NEW m \in Machines, NEW e \in Events,
           NEW left \in SUBSET Active, left = {},
           CanRaise(m, e), Entered(m, e), Begun(m, e, left)
    PROVE  OnePerMachine'
<1>1. /\ machine'[m].fsm = Target(machine[m].fsm, e)
      /\ \A n \in Machines \ {m} : machine'[n] = machine[n]
  BY EnteredTyped DEF CanRaise, CInv
<1>2. /\ running'[m] \subseteq {Target(machine[m].fsm, e)}
      /\ \A n \in Machines \ {m} : running'[n] = running[n]
  BY BegunTyped DEF CInv
<1> QED
  BY <1>1, <1>2 DEF OnePerMachine

\* Where nothing is started and no state is left, nothing changes.
LEMMA StillOne ==
    ASSUME OnePerMachine, UNCHANGED running,
           \A m \in Machines : machine'[m].fsm = machine[m].fsm
    PROVE  OnePerMachine'
BY DEF OnePerMachine

\* A handler makes its machine of an object that runs nothing, and raises an
\* event only where nothing runs.
LEMMA HandlerKeepsOne ==
    ASSUME CInv, OnePerMachine, "delete" \notin Requests, NEW c \in Clients, HandlerStep(c)
    PROVE  OnePerMachine'
<1>1. running \in [Machines -> SUBSET Active] /\ machine \in [Machines -> MachineRecords]
  BY DEF CInv, TypeOK
<1>2. CASE Upsert(c) \/ Drop(c) \/ Insert(c) \/ Check(c) \/ Listed(c)
  <2>1. UNCHANGED <<machine, running>>
    BY <1>2 DEF Upsert, Drop, Insert, Check, Listed
  <2> QED
    BY <2>1, StillOne
<1>3. CASE GetStateMachine(c)
  <2>1. running' = running
    BY <1>3 DEF GetStateMachine
  <2>2. CASE machine' = machine
    BY <2>1, <2>2, StillOne
  <2>3. ASSUME NEW m \in Machines, Unused(m), NewMachine(m, client[c].rel)
        PROVE  OnePerMachine'
    <3>1. running[m] = {}
      BY <2>3 DEF Unused
    <3>2. \A n \in Machines \ {m} : machine'[n] = machine[n]
      BY <1>1, <2>3 DEF NewMachine
    <3> QED
      BY <2>1, <3>1, <3>2 DEF OnePerMachine
  <2> QED
    BY <1>3, <2>2, <2>3 DEF GetStateMachine
<1>4. CASE Raise(c)
  <2> DEFINE m == client[c].sm
             event == Request[client[c].kind]
  <2>1. client[c] \in ClientRecords /\ client[c] # None /\ client[c].pc = "raise"
        /\ client[c].kind # "list" /\ client[c].kind \in Requests
    BY <1>4 DEF CInv, TypeOK, Handlers, Raise, At
  <2>2. m \in Machines
    BY <2>1 DEF CInv, Handlers, Holding
  <2>3. event \in {"deploy", "configure"} /\ event \in Events
    BY <2>1 DEF ClientRecords, RequestKinds, Request, Events
  <2>4. \/ CanRaise(m, event) /\ Entered(m, event) /\ Begun(m, event, running[m])
        \/ UNCHANGED <<machine, running>>
    BY <1>4 DEF Raise
  <2> HIDE DEF m, event
  <2>5. CASE CanRaise(m, event) /\ Entered(m, event) /\ Begun(m, event, running[m])
    <3>1. machine[m].fsm \notin Active
      BY <1>1, <2>2, <2>3, <2>5, RequestAtRest DEF CanRaise, MachineRecords
    <3>2. running[m] = {}
      BY <1>1, <2>2, <3>1 DEF OnePerMachine
    <3> QED
      BY <1>1, <2>2, <2>3, <2>5, <3>2, EventKeepsOne
  <2> QED
    BY <2>4, <2>5, StillOne
<1>5. CASE Reply(c)
  <2> DEFINE m == client[c].sm
  <2>1. m \in Machines
    BY <1>5 DEF CInv, TypeOK, Handlers, Reply, At, Holding
  <2>2. \/ /\ ~machine[m].saving /\ machine[m].fsm = "idle"
           /\ Entered(m, "deploy") /\ Begun(m, "deploy", running[m])
        \/ UNCHANGED <<machine, running>>
    BY <1>5 DEF Reply
  <2> HIDE DEF m
  <2>3. CASE /\ ~machine[m].saving /\ machine[m].fsm = "idle"
             /\ Entered(m, "deploy") /\ Begun(m, "deploy", running[m])
    <3>1. running[m] = {}
      BY <1>1, <2>1, <2>3 DEF OnePerMachine, Active
    <3>2. CanRaise(m, "deploy") /\ "deploy" \in Events
      BY <2>3 DEF CanRaise, Accepts, Sources, Events
    <3> QED
      BY <1>1, <2>1, <2>3, <3>1, <3>2, EventKeepsOne
  <2> QED
    BY <2>2, <2>3, StillOne
<1> QED
  BY <1>2, <1>3, <1>4, <1>5 DEF HandlerStep

\* A goroutine's event starts the next one when it is gone itself.
LEMMA MachineKeepsOne ==
    ASSUME CInv, OnePerMachine, NEW m \in Machines, MachineStep(m)
    PROVE  OnePerMachine'
<1>1. running \in [Machines -> SUBSET Active] /\ machine \in [Machines -> MachineRecords]
  BY DEF CInv, TypeOK
<1>2. CASE Operate(m)
  <2>1. PICK kind \in running[m], event \in Events :
              \/ CanRaise(m, event) /\ Entered(m, event)
                 /\ Begun(m, event, running[m] \ {kind})
              \/ machine' = machine /\ running' = [running EXCEPT ![m] = @ \ {kind}]
    BY <1>2, OperateCases
  <2>2. CASE CanRaise(m, event) /\ Entered(m, event) /\ Begun(m, event, running[m] \ {kind})
    <3>1. running[m] \ {kind} = {}
      BY DEF OnePerMachine
    <3> QED
      BY <2>2, <3>1, EventKeepsOne
  <2>3. CASE machine' = machine /\ running' = [running EXCEPT ![m] = @ \ {kind}]
    BY <1>1, <2>3 DEF OnePerMachine
  <2> QED
    BY <2>1, <2>2, <2>3
<1>3. CASE Save(m)
  <2>1. \A n \in Machines : machine'[n].fsm = machine[n].fsm
    BY <1>1, <1>3 DEF Save, MachineRecords
  <2> QED
    BY <1>3, <2>1, StillOne DEF Save
<1> QED
  BY <1>2, <1>3 DEF MachineStep

\* Every step but that of a deletion keeps goroutines apart.
LEMMA NextKeepsOne ==
    ASSUME CInv, OnePerMachine, "delete" \notin Requests, [Next]_vars
    PROVE  OnePerMachine'
<1>1. ASSUME NEW c \in Clients, NewRequest(c) \/ WatcherStep(c)
      PROVE  OnePerMachine'
  <2>1. UNCHANGED <<machine, running>>
    BY <1>1 DEF NewRequest, Admit, Delete, List, Post, Reconcile, Handle,
                WatcherStep, WatchPoll, WatchDrop, WatchErase
  <2> QED
    BY <2>1, StillOne
<1>2. CASE Crash
  BY <1>2 DEF Crash, OnePerMachine
<1>3. CASE UNCHANGED vars
  BY <1>3, StillOne DEF vars
<1> QED
  BY <1>1, <1>2, <1>3, HandlerKeepsOne, MachineKeepsOne DEF Next

\* However many handlers admit, post, reconcile and list, and wherever the
\* controller crashes, the table and the FSM's lock keep a machine's goroutines
\* apart: none but the one its state calls for.  Without a deletion, that is,
\* for event_destroy starts a second one.
THEOREM OneGoroutine ==
    ASSUME "delete" \notin Requests
    PROVE  Spec => []OnePerMachine
<1>1. Init => OnePerMachine
  BY DEF Init, OnePerMachine
<1>2. CInv /\ OnePerMachine /\ [Next]_vars => OnePerMachine'
  BY NextKeepsOne
<1> QED
  BY <1>1, <1>2, CInvariance, PTL DEF Spec
=============================================================================
