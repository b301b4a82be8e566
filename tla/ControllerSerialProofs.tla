----------------------- MODULE ControllerSerialProofs -----------------------
(***************************************************************************)
(* The release under one client at a time that waits for a deletion to be  *)
(* over: admission and reconciliation replace the machine, a deletion      *)
(* removes it, the controller crashes, and yet no two machines ever work,  *)
(* the KV holds what is being worked on, no update is undone, and all of   *)
(* it together implements ReleaseLifecycle.                                *)
(***************************************************************************)
EXTENDS ControllerProofs

\* The requests come one after another, nobody posts, and nobody deletes a
\* release that is being worked on; the KV answers.
Serial ==
    /\ \A c, d \in Clients : c = d
    /\ "post" \notin Requests
    /\ DeleteFrom \cap Active = {}
    /\ Patient
    /\ ~StoreFails
-----------------------------------------------------------------------------
Quiet == \A m \in Machines : ~Works(m)

QuietBut(m) == \A n \in Machines \ {m} : ~Works(n)

InSteps(c, steps) == client[c] # None /\ client[c].pc \in steps

AtMostOne == \A m, n \in Machines : Works(m) /\ Works(n) => m = n

\* Nothing runs of a release that has been removed, whose last state may however
\* still have to be stored.
ErasedAtRest == store = None => cache = None /\ \A m \in Machines : running[m] = {}

\* Nothing works on a release that is stored at rest, but for the machine whose
\* handler waits for its event to return.
StoredAtRest ==
    /\ store # None /\ store.state \notin Active
    /\ \A c \in Clients : ~InSteps(c, {"saved", "followed"})
    => Quiet

\* What works, works on the configuration that is stored.
WorksAsStored ==
    \A m \in Machines : Works(m) /\ store # None => store.config = machine[m].config

\* The machine of the map has that configuration too, but for an update that has
\* not dropped it yet.
CachedAsStored ==
    /\ cache # None /\ store # None
    /\ \A c \in Clients : ~InSteps(c, {"drop"})
    => machine[cache].config = store.config

\* What a handler may rely on at each of its steps.
HandlerFacts(c) ==
    LET pc == client[c].pc
        kind == client[c].kind
        rel == client[c].rel
        sm == client[c].sm
    IN  /\ pc \notin {"saved", "followed"} /\ rel.state \notin Active => Quiet
        /\ pc # "upsert" => store # None /\ store.config = rel.config
        /\ pc \in {"check", "raise", "saved", "followed"} => sm = cache
        /\ pc \in {"saved", "followed"} => QuietBut(sm)
        /\ pc \in {"insertFound", "insert"} => ~Works(sm) /\ machine[sm].config = rel.config
        /\ kind = "admit" /\ pc = "create" => cache = None
        /\ kind = "admit" /\ pc \in {"insert", "raise"} =>
              ~Works(sm) /\ (rel.state \in Active => machine[sm].fsm = rel.state)
        /\ pc = "upsert" => kind = "reconcile"
        /\ kind = "reconcile" => rel.state = "new"
        /\ kind = "delete" => rel.state \notin Active

\* And the goroutine that waits for a deletion, beside which no handler is.
WatcherFacts(c) ==
    /\ client[c] = None
    /\ QuietBut(watcher[c].sm)
    /\ watcher[c].pc \in {"drop", "erase"} => \A m \in Machines : running[m] = {}
    /\ watcher[c].pc = "erase" => cache = None

Handled == \A c \in Clients : client[c] # None => HandlerFacts(c)

Watched == \A c \in Clients : watcher[c] # None => WatcherFacts(c)

\* The inductive invariant.
SInv ==
    /\ OnePerMachine /\ AtMostOne /\ StoreFollows
    /\ ErasedAtRest /\ StoredAtRest /\ WorksAsStored /\ CachedAsStored
    /\ Handled /\ Watched
-----------------------------------------------------------------------------
\* The handler that goes on keeps what it knows.
LEMMA GoesOn ==
    ASSUME CInv, NEW c \in Clients, client[c] # None,
           NEW step \in {"check", "drop", "create", "raise", "saved", "followed"}, Goto(c, step)
    PROVE  /\ client'[c] # None /\ client'[c].pc = step
           /\ client'[c].kind = client[c].kind
           /\ client'[c].rel = client[c].rel /\ client'[c].sm = client[c].sm
<1> DEFINE r == [client[c] EXCEPT !.pc = step]
<1>1. client[c] \in ClientRecords /\ client \in [Clients -> ClientRecords \cup {None}]
  BY DEF CInv, TypeOK
<1>2. client'[c] = r
  BY <1>1 DEF Goto
<1>3. r \in ClientRecords /\ r.pc = step /\ r.kind = client[c].kind
      /\ r.rel = client[c].rel /\ r.sm = client[c].sm
  BY <1>1 DEF ClientRecords
<1> HIDE DEF r
<1> QED
  BY <1>2, <1>3, NoneAssumption

\* A handler that returns leaves nothing but what the machines and the KV hold.
LEMMA Returned ==
    ASSUME CInv, NEW c \in Clients, Return(c)
    PROVE  client'[c] = None
BY DEF CInv, TypeOK, Return

\* Where neither the machines nor the KV change, nor the map, no promise about
\* them does.
LEMMA StillShared ==
    ASSUME SInv, UNCHANGED <<store, cache, machine, running>>
    PROVE  /\ OnePerMachine' /\ AtMostOne' /\ StoreFollows' /\ ErasedAtRest' /\ WorksAsStored'
           /\ Quiet' <=> Quiet
           /\ \A m : Works(m)' <=> Works(m)
           /\ \A m : QuietBut(m)' <=> QuietBut(m)
BY DEF SInv, OnePerMachine, AtMostOne, StoreFollows, ErasedAtRest, WorksAsStored,
       Quiet, QuietBut, Works

\* A request finds the release at rest, unless it is to be admitted.
LEMMA HandleKeepsSafe ==
    ASSUME CInv, CInv', SInv, Serial, NEW c \in Clients, NEW kind,
           NEW step \in {"find", "upsert", "create"}, NEW rel \in Releases,
           Handle(c, kind, step, rel),
           rel.state \notin Active => Quiet,
           step = "upsert" <=> kind = "reconcile",
           step # "upsert" => store # None /\ store.config = rel.config,
           kind = "reconcile" => rel.state = "new",
           kind = "delete" => rel.state \notin Active,
           kind = "admit" => step = "find"
    PROVE  SInv'
<1> DEFINE r == [kind |-> kind, pc |-> step, rel |-> rel, sm |-> None]
<1>1. client[c] = None /\ watcher[c] = None /\ client'[c] = r
  BY DEF Handle, CInv, TypeOK
<1>2. r.kind = kind /\ r.pc = step /\ r.rel = rel
  OBVIOUS
<1> HIDE DEF r
<1>3. UNCHANGED <<store, cache, machine, running, watcher>>
  BY DEF Handle
<1>4. \A d \in Clients : d = c
  BY DEF Serial
<1>5. StoredAtRest' /\ CachedAsStored'
  BY <1>1, <1>2, <1>3, <1>4, StillShared DEF SInv, StoredAtRest, CachedAsStored, InSteps
<1>6. Handled'
  BY <1>1, <1>2, <1>3, <1>4, StillShared DEF Handled, HandlerFacts
<1>7. Watched'
  BY <1>1, <1>3, <1>4 DEF Watched
<1> QED
  BY <1>3, <1>5, <1>6, <1>7, StillShared DEF SInv

\* Whatever is asked for: an update comes to a release at rest, and so does a
\* deletion.
LEMMA NewRequestKeepsSafe ==
    ASSUME CInv, CInv', SInv, Serial, NEW c \in Clients, NewRequest(c)
    PROVE  SInv'
<1>1. store # None => store \in Releases
  BY DEF CInv, TypeOK
<1>2. client[c] = None /\ DeletionOver
  BY DEF NewRequest, Admit, Delete, List, Post, Reconcile, Handle, Serial
<1>3. \A d \in Clients : ~InSteps(d, {"saved", "followed"})
  BY <1>2 DEF InSteps, Serial
<1>4. store # None /\ store.state \notin Active => Quiet
  BY <1>3 DEF SInv, StoredAtRest
<1>5. CASE Admit(c)
  BY <1>1, <1>4, <1>5, HandleKeepsSafe DEF Admit
<1>6. CASE Delete(c)
  BY <1>1, <1>4, <1>6, HandleKeepsSafe DEF Delete, Serial
<1>7. CASE List(c)
  BY <1>1, <1>4, <1>7, HandleKeepsSafe DEF List
<1>8. ASSUME NEW config \in Configs, Reconcile(c, config)
      PROVE  SInv'
  <2> DEFINE rel == [state |-> "new", config |-> config]
  <2>1. rel \in Releases /\ rel.state = "new"
    BY DEF Releases, StoredStates
  <2>2. Handle(c, "reconcile", "upsert", rel)
    BY <1>8 DEF Reconcile
  <2> HIDE DEF rel
  <2>3. CASE store = None
    <3>1. Quiet
      BY <1>2, <2>3, NoneAssumption DEF SInv, ErasedAtRest, DeletionOver, Quiet, Works
    <3> QED
      BY <2>1, <2>2, <3>1, HandleKeepsSafe
  <2>4. CASE store # None
    <3>1. store.state \notin Active
      BY <1>8, <2>4 DEF Reconcile, Serial, Active
    <3> QED
      BY <1>4, <2>1, <2>2, <2>4, <3>1, HandleKeepsSafe
  <2> QED
    BY <2>3, <2>4
<1>9. ~ \E config \in Configs : Post(c, config)
  BY DEF Post, Handle, Serial
<1> QED
  BY <1>5, <1>6, <1>7, <1>8, <1>9 DEF NewRequest

\* An update is stored while nothing works, and its handler drops the machine.
LEMMA UpsertKeepsSafe ==
    ASSUME CInv, CInv', SInv, Serial, NEW c \in Clients, Upsert(c)
    PROVE  SInv'
<1>1. /\ client[c] # None /\ client[c].pc = "upsert" /\ HandlerFacts(c)
      /\ watcher[c] = None
  BY DEF Upsert, At, SInv, Handled, Watched, WatcherFacts
<1>2. client[c].kind = "reconcile" /\ client[c].rel.state = "new" /\ Quiet
  BY <1>1 DEF HandlerFacts, Active
<1>3. store' = client[c].rel /\ Goto(c, "drop")
      /\ UNCHANGED <<cache, machine, running, watcher>>
  BY <1>2 DEF Upsert, Serial
<1>4. /\ client'[c] # None /\ client'[c].pc = "drop" /\ client'[c].kind = client[c].kind
      /\ client'[c].rel = client[c].rel
  BY <1>1, <1>3, GoesOn
<1>5. client[c].rel \in Releases
  BY <1>1 DEF CInv, TypeOK, ClientRecords
<1>6. store' # None
  BY <1>3, <1>5, NoneAssumption
<1>7. Quiet' /\ \A m \in Machines : ~Works(m)'
  BY <1>2, <1>3 DEF Quiet, Works
<1>8. \A d \in Clients : d = c
  BY DEF Serial
<1>9. OnePerMachine' /\ AtMostOne' /\ StoreFollows' /\ ErasedAtRest' /\ WorksAsStored'
  BY <1>3, <1>6, <1>7 DEF SInv, OnePerMachine, AtMostOne, StoreFollows, ErasedAtRest,
                          WorksAsStored, Works
<1>10. StoredAtRest' /\ CachedAsStored'
  BY <1>4, <1>7 DEF StoredAtRest, CachedAsStored, InSteps
<1>11. Handled' /\ Watched'
  BY <1>1, <1>2, <1>3, <1>4, <1>6, <1>7, <1>8 DEF Handled, Watched, HandlerFacts
<1> QED
  BY <1>9, <1>10, <1>11 DEF SInv

\* A handler that drops the machine of a release works on it has none then.
LEMMA DropKeepsSafe ==
    ASSUME CInv, CInv', SInv, Serial, NEW c \in Clients, Drop(c)
    PROVE  SInv'
<1>1. /\ client[c] # None /\ client[c].pc = "drop" /\ HandlerFacts(c)
      /\ watcher[c] = None
  BY DEF Drop, At, SInv, Handled, Watched, WatcherFacts
<1>2. cache' = None /\ UNCHANGED <<store, machine, running, watcher>>
  BY DEF Drop
<1>3. /\ client'[c] # None /\ client'[c].pc = "create" /\ client'[c].kind = client[c].kind
      /\ client'[c].rel = client[c].rel
  <2> DEFINE r == [client[c] EXCEPT !.pc = "create", !.sm = None]
  <2>1. client[c] \in ClientRecords
    BY <1>1 DEF CInv, TypeOK
  <2>2. client'[c] = r
    BY <1>1 DEF Drop, CInv, TypeOK
  <2>3. /\ r \in ClientRecords /\ r.pc = "create"
        /\ r.kind = client[c].kind /\ r.rel = client[c].rel
    BY <2>1 DEF ClientRecords
  <2> HIDE DEF r
  <2> QED
    BY <2>2, <2>3, NoneAssumption
<1>4. \A d \in Clients : d = c
  BY DEF Serial
<1>5. Quiet' <=> Quiet
  BY <1>2 DEF Quiet, Works
<1>6. OnePerMachine' /\ AtMostOne' /\ StoreFollows' /\ ErasedAtRest' /\ WorksAsStored'
  BY <1>2 DEF SInv, OnePerMachine, AtMostOne, StoreFollows, ErasedAtRest,
              WorksAsStored, Works
<1>7. StoredAtRest' /\ CachedAsStored'
  BY <1>1, <1>2, <1>4, <1>5 DEF SInv, StoredAtRest, CachedAsStored, InSteps
<1>8. Handled' /\ Watched'
  BY <1>1, <1>2, <1>3, <1>4, <1>5 DEF Handled, Watched, HandlerFacts
<1> QED
  BY <1>6, <1>7, <1>8 DEF SInv

\* The machine of the map, or one that does not work, made from what is stored.
LEMMA GetStateMachineKeepsSafe ==
    ASSUME CInv, CInv', SInv, Serial, NEW c \in Clients, GetStateMachine(c)
    PROVE  SInv'
<1>1. /\ client[c] # None /\ client[c].pc \in {"find", "create"} /\ HandlerFacts(c)
      /\ watcher[c] = None
  BY DEF GetStateMachine, At, SInv, Handled, Watched, WatcherFacts
<1>2. client[c] \in ClientRecords /\ client[c].rel \in Releases
      /\ client \in [Clients -> ClientRecords \cup {None}]
  BY <1>1 DEF CInv, TypeOK, ClientRecords
<1>3. UNCHANGED <<store, cache, running, watcher>>
  BY DEF GetStateMachine
<1>4. \A d \in Clients : d = c
  BY DEF Serial
<1>5. store # None /\ store.config = client[c].rel.config
  BY <1>1 DEF HandlerFacts
<1>6. CASE /\ cache # None
           /\ client' = [client EXCEPT ![c].sm = cache,
                  ![c].pc = IF @ = "find" THEN "check" ELSE "raise"]
           /\ machine' = machine
  <2> DEFINE step == IF client[c].pc = "find" THEN "check" ELSE "raise"
             r == [client[c] EXCEPT !.sm = cache, !.pc = step]
  <2>1. cache \in Machines
    BY <1>6 DEF CInv, TypeOK
  <2>2. client'[c] = r
    BY <1>2, <1>6 DEF ClientRecords
  <2>3. /\ r \in ClientRecords /\ r.pc = step /\ r.sm = cache
        /\ r.kind = client[c].kind /\ r.rel = client[c].rel
    BY <1>2, <2>1 DEF ClientRecords
  <2> HIDE DEF r
  <2>4. /\ client'[c] # None /\ client'[c].pc = step /\ client'[c].sm = cache
        /\ client'[c].kind = client[c].kind /\ client'[c].rel = client[c].rel
    BY <2>2, <2>3, NoneAssumption
  <2>5. StoredAtRest' /\ CachedAsStored'
    BY <1>1, <1>3, <1>4, <1>6, StillShared DEF SInv, StoredAtRest, CachedAsStored, InSteps
  <2>6. (Quiet' <=> Quiet) /\ cache' = cache
    BY <1>3, <1>6, StillShared
  <2>7. client'[c].kind = "admit" => client'[c].pc = "check"
    BY <1>1, <1>6, <2>4 DEF HandlerFacts
  <2>8. client'[c].pc \in {"check", "raise"}
    BY <2>4
  <2>9. HandlerFacts(c)'
    BY <1>1, <1>3, <1>5, <2>4, <2>6, <2>7, <2>8 DEF HandlerFacts
  <2>10. Handled' /\ Watched'
    BY <1>1, <1>3, <1>4, <2>9 DEF Handled, Watched
  <2> QED
    BY <1>3, <1>6, <2>5, <2>10, StillShared DEF SInv
<1>7. ASSUME NEW m \in Machines, cache = None, Unused(m), NewMachine(m, client[c].rel),
             client' = [client EXCEPT ![c].sm = m,
                 ![c].pc = IF @ = "find" THEN "insertFound" ELSE "insert"]
      PROVE  SInv'
  <2> DEFINE step == IF client[c].pc = "find" THEN "insertFound" ELSE "insert"
             r == [client[c] EXCEPT !.sm = m, !.pc = step]
  <2>1. client'[c] = r
    BY <1>2, <1>7 DEF ClientRecords
  <2>2. /\ r \in ClientRecords /\ r.pc = step /\ r.sm = m
        /\ r.kind = client[c].kind /\ r.rel = client[c].rel
    BY <1>2 DEF ClientRecords
  <2> HIDE DEF r
  <2>3. /\ client'[c] # None /\ client'[c].pc = step /\ client'[c].sm = m
        /\ client'[c].kind = client[c].kind /\ client'[c].rel = client[c].rel
    BY <2>1, <2>2, NoneAssumption
  <2>4. /\ machine'[m].config = client[c].rel.config
        /\ ~machine'[m].saving
        /\ client[c].rel.state \in Active => machine'[m].fsm = client[c].rel.state
        /\ \A n \in Machines \ {m} : machine'[n] = machine[n]
    BY <1>7 DEF NewMachine, CInv, TypeOK, Active
  <2>5. running[m] = {} /\ ~machine[m].saving
    BY <1>7 DEF Unused
  <2>6. \A n \in Machines : Works(n)' <=> Works(n)
    BY <1>3, <2>4, <2>5 DEF Works
  <2>7. (Quiet' <=> Quiet) /\ ~Works(m)'
    BY <1>3, <2>4, <2>5, <2>6 DEF Quiet, Works
  <2>8. /\ AtMostOne'
        /\ OnePerMachine' /\ StoreFollows' /\ ErasedAtRest'
    <3>1. AtMostOne'
      BY <2>6 DEF SInv, AtMostOne
    <3>2. OnePerMachine' /\ ErasedAtRest'
      BY <1>3, <2>4, <2>5 DEF SInv, OnePerMachine, ErasedAtRest
    <3>3. StoreFollows'
      BY <1>3, <2>4, <2>5 DEF SInv, StoreFollows
    <3> QED
      BY <3>1, <3>2, <3>3
  <2>9. WorksAsStored'
    BY <1>3, <2>4, <2>6, <2>7 DEF SInv, WorksAsStored
  <2>10. StoredAtRest' /\ CachedAsStored'
    BY <1>1, <1>3, <1>4, <1>7, <2>7 DEF SInv, StoredAtRest, CachedAsStored, InSteps
  <2>11. Handled' /\ Watched'
    BY <1>1, <1>3, <1>4, <1>5, <2>3, <2>4, <2>7 DEF Handled, Watched, HandlerFacts
  <2> QED
    BY <2>8, <2>9, <2>10, <2>11 DEF SInv
<1> QED
  BY <1>6, <1>7 DEF GetStateMachine

\* What is put in the map has the configuration that is stored.
LEMMA InsertKeepsSafe ==
    ASSUME CInv, CInv', SInv, Serial, NEW c \in Clients, Insert(c)
    PROVE  SInv'
<1> DEFINE step == IF At(c, "insertFound") THEN "check" ELSE "raise"
<1>1. /\ client[c] # None /\ client[c].pc \in {"insertFound", "insert"} /\ HandlerFacts(c)
      /\ watcher[c] = None
  BY DEF Insert, At, SInv, Handled, Watched, WatcherFacts
<1>2. cache' = client[c].sm /\ UNCHANGED <<store, machine, running, watcher>>
      /\ Goto(c, step)
  BY DEF Insert
<1>3. /\ store # None /\ store.config = client[c].rel.config
      /\ machine[client[c].sm].config = client[c].rel.config
  BY <1>1 DEF HandlerFacts
<1>4. /\ client'[c] # None /\ client'[c].pc = step
      /\ client'[c].kind = client[c].kind
      /\ client'[c].rel = client[c].rel /\ client'[c].sm = client[c].sm
  BY <1>1, <1>2, GoesOn
<1>5. \A d \in Clients : d = c
  BY DEF Serial
<1>6. /\ client'[c].pc \in {"check", "raise"}
      /\ client'[c].pc = "raise" => client[c].pc = "insert"
  BY <1>1, <1>4 DEF At
<1> HIDE DEF step
<1>7. (Quiet' <=> Quiet) /\ (Works(client[c].sm)' <=> Works(client[c].sm))
  BY <1>2, <1>4 DEF Quiet, Works
<1>8. OnePerMachine' /\ AtMostOne' /\ StoreFollows' /\ WorksAsStored'
  BY <1>2 DEF SInv, OnePerMachine, AtMostOne, StoreFollows, WorksAsStored, Works
<1>9. ErasedAtRest' /\ CachedAsStored'
  BY <1>2, <1>3 DEF ErasedAtRest, CachedAsStored
<1>10. StoredAtRest'
  BY <1>1, <1>2, <1>5, <1>7 DEF SInv, StoredAtRest, InSteps
<1>11. HandlerFacts(c)'
  BY <1>1, <1>2, <1>3, <1>4, <1>6, <1>7 DEF HandlerFacts
<1>12. Handled' /\ Watched'
  BY <1>1, <1>2, <1>5, <1>11 DEF Handled, Watched
<1> QED
  BY <1>8, <1>9, <1>10, <1>12 DEF SInv

\* Nothing but the decision is made where a release is admitted.
LEMMA CheckKeepsSafe ==
    ASSUME CInv, CInv', SInv, Serial, NEW c \in Clients, Check(c)
    PROVE  SInv'
<1>1. /\ client[c] # None /\ client[c].pc = "check" /\ HandlerFacts(c)
      /\ watcher[c] = None
  BY DEF Check, At, SInv, Handled, Watched, WatcherFacts
<1>2. UNCHANGED <<store, cache, machine, running, watcher>>
      /\ (Goto(c, "drop") \/ Return(c))
  BY DEF Check
<1>3. \A d \in Clients : d = c
  BY DEF Serial
<1>4. StoredAtRest' /\ CachedAsStored'
  BY <1>1, <1>2, <1>3, StillShared DEF SInv, StoredAtRest, CachedAsStored, InSteps
<1>5. CASE Return(c)
  BY <1>1, <1>2, <1>3, <1>4, <1>5, Returned, StillShared DEF SInv, Handled, Watched
<1>6. CASE Goto(c, "drop")
  <2>1. /\ client'[c] # None /\ client'[c].pc = "drop"
        /\ client'[c].kind = client[c].kind
        /\ client'[c].rel = client[c].rel /\ client'[c].sm = client[c].sm
    BY <1>1, <1>6, GoesOn
  <2>2. Quiet' <=> Quiet
    BY <1>2, StillShared
  <2>3. HandlerFacts(c)'
    BY <1>1, <1>2, <2>1, <2>2 DEF HandlerFacts
  <2>4. Handled' /\ Watched'
    BY <1>1, <1>2, <1>3, <2>3 DEF Handled, Watched
  <2> QED
    BY <1>2, <1>4, <2>4, StillShared DEF SInv
<1> QED
  BY <1>2, <1>5, <1>6

\* The machine of the map starts to work, on what is stored, when nothing else
\* does, and its handler waits for it.
LEMMA StartKeepsSafe ==
    ASSUME CInv, CInv', SInv, Serial, NEW c \in Clients, NEW m \in Machines, NEW e \in Events,
           Quiet, CanRaise(m, e), Entered(m, e), Begun(m, e, running[m]),
           m = cache, client[c] # None, client[c].sm = m, HandlerFacts(c),
           client[c].pc \in {"raise", "saved"},
           NEW step \in {"saved", "followed"}, Goto(c, step),
           UNCHANGED <<store, cache, watcher>>
    PROVE  SInv'
<1>1. /\ client'[c] # None /\ client'[c].pc = step
      /\ client'[c].kind = client[c].kind
      /\ client'[c].rel = client[c].rel /\ client'[c].sm = m
  BY GoesOn
<1>2. /\ machine'[m].fsm = Target(machine[m].fsm, e)
      /\ machine'[m].saving /\ machine'[m].config = machine[m].config
      /\ \A n \in Machines \ {m} : machine'[n] = machine[n]
  <2>1. machine[m] \in MachineRecords /\ machine \in [Machines -> MachineRecords]
    BY DEF CInv, TypeOK
  <2>2. machine'[m].saving /\ machine'[m].config = machine[m].config
    BY <2>1 DEF Entered, MachineRecords
  <2> QED
    BY <2>2, EnteredTyped DEF CanRaise, CInv
<1>3. running[m] = {} /\ ~machine[m].saving
  BY DEF Quiet, Works
<1>4. /\ running'[m] \subseteq {machine'[m].fsm}
      /\ \A n \in Machines \ {m} : running'[n] = running[n]
  <2>1. running[m] \in SUBSET Active
    BY DEF CInv, TypeOK
  <2> QED
    BY <1>2, <1>3, <2>1, BegunTyped DEF CInv
<1>5. \A n \in Machines \ {m} : ~Works(n)' /\ running'[n] = {}
  BY <1>2, <1>4 DEF Quiet, Works
<1>6. store # None /\ store.config = client[c].rel.config /\ watcher[c] = None
  BY DEF HandlerFacts, SInv, Watched, WatcherFacts
<1>7. \A d \in Clients : d = c
  BY DEF Serial
<1>8. machine[m].config = store.config
  BY <1>6, <1>7, NoneAssumption DEF SInv, CachedAsStored, InSteps
<1>9. OnePerMachine' /\ AtMostOne' /\ ErasedAtRest'
  BY <1>4, <1>5, <1>6 DEF OnePerMachine, AtMostOne, ErasedAtRest
<1>10. StoreFollows' /\ WorksAsStored'
  BY <1>2, <1>5, <1>8 DEF StoreFollows, WorksAsStored
<1>11. StoredAtRest' /\ CachedAsStored'
  BY <1>1, <1>2, <1>8 DEF StoredAtRest, CachedAsStored, InSteps
<1>12. QuietBut(m)'
  BY <1>5 DEF QuietBut
<1>13. HandlerFacts(c)'
  BY <1>1, <1>6, <1>12 DEF HandlerFacts
<1>14. Handled' /\ Watched'
  BY <1>6, <1>7, <1>13 DEF Handled, Watched
<1> QED
  BY <1>9, <1>10, <1>11, <1>14 DEF SInv

\* An event is accepted when nothing works: an update and a deletion come to a
\* release at rest, and a release that was not at rest when it was admitted has
\* its machine in a state that refuses a deployment.
LEMMA RaiseKeepsSafe ==
    ASSUME CInv, CInv', SInv, Serial, NEW c \in Clients, Raise(c)
    PROVE  SInv'
<1> DEFINE m == client[c].sm
           event == Request[client[c].kind]
<1>1. /\ client[c] # None /\ client[c].pc = "raise" /\ HandlerFacts(c)
      /\ watcher[c] = None /\ client[c].kind # "list"
  BY DEF Raise, At, SInv, Handled, Watched, WatcherFacts
<1>2. client[c] \in ClientRecords /\ client[c].kind \in Requests /\ m \in Machines
  BY <1>1 DEF CInv, TypeOK, Handlers, Holding
<1>3. event \in Events /\ client[c].kind \in {"admit", "reconcile", "delete"}
  BY <1>1, <1>2, RequestIsEvent DEF ClientRecords, RequestKinds, Serial
<1>4. UNCHANGED <<store, cache, watcher>>
  BY DEF Raise
<1>5. \A d \in Clients : d = c
  BY DEF Serial
<1>6. m = cache
  BY <1>1 DEF HandlerFacts
<1>7. \/ CanRaise(m, event) /\ Entered(m, event) /\ Begun(m, event, running[m])
         /\ Goto(c, "saved")
      \/ Return(c) /\ UNCHANGED <<machine, running>>
  BY DEF Raise
<1>8. client[c].kind = "admit" => event = "deploy"
  BY DEF Request
<1> HIDE DEF m, event
<1>9. CASE CanRaise(m, event) /\ Entered(m, event) /\ Begun(m, event, running[m])
           /\ Goto(c, "saved")
  <2>1. client[c].rel.state \notin Active
    <3>1. CASE client[c].kind = "admit"
      <4>1. machine[m].fsm \in States
        BY <1>2 DEF CInv, TypeOK, MachineRecords
      <4>2. machine[m].fsm \notin Active
        BY <1>8, <1>9, <3>1, <4>1, RequestAtRest DEF CanRaise
      <4> QED
        BY <1>1, <3>1, <4>2 DEF HandlerFacts, m
    <3>2. CASE client[c].kind \in {"reconcile", "delete"}
      BY <1>1, <3>2 DEF HandlerFacts, Active
    <3> QED
      BY <1>3, <3>1, <3>2
  <2>2. Quiet
    BY <1>1, <2>1 DEF HandlerFacts
  <2> QED
    BY <1>1, <1>2, <1>3, <1>4, <1>6, <1>9, <2>2, StartKeepsSafe DEF m
<1>10. CASE Return(c) /\ UNCHANGED <<machine, running>>
  <2>1. StoredAtRest' /\ CachedAsStored'
    BY <1>1, <1>4, <1>5, <1>10, StillShared DEF SInv, StoredAtRest, CachedAsStored, InSteps
  <2> QED
    BY <1>1, <1>4, <1>5, <1>10, <2>1, Returned, StillShared DEF SInv, Handled, Watched
<1> QED
  BY <1>7, <1>9, <1>10

\* Once its event has returned, the machine that runs something has that in the
\* KV.
LEMMA SettledAtRest ==
    ASSUME CInv, SInv, NEW c \in Clients, InSteps(c, {"saved", "followed"}), HandlerFacts(c),
           ~machine[client[c].sm].saving
    PROVE  /\ store # None /\ client[c].sm \in Machines /\ client[c].sm = cache
           /\ QuietBut(client[c].sm)
           /\ store.state \notin Active => Quiet
<1> DEFINE m == client[c].sm
<1>1. store # None /\ m = cache /\ QuietBut(m)
  BY DEF HandlerFacts, InSteps
<1>2. m \in Machines
  BY DEF InSteps, CInv, Handlers, Holding
<1>3. ~machine[m].saving
  OBVIOUS
<1> HIDE DEF m
<1>4. ASSUME running[m] # {}
      PROVE  store.state \in Active
  <2>1. store.state = machine[m].fsm
    BY <1>2, <1>3, <1>4 DEF SInv, StoreFollows
  <2>2. machine[m].fsm \in running[m] /\ running[m] \subseteq Active
    BY <1>2, <1>4 DEF SInv, OnePerMachine, CInv, TypeOK
  <2> QED
    BY <2>1, <2>2
<1>5. store.state \notin Active => Quiet
  BY <1>1, <1>3, <1>4 DEF Quiet, QuietBut, Works
<1> QED
  BY <1>1, <1>2, <1>5 DEF m

\* A handler whose event has returned is gone, and a deletion is waited for.
LEMMA LeavesKeepsSafe ==
    ASSUME CInv, CInv', SInv, Serial, NEW c \in Clients, InSteps(c, {"saved", "followed"}),
           HandlerFacts(c), ~machine[client[c].sm].saving, Return(c),
           UNCHANGED <<store, cache, machine, running>>,
           \/ watcher' = watcher
           \/ watcher' = [watcher EXCEPT ![c] = [sm |-> client[c].sm, pc |-> "poll"]]
    PROVE  SInv'
<1>1. client'[c] = None
  BY Returned
<1>2. \A d \in Clients : d = c
  BY DEF Serial
<1>3. watcher[c] = None
  BY DEF SInv, Watched, WatcherFacts, InSteps
<1>4. /\ QuietBut(client[c].sm)
      /\ store.state \notin Active => Quiet
  BY SettledAtRest
<1>5. StoredAtRest' /\ CachedAsStored'
  <2>1. \A d \in Clients : ~InSteps(d, {"drop"})
    BY <1>2 DEF InSteps
  <2> QED
    BY <1>4, <2>1, StillShared DEF SInv, StoredAtRest, CachedAsStored
<1>6. Handled'
  BY <1>1, <1>2 DEF Handled
<1>7. Watched'
  <2>1. \/ watcher'[c] = None
        \/ watcher'[c].sm = client[c].sm /\ watcher'[c].pc = "poll"
    BY <1>3 DEF CInv, TypeOK
  <2>2. \A n \in Machines \ {client[c].sm} : ~Works(n)'
    BY <1>4 DEF QuietBut, Works
  <2> QED
    BY <1>1, <1>2, <2>1, <2>2 DEF Watched, WatcherFacts, QuietBut
<1> QED
  BY <1>5, <1>6, <1>7, StillShared DEF SInv

\* The update that is stored is deployed by the machine that stored it, which is
\* idle.
LEMMA ReplyKeepsSafe ==
    ASSUME CInv, CInv', SInv, Serial, NEW c \in Clients, Reply(c)
    PROVE  SInv'
<1> DEFINE m == client[c].sm
<1>1. /\ client[c] # None /\ client[c].pc = "saved" /\ HandlerFacts(c)
      /\ ~machine[m].saving
  BY DEF Reply, At, SInv, Handled
<1>2. InSteps(c, {"saved", "followed"})
  BY <1>1 DEF InSteps
<1>3. m \in Machines /\ m = cache /\ QuietBut(m)
  BY <1>1, <1>2, SettledAtRest
<1>4. UNCHANGED <<store, cache>>
  BY DEF Reply
<1>5. \/ /\ client[c].kind = "reconcile" /\ machine[m].fsm = "idle"
         /\ Entered(m, "deploy") /\ Begun(m, "deploy", running[m])
         /\ Goto(c, "followed") /\ watcher' = watcher
      \/ /\ Return(c) /\ UNCHANGED <<machine, running>>
         /\ \/ watcher' = watcher
            \/ watcher' = [watcher EXCEPT ![c] = [sm |-> m, pc |-> "poll"]]
  BY DEF Reply
<1> HIDE DEF m
<1>6. CASE /\ client[c].kind = "reconcile" /\ machine[m].fsm = "idle"
           /\ Entered(m, "deploy") /\ Begun(m, "deploy", running[m])
           /\ Goto(c, "followed") /\ watcher' = watcher
  <2>1. running[m] \subseteq {"idle"} /\ running[m] \subseteq Active
    BY <1>3, <1>6 DEF SInv, OnePerMachine, CInv, TypeOK
  <2>2. running[m] = {}
    BY <2>1 DEF Active
  <2>3. Quiet
    BY <1>1, <1>3, <2>2 DEF Quiet, QuietBut, Works, m
  <2>4. "deploy" \in Events /\ CanRaise(m, "deploy")
    BY <1>1, <1>6 DEF Events, CanRaise, Accepts, Sources, m
  <2> QED
    BY <1>1, <1>3, <1>4, <1>6, <2>3, <2>4, StartKeepsSafe DEF m
<1>7. CASE /\ Return(c) /\ UNCHANGED <<machine, running>>
           /\ \/ watcher' = watcher
              \/ watcher' = [watcher EXCEPT ![c] = [sm |-> m, pc |-> "poll"]]
  BY <1>1, <1>2, <1>4, <1>7, LeavesKeepsSafe DEF m
<1> QED
  BY <1>5, <1>6, <1>7

\* A handler that has listed the release, or deployed an update, returns.
LEMMA ListedKeepsSafe ==
    ASSUME CInv, CInv', SInv, Serial, NEW c \in Clients, Listed(c)
    PROVE  SInv'
<1>1. /\ client[c] # None /\ HandlerFacts(c) /\ Return(c) /\ watcher[c] = None
      /\ UNCHANGED <<store, cache, machine, running, watcher>>
  BY DEF Listed, At, SInv, Handled, Watched, WatcherFacts
<1>2. CASE client[c].pc = "raise"
  <2>1. \A d \in Clients : d = c
    BY DEF Serial
  <2>2. StoredAtRest' /\ CachedAsStored'
    BY <1>1, <1>2, <2>1, StillShared DEF SInv, StoredAtRest, CachedAsStored, InSteps
  <2> QED
    BY <1>1, <2>1, <2>2, Returned, StillShared DEF SInv, Handled, Watched
<1>3. CASE client[c].pc = "followed" /\ ~machine[client[c].sm].saving
  <2>1. InSteps(c, {"saved", "followed"})
    BY <1>1, <1>3 DEF InSteps
  <2> QED
    BY <1>1, <1>3, <2>1, LeavesKeepsSafe
<1> QED
  BY <1>2, <1>3 DEF Listed, At

\* A machine that ends a goroutine may begin the next one, and remains the only
\* one that works.
LEMMA OperateKeepsSafe ==
    ASSUME CInv, CInv', SInv, NEW m \in Machines, Operate(m)
    PROVE  SInv'
<1>1. UNCHANGED <<store, cache, client, watcher>> /\ running[m] # {}
  BY DEF Operate
<1>2. PICK kind \in running[m], event \in Events :
          \/ CanRaise(m, event) /\ Entered(m, event)
             /\ Begun(m, event, running[m] \ {kind})
          \/ machine' = machine /\ running' = [running EXCEPT ![m] = @ \ {kind}]
  BY OperateCases
<1>3. /\ running[m] \ {kind} = {}
      /\ machine \in [Machines -> MachineRecords] /\ running \in [Machines -> SUBSET Active]
  BY DEF SInv, OnePerMachine, CInv, TypeOK
<1>4. Works(m) /\ (\A n \in Machines \ {m} : ~Works(n)) /\ store # None
  BY <1>1 DEF Works, SInv, AtMostOne, ErasedAtRest
<1>5. /\ machine'[m].config = machine[m].config
      /\ \A n \in Machines \ {m} : machine'[n] = machine[n] /\ running'[n] = running[n]
      /\ running'[m] \subseteq {machine'[m].fsm}
      /\ running'[m] # {} => machine'[m].saving
  <2>1. CASE CanRaise(m, event) /\ Entered(m, event) /\ Begun(m, event, running[m] \ {kind})
    <3>1. machine'[m].config = machine[m].config /\ machine'[m].saving
      BY <1>3, <2>1 DEF Entered, MachineRecords
    <3>2. /\ machine'[m].fsm = Target(machine[m].fsm, event)
          /\ \A n \in Machines \ {m} : machine'[n] = machine[n]
      BY <2>1, EnteredTyped DEF CanRaise, CInv
    <3>3. /\ running'[m] \subseteq {Target(machine[m].fsm, event)}
          /\ \A n \in Machines \ {m} : running'[n] = running[n]
      BY <1>3, <2>1, BegunTyped DEF CInv
    <3> QED
      BY <3>1, <3>2, <3>3
  <2>2. CASE machine' = machine /\ running' = [running EXCEPT ![m] = @ \ {kind}]
    BY <1>3, <2>2
  <2> QED
    BY <1>2, <2>1, <2>2
<1>6. \A n \in Machines \ {m} : ~Works(n)' /\ running'[n] = {}
  BY <1>4, <1>5 DEF Works
<1>7. OnePerMachine' /\ AtMostOne' /\ ErasedAtRest'
  BY <1>1, <1>4, <1>5, <1>6 DEF OnePerMachine, AtMostOne, ErasedAtRest
<1>8. StoreFollows' /\ WorksAsStored'
  BY <1>1, <1>4, <1>5, <1>6 DEF StoreFollows, SInv, WorksAsStored
<1>9. StoredAtRest' /\ CachedAsStored'
  <2>1. StoredAtRest'
    BY <1>1, <1>4 DEF SInv, StoredAtRest, Quiet, InSteps
  <2>2. cache \in Machines \cup {None}
    BY DEF CInv, TypeOK
  <2>3. CachedAsStored'
    BY <1>1, <1>5, <2>2 DEF SInv, CachedAsStored, InSteps
  <2> QED
    BY <2>1, <2>3
<1>10. ASSUME NEW c \in Clients, client'[c] # None
       PROVE  HandlerFacts(c)'
  <2>1. HandlerFacts(c) /\ client[c] # None
    BY <1>1, <1>10 DEF SInv, Handled
  <2>2. ~Quiet
    BY <1>4 DEF Quiet
  <2>3. ASSUME client[c].pc \in {"saved", "followed"}
        PROVE  QuietBut(client[c].sm)'
    <3>1. client[c].sm = m
      BY <1>4, <2>1, <2>3 DEF HandlerFacts, QuietBut
    <3>2. QuietBut(m)'
      BY <1>6 DEF QuietBut
    <3> QED
      BY <1>1, <3>1, <3>2 DEF QuietBut, Works
  <2>4. ASSUME client[c].pc \in Holding, ~Works(client[c].sm)
        PROVE  ~Works(client[c].sm)' /\ machine'[client[c].sm] = machine[client[c].sm]
    <3>1. client[c].sm \in Machines \ {m}
      BY <1>4, <2>1, <2>4 DEF CInv, Handlers
    <3> QED
      BY <1>1, <1>5, <1>6, <3>1 DEF Works
  <2> QED
    BY <1>1, <2>1, <2>2, <2>3, <2>4 DEF HandlerFacts, Holding
<1>11. ASSUME NEW c \in Clients, watcher'[c] # None
       PROVE  WatcherFacts(c)'
  <2>1. WatcherFacts(c)
    BY <1>1, <1>11 DEF SInv, Watched
  <2>2. watcher[c].sm = m /\ watcher[c].pc \notin {"drop", "erase"}
    BY <1>1, <1>4, <2>1 DEF WatcherFacts, QuietBut
  <2> QED
    BY <1>1, <1>6, <2>1, <2>2 DEF WatcherFacts, QuietBut
<1>12. Handled' /\ Watched'
  BY <1>10, <1>11 DEF Handled, Watched
<1> QED
  BY <1>7, <1>8, <1>9, <1>12 DEF SInv

\* The machine's last callback stores what it works on, and nothing works on if
\* that is a state at rest.  It may store the release again that has just been
\* removed, with the configuration it had.
LEMMA SaveKeepsSafe ==
    ASSUME CInv, CInv', SInv, Serial, NEW m \in Machines, Save(m)
    PROVE  SInv'
<1>1. /\ machine[m].saving /\ UNCHANGED <<cache, running, client, watcher>>
      /\ store' = [state |-> machine[m].fsm, config |-> machine[m].config]
  BY DEF Save, Serial
<1>2. /\ machine'[m].fsm = machine[m].fsm /\ machine'[m].config = machine[m].config
      /\ ~machine'[m].saving
      /\ \A n \in Machines \ {m} : machine'[n] = machine[n]
  BY DEF Save, CInv, TypeOK, MachineRecords
<1>3. Works(m) /\ \A n \in Machines \ {m} : ~Works(n)
  BY <1>1 DEF Works, SInv, AtMostOne
<1>4. store' # None /\ store'.state = machine[m].fsm /\ store'.config = machine[m].config
  <2>1. store' \in Releases
    BY <1>1 DEF CInv, TypeOK, MachineRecords, Releases, StoredStates
  <2> QED
    BY <1>1, <2>1, NoneAssumption
<1>5. \A n \in Machines \ {m} : ~Works(n)' /\ running'[n] = {}
  BY <1>1, <1>2, <1>3 DEF Works
<1>6. running[m] \subseteq {machine[m].fsm} /\ running[m] \subseteq Active
  BY DEF SInv, OnePerMachine, CInv, TypeOK
<1>7. OnePerMachine' /\ AtMostOne' /\ ErasedAtRest'
  BY <1>1, <1>2, <1>4, <1>5, <1>6 DEF OnePerMachine, AtMostOne, ErasedAtRest
<1>8. StoreFollows' /\ WorksAsStored'
  BY <1>1, <1>2, <1>4, <1>5 DEF StoreFollows, WorksAsStored
<1>9. StoredAtRest'
  <2>1. ASSUME store'.state \notin Active
        PROVE  Quiet'
    <3>1. running'[m] = {}
      BY <1>1, <1>4, <1>6, <2>1
    <3> QED
      BY <1>2, <1>5, <3>1 DEF Quiet, Works
  <2> QED
    BY <2>1 DEF StoredAtRest
<1>10. store # None => store'.config = store.config
  BY <1>3, <1>4 DEF SInv, WorksAsStored
<1>11. CachedAsStored'
  <2>1. CASE store = None
    BY <1>1, <2>1 DEF SInv, ErasedAtRest, CachedAsStored
  <2>2. CASE store # None
    <3>1. cache # None => machine'[cache].config = machine[cache].config
      BY <1>2 DEF CInv, TypeOK
    <3> QED
      BY <1>1, <1>10, <2>2, <3>1 DEF SInv, CachedAsStored, InSteps
  <2> QED
    BY <2>1, <2>2
<1>12. ASSUME NEW c \in Clients, client'[c] # None
       PROVE  HandlerFacts(c)'
  <2>1. HandlerFacts(c) /\ client[c] # None
    BY <1>1, <1>12 DEF SInv, Handled
  <2>2. ~Quiet
    BY <1>3 DEF Quiet
  <2>3. ASSUME client[c].pc \in {"saved", "followed"}
        PROVE  QuietBut(client[c].sm)'
    <3>1. client[c].sm = m
      BY <1>3, <2>1, <2>3 DEF HandlerFacts, QuietBut
    <3>2. QuietBut(m)'
      BY <1>5 DEF QuietBut
    <3> QED
      BY <1>1, <3>1, <3>2 DEF QuietBut, Works
  <2>4. ASSUME client[c].pc \in Holding, ~Works(client[c].sm)
        PROVE  ~Works(client[c].sm)' /\ machine'[client[c].sm] = machine[client[c].sm]
    <3>1. client[c].sm \in Machines \ {m}
      BY <1>3, <2>1, <2>4 DEF CInv, Handlers
    <3> QED
      BY <1>1, <1>2, <1>5, <3>1 DEF Works
  <2> QED
    BY <1>1, <1>4, <1>10, <2>1, <2>2, <2>3, <2>4 DEF HandlerFacts, Holding
<1>13. ASSUME NEW c \in Clients, watcher'[c] # None
       PROVE  WatcherFacts(c)'
  <2>1. WatcherFacts(c)
    BY <1>1, <1>13 DEF SInv, Watched
  <2>2. watcher[c].sm = m
    BY <1>3, <2>1 DEF WatcherFacts, QuietBut, CInv, TypeOK, WatcherRecords
  <2> QED
    BY <1>1, <1>5, <2>1, <2>2 DEF WatcherFacts, QuietBut
<1>14. Handled' /\ Watched'
  BY <1>12, <1>13 DEF Handled, Watched
<1> QED
  BY <1>7, <1>8, <1>9, <1>11, <1>14 DEF SInv

\* A deletion is over when its machine is idle or has failed: the release is
\* removed from the map, and then from the KV, when nothing runs.
LEMMA WatcherKeepsSafe ==
    ASSUME CInv, CInv', SInv, Serial, NEW c \in Clients, WatcherStep(c)
    PROVE  SInv'
<1>1. watcher[c] \in WatcherRecords /\ WatcherFacts(c) /\ watcher[c] # None
      /\ watcher \in [Clients -> WatcherRecords \cup {None}]
  BY DEF CInv, TypeOK, WatcherStep, WatchPoll, WatchDrop, WatchErase, SInv, Watched
<1>2. \A d \in Clients : d = c
  BY DEF Serial
<1>3. client[c] = None /\ UNCHANGED <<machine, running, client>>
  BY <1>1 DEF WatcherStep, WatchPoll, WatchDrop, WatchErase, WatcherFacts
<1>4. Handled'
  BY <1>2, <1>3 DEF Handled
<1>5. /\ OnePerMachine' /\ AtMostOne'
      /\ Quiet' <=> Quiet
      /\ \A n \in Machines : Works(n)' <=> Works(n)
  BY <1>3 DEF SInv, OnePerMachine, AtMostOne, Quiet, Works
<1>6. watcher[c].sm \in Machines
  BY <1>1 DEF WatcherRecords
<1>7. CASE WatchPoll(c)
  <2>1. UNCHANGED <<store, cache, machine, running, client>>
    BY <1>7 DEF WatchPoll
  <2>2. \/ watcher'[c] = None
        \/ machine[watcher[c].sm].fsm = "idle" /\ watcher' = [watcher EXCEPT ![c].pc = "drop"]
    BY <1>1, <1>7 DEF WatchPoll
  <2>3. ASSUME machine[watcher[c].sm].fsm = "idle",
               watcher' = [watcher EXCEPT ![c].pc = "drop"]
        PROVE  WatcherFacts(c)'
    <3>1. watcher'[c].sm = watcher[c].sm /\ watcher'[c].pc = "drop"
      BY <1>1, <2>3 DEF WatcherRecords
    <3>2. running[watcher[c].sm] = {}
      BY <1>6, <2>3 DEF SInv, OnePerMachine, CInv, TypeOK, Active
    <3>3. \A n \in Machines : running[n] = {}
      BY <1>1, <3>2 DEF WatcherFacts, QuietBut, Works
    <3> QED
      BY <1>1, <1>3, <1>5, <3>1, <3>3 DEF WatcherFacts, QuietBut
  <2>4. Watched'
    BY <1>2, <2>2, <2>3 DEF Watched
  <2>5. StoredAtRest' /\ CachedAsStored'
    BY <1>5, <2>1 DEF SInv, StoredAtRest, CachedAsStored, InSteps
  <2> QED
    BY <1>4, <2>1, <2>4, <2>5, StillShared DEF SInv
<1>8. CASE WatchDrop(c)
  <2>1. store' = store /\ cache' = None /\ watcher[c].pc = "drop"
        /\ watcher' = [watcher EXCEPT ![c].pc = "erase"]
    BY <1>8 DEF WatchDrop
  <2>2. watcher'[c].sm = watcher[c].sm /\ watcher'[c].pc = "erase"
    BY <1>1, <2>1 DEF WatcherRecords
  <2>3. WatcherFacts(c)'
    BY <1>1, <1>3, <1>5, <2>1, <2>2 DEF WatcherFacts, QuietBut
  <2>4. Watched'
    BY <1>2, <2>3 DEF Watched
  <2>5. StoreFollows' /\ ErasedAtRest' /\ WorksAsStored'
    BY <1>3, <1>5, <2>1 DEF SInv, StoreFollows, ErasedAtRest, WorksAsStored
  <2>6. StoredAtRest' /\ CachedAsStored'
    BY <1>3, <1>5, <2>1 DEF SInv, StoredAtRest, CachedAsStored, InSteps
  <2> QED
    BY <1>4, <1>5, <2>4, <2>5, <2>6 DEF SInv
<1>9. CASE WatchErase(c)
  <2>1. store' = None /\ cache' = cache /\ watcher[c].pc = "erase"
        /\ watcher' = [watcher EXCEPT ![c] = None]
    BY <1>9 DEF WatchErase, Serial
  <2>2. cache = None /\ \A n \in Machines : running[n] = {}
    BY <1>1, <2>1 DEF WatcherFacts
  <2>3. Watched'
    BY <1>1, <1>2, <2>1 DEF Watched
  <2>4. StoreFollows' /\ ErasedAtRest' /\ WorksAsStored'
    BY <1>3, <2>1, <2>2 DEF StoreFollows, ErasedAtRest, WorksAsStored
  <2>5. StoredAtRest' /\ CachedAsStored'
    BY <2>1 DEF StoredAtRest, CachedAsStored
  <2> QED
    BY <1>4, <1>5, <2>3, <2>4, <2>5 DEF SInv
<1> QED
  BY <1>7, <1>8, <1>9 DEF WatcherStep

\* After a crash nothing works, and nobody waits.
LEMMA CrashKeepsSafe ==
    ASSUME CInv, SInv, Crash
    PROVE  SInv'
<1>1. /\ store' = store /\ cache' = None
      /\ running' = [m \in Machines |-> {}]
      /\ client' = [c \in Clients |-> None] /\ watcher' = [c \in Clients |-> None]
      /\ machine' = [m \in Machines |-> [machine[m] EXCEPT !.saving = FALSE]]
  BY DEF Crash
<1>2. \A m \in Machines : ~machine'[m].saving
  BY <1>1 DEF CInv, TypeOK, MachineRecords
<1>3. \A m \in Machines : ~Works(m)' /\ running'[m] = {}
  BY <1>1, <1>2 DEF Works
<1>4. OnePerMachine' /\ AtMostOne' /\ StoreFollows' /\ ErasedAtRest' /\ WorksAsStored'
  BY <1>1, <1>3 DEF OnePerMachine, AtMostOne, StoreFollows, ErasedAtRest, WorksAsStored
<1>5. StoredAtRest' /\ CachedAsStored'
  BY <1>1, <1>3 DEF StoredAtRest, Quiet, CachedAsStored
<1>6. Handled' /\ Watched'
  BY <1>1 DEF Handled, Watched
<1> QED
  BY <1>4, <1>5, <1>6 DEF SInv

\* The controller starts with nothing.
LEMMA InitSafe ==
    ASSUME Init
    PROVE  SInv
<1>1. \A m \in Machines : running[m] = {} /\ ~machine[m].saving
  BY DEF Init
<1>2. \A m \in Machines : ~Works(m)
  BY <1>1 DEF Works
<1> QED
  BY <1>1, <1>2 DEF Init, SInv, OnePerMachine, AtMostOne, StoreFollows, ErasedAtRest,
                    StoredAtRest, WorksAsStored, CachedAsStored, Handled, Watched

\* Every step keeps the invariant.
LEMMA NextKeepsSafe ==
    ASSUME CInv, CInv', SInv, Serial, [Next]_vars
    PROVE  SInv'
<1>1. ASSUME NEW c \in Clients, HandlerStep(c)
      PROVE  SInv'
  BY <1>1, UpsertKeepsSafe, DropKeepsSafe, GetStateMachineKeepsSafe, InsertKeepsSafe,
     CheckKeepsSafe, RaiseKeepsSafe, ReplyKeepsSafe, ListedKeepsSafe DEF HandlerStep
<1>2. ASSUME NEW m \in Machines, MachineStep(m)
      PROVE  SInv'
  BY <1>2, OperateKeepsSafe, SaveKeepsSafe DEF MachineStep
<1>3. CASE UNCHANGED vars
  <2>1. UNCHANGED <<store, cache, machine, running, client, watcher>>
    BY <1>3 DEF vars
  <2>2. StoredAtRest' /\ CachedAsStored'
    BY <2>1, StillShared DEF SInv, StoredAtRest, CachedAsStored, InSteps
  <2>3. \A c \in Clients : HandlerFacts(c)' <=> HandlerFacts(c)
    BY <2>1 DEF HandlerFacts, Quiet, QuietBut, Works
  <2>4. \A c \in Clients : WatcherFacts(c)' <=> WatcherFacts(c)
    BY <2>1 DEF WatcherFacts, QuietBut, Works
  <2> QED
    BY <2>1, <2>2, <2>3, <2>4, StillShared DEF SInv, Handled, Watched
<1> QED
  BY <1>1, <1>2, <1>3, NewRequestKeepsSafe, WatcherKeepsSafe, CrashKeepsSafe DEF Next

\* The invariant holds in every state that a sequence of requests leads to.
THEOREM SerialInvariance ==
    ASSUME Serial
    PROVE  Spec => []SInv
<1>1. Init => SInv
  BY InitSafe
<1>2. CInv /\ CInv' /\ SInv /\ [Next]_vars => SInv'
  BY NextKeepsSafe
<1> QED
  BY <1>1, <1>2, CInvariance, PTL DEF Spec

\* One operation at a time on the release, however often admission and
\* reconciliation replace its machine by another, deletions time out, and the
\* controller crashes: a handler finds nothing working when it replaces a
\* machine, or gets the machine that works and is refused.
THEOREM SerialOneOperation ==
    ASSUME Serial
    PROVE  Spec => []OneOperation
<1>1. SInv => OneOperation
  BY DEF SInv, AtMostOne, Works, OneOperation
<1> QED
  BY <1>1, SerialInvariance, PTL

\* What is worked on is in the KV, in the state of the operation, from the
\* moment on at which enterState has stored it: a crash finds it there.
THEOREM SerialStoreFollows ==
    ASSUME Serial
    PROVE  Spec => []StoreFollows
<1>1. SInv => StoreFollows
  BY DEF SInv
<1> QED
  BY <1>1, SerialInvariance, PTL

\* No machine stores a configuration over another one: those that work have the
\* one that is stored, for an update comes when nothing works.
THEOREM SerialKeepsUpdate ==
    ASSUME Serial
    PROVE  Spec => KeepsUpdate
<1> DEFINE Kept == store # None /\ store' # None /\ store'.config # store.config
                   => \E c \in Clients : At(c, "upsert")
<1>1. ASSUME CInv, SInv, [Next]_vars
      PROVE  [Kept]_vars
  <2>1. ASSUME NEW c \in Clients, HandlerStep(c)
        PROVE  Kept
    <3>1. CASE Upsert(c)
      BY <3>1 DEF Upsert
    <3>2. CASE \/ Drop(c) \/ GetStateMachine(c) \/ Insert(c) \/ Check(c)
               \/ Raise(c) \/ Reply(c) \/ Listed(c)
      <4>1. store' = store
        BY <3>2 DEF Drop, GetStateMachine, Insert, Check, Raise, Reply, Listed
      <4> QED
        BY <4>1
    <3> QED
      BY <2>1, <3>1, <3>2 DEF HandlerStep
  <2>2. ASSUME NEW c \in Clients, NewRequest(c)
        PROVE  Kept
    BY <2>2 DEF NewRequest, Admit, Delete, List, Post, Reconcile, Handle
  <2>3. ASSUME NEW c \in Clients, WatcherStep(c)
        PROVE  Kept
    BY <2>3 DEF WatcherStep, WatchPoll, WatchDrop, WatchErase
  <2>4. ASSUME NEW m \in Machines, Operate(m)
        PROVE  Kept
    BY <2>4 DEF Operate
  <2>5. ASSUME NEW m \in Machines, Save(m)
        PROVE  Kept
    <3>1. machine[m].saving /\ Works(m)
      BY <2>5 DEF Save, Works
    <3>2. store # None => store.config = machine[m].config
      BY <1>1, <3>1 DEF SInv, WorksAsStored
    <3>3. store' = store \/ store'.config = machine[m].config
      BY <2>5 DEF Save
    <3> QED
      BY <3>2, <3>3
  <2>6. CASE Crash
    BY <2>6 DEF Crash
  <2>7. CASE UNCHANGED vars
    BY <2>7
  <2> QED
    BY <1>1, <2>1, <2>2, <2>3, <2>4, <2>5, <2>6, <2>7 DEF Next, MachineStep
<1>2. CInv /\ SInv /\ [Next]_vars => [Kept]_vars
  BY <1>1
<1> QED
  BY <1>2, CInvariance, SerialInvariance, PTL DEF Spec, KeepsUpdate
-----------------------------------------------------------------------------
(* That the handlers, the map and the machines are one release on which one *)
(* thing is done at a time.                                                *)

\* The state that a machine made from a release begins in.
StartOf(rel) == IF rel.state = "new" THEN "start" ELSE rel.state

\* A machine that is entering an active state has its goroutine.
SavesRunning ==
    \A m \in Machines : machine[m].saving =>
        /\ machine[m].fsm # "start"
        /\ machine[m].fsm \in Active => running[m] # {}

\* A release is stored as new, or in a state that follows an event.
NeverStart == store # None => store.state # "start"

\* The machine of a release that is new has not started.
NewUnstarted ==
    /\ store # None /\ store.state = "new" /\ cache # None
    /\ \A c \in Clients : ~InSteps(c, {"saved", "followed", "drop"})
    => machine[cache].fsm = "start"

\* What a handler read is what is stored, if nothing worked then, and the machine
\* it made is in the state it read.
ReadFacts(c) ==
    LET pc == client[c].pc
        rel == client[c].rel
        sm == client[c].sm
    IN  /\ pc = "upsert" /\ store # None =>
              store.state \in {"idle", "fail"} /\ store.config # rel.config
        /\ pc \notin {"upsert", "saved", "followed"} =>
              /\ rel.state \notin Active => store = rel
              /\ rel.state \in Active => store.state # "new"
        /\ pc \in {"insertFound", "insert"} => machine[sm].fsm = StartOf(rel)
        /\ pc = "raise" /\ client[c].kind = "admit" => machine[sm].fsm = StartOf(rel)
        /\ pc \in {"saved", "followed"} /\ ~machine[sm].saving =>
              store.state = machine[sm].fsm

\* What is waited for is stored as the machine has it, and idle when it is removed.
WaitFacts(c) ==
    /\ store # None
    /\ ~machine[watcher[c].sm].saving => store.state = machine[watcher[c].sm].fsm
    /\ watcher[c].pc \in {"drop", "erase"} => machine[watcher[c].sm].fsm = "idle"

ReadAsStored == \A c \in Clients : client[c] # None => ReadFacts(c)

WaitedAsStored == \A c \in Clients : watcher[c] # None => WaitFacts(c)

\* What the refinement rests on besides the invariant above.
RInv == SavesRunning /\ NeverStart /\ NewUnstarted /\ ReadAsStored /\ WaitedAsStored
-----------------------------------------------------------------------------
\* A machine does not go back to the state it has before anything happened.
LEMMA TargetIsNoStart ==
    ASSUME NEW s \in States, NEW e \in Events
    PROVE  Target(s, e) # "start"
BY DEF Target, Destination, Events

\* A goroutine ends with an event that its own state accepts.
LEMMA ResultAccepted ==
    ASSUME NEW k \in Active, NEW e \in Results[k]
    PROVE  Accepts(k, e)
BY DEF Results, Accepts, Sources, States, Active, Rest

\* It leads to one of the states that may follow.
LEMMA ResultFollows ==
    ASSUME NEW k \in Active, NEW e \in Results[k]
    PROVE  k \in DOMAIN Lifecycle!Follows /\ Target(k, e) \in Lifecycle!Follows[k]
BY DEF Results, Target, Destination, Active, Lifecycle!Follows

\* What is left to save, or to read, where nothing is written.
LEMMA StillRead ==
    ASSUME RInv, UNCHANGED <<store, cache, machine, running>>
    PROVE  SavesRunning' /\ NeverStart'
BY DEF RInv, SavesRunning, NeverStart

\* A request is made of the release as it is stored.
LEMMA NewRequestKeepsRead ==
    ASSUME CInv, CInv', SInv, SInv', RInv, Serial, NEW c \in Clients, NewRequest(c)
    PROVE  RInv'
<1>1. /\ UNCHANGED <<store, cache, machine, running, watcher>>
      /\ client[c] = None
  BY DEF NewRequest, Admit, Delete, List, Post, Reconcile, Handle
<1>2. \E kind \in RequestKinds, step \in {"find", "upsert", "create"}, rel \in Releases :
         /\ client' = [client EXCEPT ![c] =
                          [kind |-> kind, pc |-> step, rel |-> rel, sm |-> None]]
         /\ step # "upsert" => store # None /\ rel = store
         /\ step = "upsert" /\ store # None =>
               store.state \in {"idle", "fail"} /\ store.config # rel.config
  <2>1. store # None => store \in Releases
    BY DEF CInv, TypeOK
  <2>2. CASE Admit(c) \/ Delete(c) \/ List(c)
    BY <2>1, <2>2, ClientAssumption DEF Admit, Delete, List, Handle, RequestKinds
  <2>3. ASSUME NEW config \in Configs, Post(c, config) \/ Reconcile(c, config)
        PROVE  \E rel \in Releases :
                 /\ client' = [client EXCEPT ![c] = [kind |-> "reconcile", pc |-> "upsert",
                                                     rel |-> rel, sm |-> None]]
                 /\ store # None =>
                       store.state \in {"idle", "fail"} /\ store.config # rel.config
    <3>1. [state |-> "new", config |-> config] \in Releases
      BY DEF Releases, StoredStates
    <3>2. Reconcile(c, config)
      BY <2>3 DEF Post, Handle, Serial
    <3> QED
      BY <3>1, <3>2 DEF Reconcile, Handle, Serial
  <2> QED
    BY <2>2, <2>3 DEF NewRequest, RequestKinds
<1>3. PICK kind \in RequestKinds, step \in {"find", "upsert", "create"}, rel \in Releases :
         /\ client' = [client EXCEPT ![c] =
                          [kind |-> kind, pc |-> step, rel |-> rel, sm |-> None]]
         /\ step # "upsert" => store # None /\ rel = store
         /\ step = "upsert" /\ store # None =>
               store.state \in {"idle", "fail"} /\ store.config # rel.config
  BY <1>2
<1>4. client'[c].pc = step /\ client'[c].rel = rel
  BY <1>3 DEF CInv, TypeOK
<1>5. \A d \in Clients : d = c
  BY DEF Serial
<1>6. NewUnstarted'
  BY <1>1, <1>5 DEF RInv, NewUnstarted, InSteps
<1>7. ReadAsStored'
  BY <1>1, <1>3, <1>4, <1>5 DEF ReadAsStored, ReadFacts, Active
<1>8. WaitedAsStored'
  BY <1>1 DEF RInv, WaitedAsStored, WaitFacts
<1> QED
  BY <1>1, <1>6, <1>7, <1>8, StillRead DEF RInv

\* An update replaces what its handler was told, and its machine is made of it.
LEMMA WritingKeepsRead ==
    ASSUME CInv, CInv', SInv, SInv', RInv, Serial, NEW c \in Clients, Upsert(c) \/ Drop(c)
    PROVE  RInv'
<1>1. /\ client[c] # None /\ HandlerFacts(c) /\ watcher[c] = None
      /\ UNCHANGED <<machine, running, watcher>>
  BY DEF Upsert, Drop, At, SInv, Handled, Watched, WatcherFacts
<1>2. \A d \in Clients : d = c
  BY DEF Serial
<1>3. SavesRunning' /\ WaitedAsStored'
  BY <1>1, <1>2 DEF RInv, SavesRunning, WaitedAsStored
<1>4. CASE Upsert(c)
  <2>1. client[c].pc = "upsert" /\ client[c].kind = "reconcile"
        /\ client[c].rel.state = "new"
    BY <1>1, <1>4 DEF Upsert, At, HandlerFacts
  <2>2. store' = client[c].rel /\ Goto(c, "drop")
    BY <1>4, <2>1 DEF Upsert, Serial
  <2>3. client'[c] # None /\ client'[c].pc = "drop" /\ client'[c].rel = client[c].rel
    BY <1>1, <2>2, GoesOn
  <2>4. NeverStart' /\ NewUnstarted'
    BY <2>1, <2>2, <2>3 DEF NeverStart, NewUnstarted, InSteps
  <2>5. ReadAsStored'
    BY <1>2, <2>1, <2>2, <2>3 DEF ReadAsStored, ReadFacts, Active
  <2> QED
    BY <1>3, <2>4, <2>5 DEF RInv
<1>5. CASE Drop(c)
  <2> DEFINE r == [client[c] EXCEPT !.pc = "create", !.sm = None]
  <2>1. client[c] \in ClientRecords /\ client[c].pc = "drop"
    BY <1>1, <1>5 DEF CInv, TypeOK, Drop, At
  <2>2. client'[c] = r /\ store' = store /\ cache' = None
    BY <1>1, <1>5 DEF Drop, CInv, TypeOK
  <2>3. r.pc = "create" /\ r.rel = client[c].rel
    BY <2>1 DEF ClientRecords
  <2> HIDE DEF r
  <2>4. NeverStart' /\ NewUnstarted'
    BY <2>2 DEF RInv, NeverStart, NewUnstarted
  <2>5. ReadFacts(c)
    BY <1>1 DEF RInv, ReadAsStored
  <2>6. ReadAsStored'
    BY <1>2, <2>1, <2>2, <2>3, <2>5 DEF ReadAsStored, ReadFacts
  <2> QED
    BY <1>3, <2>4, <2>6 DEF RInv
<1> QED
  BY <1>4, <1>5

\* A machine that is made is in the state that was read.
LEMMA GetStateMachineKeepsRead ==
    ASSUME CInv, CInv', SInv, SInv', RInv, Serial, NEW c \in Clients, GetStateMachine(c)
    PROVE  RInv'
<1>1. /\ client[c] # None /\ client[c].pc \in {"find", "create"}
      /\ HandlerFacts(c) /\ ReadFacts(c) /\ watcher[c] = None
  BY DEF GetStateMachine, At, SInv, Handled, Watched, WatcherFacts, RInv, ReadAsStored
<1>2. client[c] \in ClientRecords /\ client[c].rel \in Releases
      /\ client \in [Clients -> ClientRecords \cup {None}]
  BY <1>1 DEF CInv, TypeOK, ClientRecords
<1>3. UNCHANGED <<store, cache, running, watcher>>
  BY DEF GetStateMachine
<1>4. \A d \in Clients : d = c
  BY DEF Serial
<1>5. NeverStart' /\ WaitedAsStored'
  BY <1>1, <1>3, <1>4 DEF RInv, NeverStart, WaitedAsStored
<1>6. CASE /\ cache # None
           /\ client' = [client EXCEPT ![c].sm = cache,
                  ![c].pc = IF @ = "find" THEN "check" ELSE "raise"]
           /\ machine' = machine
  <2> DEFINE step == IF client[c].pc = "find" THEN "check" ELSE "raise"
             r == [client[c] EXCEPT !.sm = cache, !.pc = step]
  <2>1. client'[c] = r
    BY <1>2, <1>6 DEF ClientRecords
  <2>2. r.pc = step /\ r.kind = client[c].kind /\ r.rel = client[c].rel
    BY <1>2 DEF ClientRecords
  <2> HIDE DEF r
  <2>3. client[c].pc = "find" \/ client[c].kind # "admit"
    BY <1>1, <1>6 DEF HandlerFacts
  <2>4. SavesRunning' /\ NewUnstarted'
    BY <1>1, <1>3, <1>4, <1>6 DEF RInv, SavesRunning, NewUnstarted, InSteps
  <2>5. ReadAsStored'
    BY <1>1, <1>3, <1>4, <2>1, <2>2, <2>3 DEF ReadAsStored, ReadFacts
  <2> QED
    BY <1>5, <2>4, <2>5 DEF RInv
<1>7. ASSUME NEW m \in Machines, cache = None, Unused(m), NewMachine(m, client[c].rel),
             client' = [client EXCEPT ![c].sm = m,
                 ![c].pc = IF @ = "find" THEN "insertFound" ELSE "insert"]
      PROVE  RInv'
  <2> DEFINE step == IF client[c].pc = "find" THEN "insertFound" ELSE "insert"
             r == [client[c] EXCEPT !.sm = m, !.pc = step]
  <2>1. client'[c] = r
    BY <1>2, <1>7 DEF ClientRecords
  <2>2. r.pc = step /\ r.sm = m /\ r.kind = client[c].kind /\ r.rel = client[c].rel
    BY <1>2 DEF ClientRecords
  <2> HIDE DEF r
  <2>3. /\ machine'[m].fsm = StartOf(client[c].rel) /\ ~machine'[m].saving
        /\ \A n \in Machines \ {m} : machine'[n] = machine[n]
    BY <1>7 DEF NewMachine, CInv, TypeOK, StartOf
  <2>4. SavesRunning' /\ NewUnstarted'
    BY <1>3, <1>7, <2>3 DEF RInv, SavesRunning, NewUnstarted
  <2>5. ReadAsStored'
    BY <1>1, <1>3, <1>4, <2>1, <2>2, <2>3 DEF ReadAsStored, ReadFacts
  <2> QED
    BY <1>5, <2>4, <2>5 DEF RInv
<1> QED
  BY <1>6, <1>7 DEF GetStateMachine

\* What is put in the map of a release that is new has not started.
LEMMA InsertKeepsRead ==
    ASSUME CInv, CInv', SInv, SInv', RInv, Serial, NEW c \in Clients, Insert(c)
    PROVE  RInv'
<1> DEFINE step == IF At(c, "insertFound") THEN "check" ELSE "raise"
<1>1. /\ client[c] # None /\ client[c].pc \in {"insertFound", "insert"}
      /\ HandlerFacts(c) /\ ReadFacts(c) /\ watcher[c] = None
  BY DEF Insert, At, SInv, Handled, Watched, WatcherFacts, RInv, ReadAsStored
<1>2. cache' = client[c].sm /\ UNCHANGED <<store, machine, running, watcher>>
      /\ Goto(c, step)
  BY DEF Insert
<1>3. /\ client'[c] # None /\ client'[c].pc = step
      /\ client'[c].kind = client[c].kind
      /\ client'[c].rel = client[c].rel /\ client'[c].sm = client[c].sm
  BY <1>1, <1>2, GoesOn
<1>4. client'[c].pc \in {"check", "raise"}
  BY <1>3
<1> HIDE DEF step
<1>5. \A d \in Clients : d = c
  BY DEF Serial
<1>6. SavesRunning' /\ NeverStart' /\ WaitedAsStored'
  BY <1>1, <1>2, <1>5 DEF RInv, SavesRunning, NeverStart, WaitedAsStored
<1>7. NewUnstarted'
  <2>1. machine[client[c].sm].fsm = StartOf(client[c].rel)
    BY <1>1 DEF ReadFacts
  <2>2. store.state = "new" => client[c].rel.state = "new"
    BY <1>1 DEF ReadFacts
  <2> QED
    BY <1>2, <2>1, <2>2 DEF NewUnstarted, StartOf
<1>8. ReadFacts(c)'
  BY <1>1, <1>2, <1>3, <1>4 DEF ReadFacts
<1>9. ReadAsStored'
  BY <1>5, <1>8 DEF ReadAsStored
<1> QED
  BY <1>6, <1>7, <1>9 DEF RInv

\* A handler that returns, but from an event, leaves things as they are.
LEMMA EndKeepsRead ==
    ASSUME CInv, RInv, Serial, NEW c \in Clients, Return(c),
           UNCHANGED <<store, cache, machine, running>>,
           client[c] # None, watcher' = watcher, watcher[c] = None,
           \/ client[c].pc \notin {"saved", "followed", "drop"}
           \/ store # None /\ store.state # "new"
    PROVE  RInv'
<1>1. client'[c] = None /\ \A d \in Clients : d = c
  BY Returned DEF Serial
<1>2. NewUnstarted'
  BY <1>1 DEF RInv, NewUnstarted, InSteps
<1>3. ReadAsStored' /\ WaitedAsStored'
  BY <1>1 DEF ReadAsStored, WaitedAsStored
<1> QED
  BY <1>2, <1>3, StillRead DEF RInv

\* The decision of admission changes nothing.
LEMMA CheckKeepsRead ==
    ASSUME CInv, CInv', SInv, SInv', RInv, Serial, NEW c \in Clients, Check(c)
    PROVE  RInv'
<1>1. /\ client[c] # None /\ client[c].pc = "check" /\ ReadFacts(c) /\ watcher[c] = None
  BY DEF Check, At, SInv, Watched, WatcherFacts, RInv, ReadAsStored
<1>2. UNCHANGED <<store, cache, machine, running, watcher>>
      /\ (Goto(c, "drop") \/ Return(c))
  BY DEF Check
<1>3. CASE Return(c)
  BY <1>1, <1>2, <1>3, EndKeepsRead
<1>4. CASE Goto(c, "drop")
  <2>1. /\ client'[c] # None /\ client'[c].pc = "drop" /\ client'[c].rel = client[c].rel
    BY <1>1, <1>4, GoesOn
  <2>2. \A d \in Clients : d = c
    BY DEF Serial
  <2>3. NewUnstarted'
    BY <2>1 DEF NewUnstarted, InSteps
  <2>4. ReadAsStored' /\ WaitedAsStored'
    BY <1>1, <1>2, <2>1, <2>2 DEF ReadAsStored, ReadFacts, WaitedAsStored
  <2> QED
    BY <1>2, <2>3, <2>4, StillRead DEF RInv
<1> QED
  BY <1>2, <1>3, <1>4

\* The machine that takes an event is entering a state that is not its first.
LEMMA EventSaves ==
    ASSUME CInv, NEW m \in Machines, NEW e \in Events, NEW left \in SUBSET Active,
           CanRaise(m, e), Entered(m, e), Begun(m, e, left)
    PROVE  /\ machine'[m].saving /\ machine'[m].fsm # "start"
           /\ machine'[m].fsm = Target(machine[m].fsm, e)
           /\ machine'[m].config = machine[m].config
           /\ machine'[m].fsm \in Active => running'[m] # {}
           /\ \A n \in Machines \ {m} : machine'[n] = machine[n] /\ running'[n] = running[n]
<1>1. machine[m] \in MachineRecords /\ machine \in [Machines -> MachineRecords]
  BY DEF CInv, TypeOK
<1>2. machine'[m].saving /\ machine'[m].config = machine[m].config
  BY <1>1 DEF Entered, MachineRecords
<1>3. machine[m].fsm \in States /\ Accepts(machine[m].fsm, e)
  BY <1>1 DEF MachineRecords, CanRaise
<1>4. /\ machine'[m].fsm = Target(machine[m].fsm, e)
      /\ \A n \in Machines \ {m} : machine'[n] = machine[n]
  BY <1>3, EnteredTyped DEF CInv
<1>5. /\ running'[m] = left \cup ({Target(machine[m].fsm, e)} \cap Active)
      /\ \A n \in Machines \ {m} : running'[n] = running[n]
  BY BegunTyped DEF CInv
<1> QED
  BY <1>2, <1>3, <1>4, <1>5, TargetIsNoStart

\* A handler that starts its machine waits for it.
LEMMA StartKeepsRead ==
    ASSUME CInv, RInv, Serial, NEW c \in Clients, NEW m \in Machines, NEW e \in Events,
           CanRaise(m, e), Entered(m, e), Begun(m, e, running[m]),
           client[c] # None, client[c].sm = m, watcher[c] = None,
           NEW step \in {"saved", "followed"}, Goto(c, step),
           UNCHANGED <<store, cache, watcher>>
    PROVE  RInv'
<1>1. client'[c] # None /\ client'[c].pc = step /\ client'[c].sm = m
  BY GoesOn
<1>2. running[m] \in SUBSET Active
  BY DEF CInv, TypeOK
<1>3. /\ machine'[m].saving /\ machine'[m].fsm # "start"
      /\ machine'[m].fsm \in Active => running'[m] # {}
      /\ \A n \in Machines \ {m} : machine'[n] = machine[n] /\ running'[n] = running[n]
  BY <1>2, EventSaves
<1>4. \A d \in Clients : d = c
  BY DEF Serial
<1>5. SavesRunning' /\ NeverStart'
  BY <1>3 DEF RInv, SavesRunning, NeverStart
<1>6. NewUnstarted'
  BY <1>1 DEF NewUnstarted, InSteps
<1>7. ReadAsStored' /\ WaitedAsStored'
  BY <1>1, <1>3, <1>4 DEF ReadAsStored, ReadFacts, WaitedAsStored
<1> QED
  BY <1>5, <1>6, <1>7 DEF RInv

\* An event that is raised, or refused.
LEMMA RaiseKeepsRead ==
    ASSUME CInv, CInv', SInv, SInv', RInv, Serial, NEW c \in Clients, Raise(c)
    PROVE  RInv'
<1> DEFINE m == client[c].sm
           event == Request[client[c].kind]
<1>1. /\ client[c] # None /\ client[c].pc = "raise" /\ client[c].kind # "list"
      /\ watcher[c] = None
  BY DEF Raise, At, SInv, Watched, WatcherFacts
<1>2. m \in Machines /\ event \in Events
  BY <1>1, RequestIsEvent DEF CInv, TypeOK, ClientRecords, Handlers, Holding
<1>3. UNCHANGED <<store, cache, watcher>>
  BY DEF Raise
<1>4. \/ CanRaise(m, event) /\ Entered(m, event) /\ Begun(m, event, running[m])
         /\ Goto(c, "saved")
      \/ Return(c) /\ UNCHANGED <<machine, running>>
  BY DEF Raise
<1> HIDE DEF event
<1> QED
  BY <1>1, <1>2, <1>3, <1>4, StartKeepsRead, EndKeepsRead

\* What has been stored when an event returns is the machine's state.
LEMMA ReturnedAsStored ==
    ASSUME CInv, SInv, RInv, NEW c \in Clients, InSteps(c, {"saved", "followed"}),
           ~machine[client[c].sm].saving
    PROVE  /\ store # None /\ store.state = machine[client[c].sm].fsm
           /\ store.state # "new" /\ watcher[c] = None
<1>1. client[c] # None /\ HandlerFacts(c) /\ ReadFacts(c) /\ watcher[c] = None
  BY DEF InSteps, SInv, Handled, Watched, WatcherFacts, RInv, ReadAsStored
<1>2. client[c].sm \in Machines
  BY DEF InSteps, CInv, Handlers, Holding
<1>3. machine[client[c].sm].fsm # "new"
  BY <1>2 DEF CInv, TypeOK, MachineRecords, States, Active, Rest
<1> QED
  BY <1>1, <1>3 DEF InSteps, HandlerFacts, ReadFacts

\* A deletion is waited for from the moment on at which it is stored.
LEMMA ReplyKeepsRead ==
    ASSUME CInv, CInv', SInv, SInv', RInv, Serial, NEW c \in Clients, Reply(c)
    PROVE  RInv'
<1> DEFINE m == client[c].sm
<1>1. /\ client[c] # None /\ client[c].pc = "saved" /\ ~machine[m].saving
      /\ UNCHANGED <<store, cache>>
  BY DEF Reply, At
<1>2. InSteps(c, {"saved", "followed"}) /\ m \in Machines
  BY <1>1 DEF InSteps, CInv, Handlers, Holding
<1>3. store # None /\ store.state = machine[m].fsm /\ store.state # "new"
      /\ watcher[c] = None
  BY <1>1, <1>2, ReturnedAsStored
<1>4. \/ /\ machine[m].fsm = "idle"
         /\ Entered(m, "deploy") /\ Begun(m, "deploy", running[m])
         /\ Goto(c, "followed") /\ watcher' = watcher
      \/ /\ Return(c) /\ UNCHANGED <<machine, running>>
         /\ \/ watcher' = watcher
            \/ watcher' = [watcher EXCEPT ![c] = [sm |-> m, pc |-> "poll"]]
  BY DEF Reply
<1>5. CASE /\ machine[m].fsm = "idle"
           /\ Entered(m, "deploy") /\ Begun(m, "deploy", running[m])
           /\ Goto(c, "followed") /\ watcher' = watcher
  <2>1. "deploy" \in Events /\ CanRaise(m, "deploy")
    BY <1>1, <1>5 DEF Events, CanRaise, Accepts, Sources
  <2> QED
    BY <1>1, <1>2, <1>3, <1>5, <2>1, StartKeepsRead
<1>6. CASE Return(c) /\ UNCHANGED <<machine, running>> /\ watcher' = watcher
  BY <1>1, <1>3, <1>6, EndKeepsRead
<1>7. CASE /\ Return(c) /\ UNCHANGED <<machine, running>>
           /\ watcher' = [watcher EXCEPT ![c] = [sm |-> m, pc |-> "poll"]]
  <2>1. client'[c] = None /\ \A d \in Clients : d = c
    BY <1>7, Returned DEF Serial
  <2>2. watcher'[c].sm = m /\ watcher'[c].pc = "poll"
    BY <1>7 DEF CInv, TypeOK
  <2>3. NewUnstarted' /\ ReadAsStored'
    BY <1>1, <1>3, <2>1 DEF NewUnstarted, ReadAsStored
  <2>4. WaitFacts(c)'
    BY <1>1, <1>3, <1>7, <2>2 DEF WaitFacts
  <2>5. WaitedAsStored'
    BY <2>1, <2>4 DEF WaitedAsStored
  <2> QED
    BY <1>1, <1>7, <2>3, <2>5, StillRead DEF RInv
<1> QED
  BY <1>4, <1>5, <1>6, <1>7

\* A handler that is done.
LEMMA ListedKeepsRead ==
    ASSUME CInv, CInv', SInv, SInv', RInv, Serial, NEW c \in Clients, Listed(c)
    PROVE  RInv'
<1>1. /\ client[c] # None /\ Return(c) /\ watcher[c] = None
      /\ UNCHANGED <<store, cache, machine, running, watcher>>
  BY DEF Listed, At, SInv, Watched, WatcherFacts
<1>2. CASE client[c].pc = "raise"
  BY <1>1, <1>2, EndKeepsRead
<1>3. CASE client[c].pc = "followed" /\ ~machine[client[c].sm].saving
  <2>1. InSteps(c, {"saved", "followed"})
    BY <1>1, <1>3 DEF InSteps
  <2>2. store # None /\ store.state # "new"
    BY <1>3, <2>1, ReturnedAsStored
  <2> QED
    BY <1>1, <2>2, EndKeepsRead
<1> QED
  BY <1>2, <1>3 DEF Listed, At

\* What a goroutine's end does, under the invariant: the event is accepted.
LEMMA OperateAccepted ==
    ASSUME CInv, SInv, NEW m \in Machines, Operate(m)
    PROVE  /\ machine[m].fsm \in Active /\ ~machine[m].saving
           /\ \E event \in Results[machine[m].fsm] :
                 /\ event \in Events /\ CanRaise(m, event)
                 /\ Entered(m, event) /\ Begun(m, event, {})
<1>1. PICK kind \in running[m] : \E event \in Results[kind] :
          \/ CanRaise(m, event) /\ Entered(m, event)
             /\ Begun(m, event, running[m] \ {kind})
          \/ Refuses(m, event)
  BY DEF Operate
<1>2. kind = machine[m].fsm /\ kind \in Active /\ running[m] \ {kind} = {}
  BY DEF SInv, OnePerMachine, CInv, TypeOK
<1>3. PICK event \in Results[kind] :
          \/ CanRaise(m, event) /\ Entered(m, event)
             /\ Begun(m, event, running[m] \ {kind})
          \/ Refuses(m, event)
  BY <1>1
<1>4. Accepts(kind, event) /\ event \in Events
  BY <1>2, <1>3, ResultAccepted, ResultIsEvent
<1>5. CanRaise(m, event) /\ Entered(m, event) /\ Begun(m, event, running[m] \ {kind})
  BY <1>2, <1>3, <1>4 DEF Refuses
<1> QED
  BY <1>2, <1>3, <1>4, <1>5 DEF CanRaise

\* A machine that goes on is one whose handler, or whose deletion, waits for it.
LEMMA OperateKeepsRead ==
    ASSUME CInv, CInv', SInv, SInv', RInv, Serial, NEW m \in Machines, Operate(m)
    PROVE  RInv'
<1>1. UNCHANGED <<store, cache, client, watcher>> /\ running[m] # {}
  BY DEF Operate
<1>2. Works(m) /\ ~Quiet
  BY <1>1 DEF Works, Quiet
<1>3. /\ machine'[m].saving /\ machine'[m].fsm # "start"
      /\ machine'[m].fsm \in Active => running'[m] # {}
      /\ \A n \in Machines \ {m} : machine'[n] = machine[n] /\ running'[n] = running[n]
  BY OperateAccepted, EventSaves
<1>4. SavesRunning' /\ NeverStart'
  BY <1>1, <1>3 DEF RInv, SavesRunning, NeverStart
<1>5. NewUnstarted'
  BY <1>1, <1>2 DEF SInv, StoredAtRest, NewUnstarted, InSteps, Active
<1>6. ASSUME NEW c \in Clients, client'[c] # None
      PROVE  ReadFacts(c)'
  <2>1. HandlerFacts(c) /\ ReadFacts(c) /\ client[c] # None
    BY <1>1, <1>6 DEF SInv, Handled, RInv, ReadAsStored
  <2>2. client[c].pc \in Holding => client[c].sm \in Machines
    BY <2>1 DEF CInv, Handlers
  <2>3. ASSUME client[c].pc \in {"insertFound", "insert"}
               \/ (client[c].pc = "raise" /\ client[c].kind = "admit")
        PROVE  machine'[client[c].sm] = machine[client[c].sm]
    <3>1. ~Works(client[c].sm)
      BY <2>1, <2>3 DEF HandlerFacts
    <3> QED
      BY <1>2, <1>3, <2>2, <2>3, <3>1 DEF Holding
  <2>4. ASSUME client[c].pc \in {"saved", "followed"}
        PROVE  \/ machine'[client[c].sm].saving
               \/ machine'[client[c].sm] = machine[client[c].sm]
    BY <1>3, <2>2, <2>4 DEF Holding
  <2> QED
    BY <1>1, <2>1, <2>3, <2>4 DEF ReadFacts
<1>7. ASSUME NEW c \in Clients, watcher'[c] # None
      PROVE  WaitFacts(c)'
  <2>1. WatcherFacts(c) /\ WaitFacts(c) /\ watcher[c].sm \in Machines
    BY <1>1, <1>7 DEF SInv, Watched, RInv, WaitedAsStored, CInv, TypeOK, WatcherRecords
  <2>2. watcher[c].pc \notin {"drop", "erase"}
    BY <1>1, <2>1 DEF WatcherFacts
  <2>3. \/ machine'[watcher[c].sm].saving
        \/ machine'[watcher[c].sm] = machine[watcher[c].sm]
    BY <1>3, <2>1
  <2> QED
    BY <1>1, <2>1, <2>2, <2>3 DEF WaitFacts
<1>8. ReadAsStored' /\ WaitedAsStored'
  BY <1>6, <1>7 DEF ReadAsStored, WaitedAsStored
<1> QED
  BY <1>4, <1>5, <1>8 DEF RInv

\* What a machine stores is its state, and nobody has read another one to write.
LEMMA SaveKeepsRead ==
    ASSUME CInv, CInv', SInv, SInv', RInv, Serial, NEW m \in Machines, Save(m)
    PROVE  RInv'
<1>1. /\ machine[m].saving /\ UNCHANGED <<cache, running, client, watcher>>
      /\ store' = [state |-> machine[m].fsm, config |-> machine[m].config]
  BY DEF Save, Serial
<1>2. /\ machine'[m].fsm = machine[m].fsm /\ ~machine'[m].saving
      /\ \A n \in Machines \ {m} : machine'[n] = machine[n]
      /\ machine[m].fsm # "new"
  BY DEF Save, CInv, TypeOK, MachineRecords, States, Active, Rest
<1>3. Works(m) /\ ~Quiet /\ machine[m].fsm # "start"
  BY <1>1 DEF Works, Quiet, RInv, SavesRunning
<1>4. store' # None /\ store'.state = machine[m].fsm
  <2>1. store' \in Releases
    BY <1>1 DEF CInv, TypeOK, MachineRecords, Releases, StoredStates
  <2> QED
    BY <1>1, <2>1, NoneAssumption
<1>5. SavesRunning' /\ NeverStart' /\ NewUnstarted'
  BY <1>1, <1>2, <1>3, <1>4 DEF RInv, SavesRunning, NeverStart, NewUnstarted
<1>6. ASSUME NEW c \in Clients, client'[c] # None
      PROVE  ReadFacts(c)'
  <2>1. HandlerFacts(c) /\ ReadFacts(c) /\ client[c] # None
    BY <1>1, <1>6 DEF SInv, Handled, RInv, ReadAsStored
  <2>2. client[c].pc \in Holding => client[c].sm \in Machines
    BY <2>1 DEF CInv, Handlers
  <2>3. client[c].pc # "upsert"
    BY <1>3, <2>1 DEF HandlerFacts, Active
  <2>4. client[c].pc \notin {"saved", "followed"} => client[c].rel.state \in Active
    BY <1>3, <2>1 DEF HandlerFacts
  <2>5. ASSUME client[c].pc \in {"insertFound", "insert"}
               \/ (client[c].pc = "raise" /\ client[c].kind = "admit")
        PROVE  machine'[client[c].sm].fsm = machine[client[c].sm].fsm
    BY <1>2, <2>2, <2>5 DEF Holding
  <2>6. ASSUME client[c].pc \in {"saved", "followed"}
        PROVE  client[c].sm = m
    BY <1>3, <2>1, <2>6 DEF HandlerFacts, QuietBut
  <2> QED
    BY <1>1, <1>2, <1>4, <2>1, <2>3, <2>4, <2>5, <2>6 DEF ReadFacts
<1>7. ASSUME NEW c \in Clients, watcher'[c] # None
      PROVE  WaitFacts(c)'
  <2>1. WatcherFacts(c) /\ WaitFacts(c) /\ watcher[c].sm \in Machines
    BY <1>1, <1>7 DEF SInv, Watched, RInv, WaitedAsStored, CInv, TypeOK, WatcherRecords
  <2>2. watcher[c].sm = m
    BY <1>3, <2>1 DEF WatcherFacts, QuietBut
  <2> QED
    BY <1>1, <1>2, <1>4, <2>1, <2>2 DEF WaitFacts
<1>8. ReadAsStored' /\ WaitedAsStored'
  BY <1>6, <1>7 DEF ReadAsStored, WaitedAsStored
<1> QED
  BY <1>5, <1>8 DEF RInv

\* A deletion that is waited for.
LEMMA WatcherKeepsRead ==
    ASSUME CInv, CInv', SInv, SInv', RInv, Serial, NEW c \in Clients, WatcherStep(c)
    PROVE  RInv'
<1>1. watcher[c] \in WatcherRecords /\ WatcherFacts(c) /\ WaitFacts(c) /\ watcher[c] # None
      /\ watcher \in [Clients -> WatcherRecords \cup {None}]
  BY DEF CInv, TypeOK, WatcherStep, WatchPoll, WatchDrop, WatchErase, SInv, Watched,
         RInv, WaitedAsStored
<1>2. \A d \in Clients : d = c
  BY DEF Serial
<1>3. client[c] = None /\ UNCHANGED <<machine, running, client>>
  BY <1>1 DEF WatcherStep, WatchPoll, WatchDrop, WatchErase, WatcherFacts
<1>4. SavesRunning' /\ ReadAsStored'
  BY <1>2, <1>3 DEF RInv, SavesRunning, ReadAsStored
<1>5. CASE WatchPoll(c)
  <2>1. UNCHANGED <<store, cache>>
    BY <1>5 DEF WatchPoll
  <2>2. \/ watcher'[c] = None
        \/ machine[watcher[c].sm].fsm = "idle" /\ watcher' = [watcher EXCEPT ![c].pc = "drop"]
    BY <1>1, <1>5 DEF WatchPoll
  <2>3. watcher'[c] = None \/ WaitFacts(c)'
    BY <1>1, <1>3, <2>1, <2>2 DEF WaitFacts, WatcherRecords
  <2>4. WaitedAsStored'
    BY <1>2, <2>3 DEF WaitedAsStored
  <2> QED
    BY <1>3, <1>4, <2>1, <2>4 DEF RInv, NeverStart, NewUnstarted, InSteps
<1>6. CASE WatchDrop(c)
  <2>1. store' = store /\ cache' = None /\ watcher[c].pc = "drop"
        /\ watcher' = [watcher EXCEPT ![c].pc = "erase"]
    BY <1>6 DEF WatchDrop
  <2>2. WaitFacts(c)'
    BY <1>1, <1>3, <2>1 DEF WaitFacts, WatcherRecords
  <2>3. WaitedAsStored'
    BY <1>2, <2>2 DEF WaitedAsStored
  <2> QED
    BY <1>4, <2>1, <2>3 DEF RInv, NeverStart, NewUnstarted
<1>7. CASE WatchErase(c)
  <2>1. store' = None /\ watcher'[c] = None
    BY <1>1, <1>7 DEF WatchErase, Serial
  <2> QED
    BY <1>2, <1>4, <2>1 DEF RInv, NeverStart, NewUnstarted, WaitedAsStored
<1> QED
  BY <1>5, <1>6, <1>7 DEF WatcherStep

\* Every step keeps what the refinement rests on.
LEMMA NextKeepsRead ==
    ASSUME CInv, CInv', SInv, SInv', RInv, Serial, [Next]_vars
    PROVE  RInv'
<1>1. ASSUME NEW c \in Clients, HandlerStep(c)
      PROVE  RInv'
  BY <1>1, WritingKeepsRead, GetStateMachineKeepsRead, InsertKeepsRead, CheckKeepsRead,
     RaiseKeepsRead, ReplyKeepsRead, ListedKeepsRead DEF HandlerStep
<1>2. ASSUME NEW m \in Machines, MachineStep(m)
      PROVE  RInv'
  BY <1>2, OperateKeepsRead, SaveKeepsRead DEF MachineStep
<1>3. CASE Crash
  <2>1. /\ store' = store /\ cache' = None
        /\ client' = [c \in Clients |-> None] /\ watcher' = [c \in Clients |-> None]
        /\ machine' = [m \in Machines |-> [machine[m] EXCEPT !.saving = FALSE]]
    BY <1>3 DEF Crash
  <2>2. \A m \in Machines : ~machine'[m].saving
    BY <2>1 DEF CInv, TypeOK, MachineRecords
  <2> QED
    BY <2>1, <2>2 DEF RInv, SavesRunning, NeverStart, NewUnstarted, ReadAsStored,
                      WaitedAsStored
<1>4. CASE UNCHANGED vars
  <2>1. UNCHANGED <<store, cache, machine, running, client, watcher>>
    BY <1>4 DEF vars
  <2>2. NewUnstarted'
    BY <2>1 DEF RInv, NewUnstarted, InSteps
  <2>3. ReadAsStored' /\ WaitedAsStored'
    BY <2>1 DEF RInv, ReadAsStored, ReadFacts, WaitedAsStored, WaitFacts
  <2> QED
    BY <2>1, <2>2, <2>3, StillRead DEF RInv
<1> QED
  BY <1>1, <1>2, <1>3, <1>4, NewRequestKeepsRead, WatcherKeepsRead DEF Next

\* It holds in every state that a sequence of requests leads to.
LEMMA ReadInvariance ==
    ASSUME Serial
    PROVE  Spec => []RInv
<1>1. Init => RInv
  BY DEF Init, RInv, SavesRunning, NeverStart, NewUnstarted, ReadAsStored, WaitedAsStored
<1>2. CInv /\ CInv' /\ SInv /\ SInv' /\ RInv /\ [Next]_vars => RInv'
  BY NextKeepsRead
<1> QED
  BY <1>1, <1>2, CInvariance, SerialInvariance, PTL DEF Spec
-----------------------------------------------------------------------------
\* Where no machine works there is no work.
LEMMA NoWork ==
    ASSUME Quiet
    PROVE  Work = None
BY DEF Quiet, Work

\* Nor after a step that leaves none that works.
LEMMA NoWorkAfter ==
    ASSUME Quiet'
    PROVE  Work' = None
BY DEF Quiet, Work

\* The work is that of the one machine that works.
LEMMA WorkOf ==
    ASSUME AtMostOne, NEW m \in Machines, Works(m)
    PROVE  Work = [ state |-> machine[m].fsm, config |-> machine[m].config,
                    recorded |-> ~machine[m].saving ]
<1>1. (CHOOSE n \in Machines : Works(n)) = m
  BY DEF AtMostOne
<1> QED
  BY <1>1 DEF Work

\* It is something.
LEMMA SomeWork ==
    ASSUME CInv, SInv, NEW m \in Machines, Works(m)
    PROVE  Work # None
<1>1. machine[m] \in MachineRecords
  BY DEF CInv, TypeOK
<1> DEFINE recorded == ~machine[m].saving
<1>2. recorded \in BOOLEAN /\ machine[m].fsm \in States /\ machine[m].config \in Configs
  BY <1>1 DEF MachineRecords
<1>3. Work = [state |-> machine[m].fsm, config |-> machine[m].config, recorded |-> recorded]
  BY WorkOf DEF SInv
<1> HIDE DEF recorded
<1>4. Work \in WorkRecords
  BY <1>2, <1>3 DEF WorkRecords
<1> QED
  BY <1>4, NoneAssumption

\* And so it is after a step.
LEMMA WorkAfter ==
    ASSUME AtMostOne', NEW m \in Machines, Works(m)'
    PROVE  Work' = [ state |-> machine'[m].fsm, config |-> machine'[m].config,
                     recorded |-> ~machine'[m].saving ]
<1>1. (CHOOSE n \in Machines : Works(n)') = m
  BY DEF AtMostOne
<1> QED
  BY <1>1 DEF Work

\* It does not change where no working machine does.
LEMMA WorkStays ==
    ASSUME AtMostOne, AtMostOne',
           \A m \in Machines : Works(m)' <=> Works(m),
           \A m \in Machines : Works(m) => machine'[m] = machine[m]
    PROVE  Work' = Work
<1>1. CASE Quiet
  <2>1. Quiet'
    BY <1>1 DEF Quiet
  <2> QED
    BY <1>1, <2>1, NoWork, NoWorkAfter
<1>2. CASE ~Quiet
  <2>1. PICK m \in Machines : Works(m)
    BY <1>2 DEF Quiet
  <2>2. Works(m)' /\ machine'[m] = machine[m]
    BY <2>1
  <2> QED
    BY <2>1, <2>2, WorkOf, WorkAfter
<1> QED
  BY <1>1, <1>2

\* A machine that takes an event when nothing works begins the work that the
\* stored release allows.
LEMMA StartIsStart ==
    ASSUME CInv, SInv, SInv', NEW m \in Machines, NEW e \in Events,
           Quiet, CanRaise(m, e), Entered(m, e), Begun(m, e, running[m]),
           UNCHANGED <<store, crashes>>,
           NEW kind \in {"configure", "deploy", "destroy"},
           Target(machine[m].fsm, e) = kind,
           store # None, store.state \in Lifecycle!StartsFrom[kind],
           machine[m].config = store.config
    PROVE  Lifecycle!Next
<1>1. running[m] \in SUBSET Active
  BY DEF CInv, TypeOK
<1>2. /\ machine'[m].saving /\ machine'[m].fsm = kind
      /\ machine'[m].config = store.config
  BY <1>1, EventSaves
<1>3. Works(m)'
  BY <1>2 DEF Works
<1>4. Work = None /\ Work' = [state |-> kind, config |-> store.config, recorded |-> FALSE]
  BY <1>2, <1>3, NoWork, WorkAfter DEF SInv
<1>5. kind \in DOMAIN Lifecycle!StartsFrom
  BY DEF Lifecycle!StartsFrom
<1>6. Lifecycle!Start(kind)
  BY <1>4 DEF Lifecycle!Start
<1> QED
  BY <1>5, <1>6 DEF Lifecycle!Next

\* A deployment starts from a release that is stored as idle or failed, a
\* configuration from one that is new, a destruction from one that is at rest.
LEMMA RaiseMaps ==
    ASSUME CInv, SInv, SInv', RInv, Serial, NEW c \in Clients, Raise(c)
    PROVE  Lifecycle!Next \/ UNCHANGED <<store, Work, crashes>>
<1> DEFINE m == client[c].sm
           kind == client[c].kind
           event == Request[kind]
<1>1. /\ client[c] # None /\ client[c].pc = "raise" /\ HandlerFacts(c) /\ ReadFacts(c)
      /\ watcher[c] = None /\ kind # "list"
  BY DEF Raise, At, SInv, Handled, Watched, WatcherFacts, RInv, ReadAsStored
<1>2. client[c] \in ClientRecords /\ kind \in Requests /\ m \in Machines
      /\ client[c].rel \in Releases
  BY <1>1 DEF CInv, TypeOK, Handlers, Holding, ClientRecords
<1>3. event \in Events /\ kind \in {"admit", "reconcile", "delete"}
  BY <1>1, <1>2, RequestIsEvent DEF ClientRecords, RequestKinds, Serial
<1>4. UNCHANGED <<store, crashes>>
  BY DEF Raise
<1>5. \A d \in Clients : d = c
  BY DEF Serial
<1>6. m = cache /\ store # None
  BY <1>1 DEF HandlerFacts
<1>7. machine[m].config = store.config
  BY <1>1, <1>2, <1>5, <1>6, NoneAssumption DEF SInv, CachedAsStored, InSteps
<1>8. machine[m].fsm \in States /\ store \in Releases
  BY <1>2, <1>6 DEF CInv, TypeOK, MachineRecords
<1>9. store.state = "new" => machine[m].fsm = "start"
  BY <1>1, <1>2, <1>5, <1>6, NoneAssumption DEF RInv, NewUnstarted, InSteps
<1>10. store.state # "start"
  BY <1>6 DEF RInv, NeverStart
<1>11. CASE CanRaise(m, event) /\ Entered(m, event) /\ Begun(m, event, running[m])
  <2>1. Accepts(machine[m].fsm, event)
    BY <1>11 DEF CanRaise
  <2>2. CASE kind = "admit"
    <3>1. event = "deploy" /\ machine[m].fsm = StartOf(client[c].rel)
      BY <1>1, <2>2 DEF Request, ReadFacts
    <3>2. machine[m].fsm \in {"idle", "fail"}
      BY <2>1, <3>1 DEF Accepts, Sources
    <3>3. client[c].rel.state \notin Active /\ store = client[c].rel
      BY <1>1, <3>1, <3>2 DEF StartOf, ReadFacts, Active
    <3>4. store.state \in Lifecycle!StartsFrom["deploy"]
      BY <3>1, <3>2, <3>3 DEF StartOf, Lifecycle!StartsFrom
    <3>5. Quiet
      BY <1>1, <3>3 DEF HandlerFacts
    <3>6. Target(machine[m].fsm, event) = "deploy"
      BY <3>1 DEF Target, Destination
    <3> HIDE DEF m, event
    <3> QED
      BY <1>2, <1>3, <1>4, <1>6, <1>7, <1>11, <3>4, <3>5, <3>6, StartIsStart
  <2>3. CASE kind = "reconcile"
    <3>1. client[c].rel.state = "new" /\ event = "configure"
      BY <1>1, <2>3 DEF HandlerFacts, Request
    <3>2. store = client[c].rel /\ Quiet
      BY <1>1, <3>1 DEF ReadFacts, HandlerFacts, Active
    <3>3. store.state \in Lifecycle!StartsFrom["configure"]
      BY <3>1, <3>2 DEF Lifecycle!StartsFrom
    <3>4. Target(machine[m].fsm, event) = "configure"
      BY <3>1 DEF Target, Destination
    <3> HIDE DEF m, event
    <3> QED
      BY <1>2, <1>3, <1>4, <1>6, <1>7, <1>11, <3>2, <3>3, <3>4, StartIsStart
  <2>4. CASE kind = "delete"
    <3>1. client[c].rel.state \notin Active /\ event = "destroy"
      BY <1>1, <2>4 DEF HandlerFacts, Request
    <3>2. store = client[c].rel /\ Quiet
      BY <1>1, <3>1 DEF ReadFacts, HandlerFacts
    <3>3. store.state # "new"
      BY <1>9, <2>1, <3>1 DEF Accepts, Sources
    <3>4. store.state \in Lifecycle!StartsFrom["destroy"]
      BY <1>8, <1>10, <3>1, <3>2, <3>3
         DEF Lifecycle!StartsFrom, Releases, StoredStates, States, Rest
    <3>5. Target(machine[m].fsm, event) = "destroy"
      BY <3>1 DEF Target, Destination
    <3> HIDE DEF m, event
    <3> QED
      BY <1>2, <1>3, <1>4, <1>6, <1>7, <1>11, <3>2, <3>4, <3>5, StartIsStart
  <2> QED
    BY <1>3, <2>2, <2>3, <2>4
<1>12. CASE UNCHANGED <<machine, running>>
  <2>1. \A n \in Machines : Works(n)' <=> Works(n)
    BY <1>12 DEF Works
  <2> QED
    BY <1>4, <1>12, <2>1, WorkStays DEF SInv
<1> QED
  BY <1>11, <1>12 DEF Raise

\* The deployment that follows an update starts from the idle release that the
\* update's configuration has left.
LEMMA ReplyMaps ==
    ASSUME CInv, SInv, SInv', RInv, Serial, NEW c \in Clients, Reply(c)
    PROVE  Lifecycle!Next \/ UNCHANGED <<store, Work, crashes>>
<1> DEFINE m == client[c].sm
<1>1. /\ client[c] # None /\ client[c].pc = "saved" /\ HandlerFacts(c)
      /\ ~machine[m].saving /\ UNCHANGED <<store, crashes>>
  BY DEF Reply, At, SInv, Handled
<1>2. InSteps(c, {"saved", "followed"})
  BY <1>1 DEF InSteps
<1>3. m \in Machines /\ m = cache /\ QuietBut(m)
  BY <1>1, <1>2, SettledAtRest
<1>4. store # None /\ store.state = machine[m].fsm
  BY <1>1, <1>2, ReturnedAsStored
<1>5. \A d \in Clients : d = c
  BY DEF Serial
<1>6. machine[m].config = store.config
  BY <1>1, <1>3, <1>4, <1>5, NoneAssumption DEF SInv, CachedAsStored, InSteps
<1>7. CASE machine[m].fsm = "idle" /\ Entered(m, "deploy") /\ Begun(m, "deploy", running[m])
  <2>1. running[m] = {}
    BY <1>3, <1>7 DEF SInv, OnePerMachine, CInv, TypeOK, Active
  <2>2. Quiet
    BY <1>1, <1>3, <2>1 DEF Quiet, QuietBut, Works
  <2>3. "deploy" \in Events /\ CanRaise(m, "deploy")
    BY <1>1, <1>7 DEF Events, CanRaise, Accepts, Sources
  <2>4. Target(machine[m].fsm, "deploy") = "deploy"
    BY DEF Target, Destination
  <2>5. store.state \in Lifecycle!StartsFrom["deploy"]
    BY <1>4, <1>7 DEF Lifecycle!StartsFrom
  <2> HIDE DEF m
  <2> QED
    BY <1>1, <1>3, <1>4, <1>6, <1>7, <2>2, <2>3, <2>4, <2>5, StartIsStart
<1>8. CASE UNCHANGED <<machine, running>>
  <2>1. \A n \in Machines : Works(n)' <=> Works(n)
    BY <1>8 DEF Works
  <2> QED
    BY <1>1, <1>8, <2>1, WorkStays DEF SInv
<1> QED
  BY <1>7, <1>8 DEF Reply

\* An update replaces a release that is at rest, as it was when it was read.
LEMMA UpsertMaps ==
    ASSUME CInv, SInv, SInv', RInv, Serial, NEW c \in Clients, Upsert(c)
    PROVE  Lifecycle!Next
<1>1. /\ client[c] # None /\ client[c].pc = "upsert" /\ HandlerFacts(c) /\ ReadFacts(c)
      /\ client[c].rel \in Releases
  BY DEF Upsert, At, SInv, Handled, RInv, ReadAsStored, CInv, TypeOK, ClientRecords
<1>2. client[c].rel.state = "new" /\ Quiet
  BY <1>1 DEF HandlerFacts, Active
<1>3. store' = client[c].rel /\ UNCHANGED <<machine, running, crashes>>
  BY DEF Upsert, Serial
<1>4. Quiet'
  BY <1>2, <1>3 DEF Quiet, Works
<1>5. Work = None /\ Work' = None
  BY <1>2, <1>4, NoWork, NoWorkAfter
<1> DEFINE config == client[c].rel.config
<1>6. config \in Configs /\ store' = [state |-> "new", config |-> config]
  BY <1>1, <1>2, <1>3 DEF Releases
<1>7. store # None => store.state \in {"idle", "fail"} /\ store.config # config
  BY <1>1 DEF ReadFacts
<1> HIDE DEF config
<1>8. Lifecycle!Submit(config)
  BY <1>3, <1>5, <1>6, <1>7 DEF Lifecycle!Submit
<1> QED
  BY <1>6, <1>8 DEF Lifecycle!Next

\* A goroutine that ends leads the work to a state that may follow.
LEMMA OperateMaps ==
    ASSUME CInv, SInv, SInv', NEW m \in Machines, Operate(m)
    PROVE  Lifecycle!Next
<1>1. UNCHANGED <<store, crashes>> /\ running[m] # {}
  BY DEF Operate
<1>2. machine[m].fsm \in Active /\ ~machine[m].saving
  BY OperateAccepted
<1>3. PICK event \in Results[machine[m].fsm] :
          /\ event \in Events /\ CanRaise(m, event)
          /\ Entered(m, event) /\ Begun(m, event, {})
  BY OperateAccepted
<1> DEFINE state == Target(machine[m].fsm, event)
<1>4. state \in Lifecycle!Follows[machine[m].fsm]
  BY <1>2, ResultFollows
<1>5. /\ machine'[m].saving /\ machine'[m].fsm = state
      /\ machine'[m].config = machine[m].config
  BY <1>3, EventSaves
<1> HIDE DEF state
<1>6. Works(m) /\ Works(m)'
  BY <1>1, <1>5 DEF Works
<1>7. Work = [state |-> machine[m].fsm, config |-> machine[m].config, recorded |-> TRUE]
  BY <1>2, <1>6, WorkOf DEF SInv
<1>8. Work' = [state |-> state, config |-> machine[m].config, recorded |-> FALSE]
  BY <1>5, <1>6, WorkAfter DEF SInv
<1>9. Lifecycle!Continue
  BY <1>1, <1>4, <1>6, <1>7, <1>8, SomeWork DEF Lifecycle!Continue
<1> QED
  BY <1>9 DEF Lifecycle!Next

\* The storing of a state records the work, and ends it in a state at rest.
LEMMA SaveMaps ==
    ASSUME CInv, SInv, SInv', RInv, Serial, NEW m \in Machines, Save(m)
    PROVE  Lifecycle!Next
<1>1. /\ machine[m].saving /\ UNCHANGED <<running, crashes>>
      /\ store' = [state |-> machine[m].fsm, config |-> machine[m].config]
  BY DEF Save, Serial
<1>2. /\ machine'[m].fsm = machine[m].fsm /\ machine'[m].config = machine[m].config
      /\ ~machine'[m].saving
      /\ \A n \in Machines \ {m} : machine'[n] = machine[n]
      /\ machine[m].fsm \in States
  BY DEF Save, CInv, TypeOK, MachineRecords
<1>3. Works(m)
  BY <1>1 DEF Works
<1>4. Work = [state |-> machine[m].fsm, config |-> machine[m].config, recorded |-> FALSE]
  BY <1>1, <1>3, WorkOf DEF SInv
<1>5. running[m] # {} <=> machine[m].fsm \in Active
  BY <1>1 DEF RInv, SavesRunning, SInv, OnePerMachine, CInv, TypeOK
<1>6. DOMAIN Lifecycle!Follows = Active
  BY DEF Lifecycle!Follows, Active
<1>7. CASE machine[m].fsm \in Active
  <2>1. Works(m)'
    BY <1>1, <1>5, <1>7 DEF Works
  <2>2. Work' = [state |-> machine[m].fsm, config |-> machine[m].config, recorded |-> TRUE]
    BY <1>2, <2>1, WorkAfter DEF SInv
  <2>3. Lifecycle!Record
    BY <1>1, <1>3, <1>4, <1>6, <1>7, <2>2, SomeWork DEF Lifecycle!Record
  <2> QED
    BY <2>3 DEF Lifecycle!Next
<1>8. CASE machine[m].fsm \notin Active
  <2>1. \A n \in Machines \ {m} : ~Works(n)
    BY <1>3 DEF SInv, AtMostOne
  <2>2. Quiet'
    BY <1>1, <1>2, <1>5, <1>8, <2>1 DEF Quiet, Works
  <2>3. Lifecycle!Record
    BY <1>1, <1>3, <1>4, <1>6, <1>8, <2>2, NoWorkAfter, SomeWork DEF Lifecycle!Record
  <2> QED
    BY <2>3 DEF Lifecycle!Next
<1> QED
  BY <1>7, <1>8

\* What is removed is idle, and perhaps not yet recorded to be.
LEMMA EraseMaps ==
    ASSUME CInv, SInv, SInv', RInv, Serial, NEW c \in Clients, WatchErase(c)
    PROVE  Lifecycle!Next
<1> DEFINE m == watcher[c].sm
<1>1. /\ watcher[c] # None /\ watcher[c].pc = "erase" /\ store' = None
      /\ UNCHANGED <<machine, running, crashes>>
  BY DEF WatchErase, Serial
<1>2. WatcherFacts(c) /\ WaitFacts(c) /\ m \in Machines
  BY <1>1 DEF SInv, Watched, RInv, WaitedAsStored, CInv, TypeOK, WatcherRecords
<1>3. /\ store # None /\ machine[m].fsm = "idle" /\ running[m] = {}
      /\ QuietBut(m)
      /\ ~machine[m].saving => store.state = "idle"
  BY <1>1, <1>2 DEF WatcherFacts, WaitFacts
<1> HIDE DEF m
<1>4. \A n \in Machines : Works(n)' <=> Works(n)
  BY <1>1 DEF Works
<1>5. Work' = Work
  BY <1>1, <1>4, WorkStays DEF SInv
<1>6. CASE machine[m].saving
  <2>1. Works(m)
    BY <1>6 DEF Works
  <2>2. Work # None /\ Work.state = "idle"
    BY <1>2, <1>3, <2>1, SomeWork, WorkOf DEF SInv
  <2>3. Lifecycle!Remove
    BY <1>1, <1>3, <1>5, <2>2 DEF Lifecycle!Remove
  <2> QED
    BY <2>3 DEF Lifecycle!Next
<1>7. CASE ~machine[m].saving
  <2>1. Quiet
    BY <1>3, <1>7 DEF Quiet, QuietBut, Works
  <2>2. Lifecycle!Remove
    BY <1>1, <1>3, <1>5, <1>7, <2>1, NoWork DEF Lifecycle!Remove
  <2> QED
    BY <2>2 DEF Lifecycle!Next
<1> QED
  BY <1>6, <1>7

\* Everything else is done out of sight.
LEMMA RestMaps ==
    ASSUME CInv, SInv, SInv', NEW c \in Clients,
           \/ NewRequest(c) \/ Drop(c) \/ GetStateMachine(c) \/ Insert(c)
           \/ Check(c) \/ Listed(c) \/ WatchPoll(c) \/ WatchDrop(c)
    PROVE  UNCHANGED <<store, Work, crashes>>
<1>1. CASE GetStateMachine(c)
  <2>1. UNCHANGED <<store, running, crashes>>
    BY <1>1 DEF GetStateMachine
  <2>2. CASE machine' = machine
    <3>1. \A n \in Machines : Works(n)' <=> Works(n)
      BY <2>1, <2>2 DEF Works
    <3> QED
      BY <2>1, <2>2, <3>1, WorkStays DEF SInv
  <2>3. ASSUME NEW m \in Machines, Unused(m), NewMachine(m, client[c].rel)
        PROVE  Work' = Work
    <3>1. ~Works(m) /\ ~machine'[m].saving /\ running[m] = {}
      BY <2>3 DEF Unused, Works, NewMachine, CInv, TypeOK
    <3>2. \A n \in Machines \ {m} : machine'[n] = machine[n]
      BY <2>3 DEF NewMachine, CInv, TypeOK
    <3>3. \A n \in Machines : Works(n)' <=> Works(n)
      BY <2>1, <3>1, <3>2 DEF Works
    <3>4. \A n \in Machines : Works(n) => machine'[n] = machine[n]
      BY <3>1, <3>2
    <3> QED
      BY <3>3, <3>4, WorkStays DEF SInv
  <2> QED
    BY <1>1, <2>1, <2>2, <2>3 DEF GetStateMachine
<1>2. CASE \/ NewRequest(c) \/ Drop(c) \/ Insert(c) \/ Check(c) \/ Listed(c)
           \/ WatchPoll(c) \/ WatchDrop(c)
  <2>1. UNCHANGED <<store, machine, running, crashes>>
    BY <1>2 DEF NewRequest, Admit, Delete, List, Post, Reconcile, Handle, Drop, Insert,
                Check, Listed, WatchPoll, WatchDrop
  <2>2. \A n \in Machines : Works(n)' <=> Works(n)
    BY <2>1 DEF Works
  <2> QED
    BY <2>1, <2>2, WorkStays DEF SInv
<1> QED
  BY <1>1, <1>2

\* Every step is one of the sequential release, or none.
LEMMA NextMaps ==
    ASSUME CInv, SInv, SInv', RInv, Serial, [Next]_vars
    PROVE  [Lifecycle!Next]_(Lifecycle!vars)
<1>1. ASSUME NEW c \in Clients, NewRequest(c) \/ HandlerStep(c) \/ WatcherStep(c)
      PROVE  Lifecycle!Next \/ UNCHANGED <<store, Work, crashes>>
  BY <1>1, RestMaps, RaiseMaps, ReplyMaps, UpsertMaps, EraseMaps DEF HandlerStep, WatcherStep
<1>2. ASSUME NEW m \in Machines, MachineStep(m)
      PROVE  Lifecycle!Next
  BY <1>2, OperateMaps, SaveMaps DEF MachineStep
<1>3. CASE Crash
  <2>1. /\ running' = [m \in Machines |-> {}] /\ crashes' = crashes + 1 /\ store' = store
        /\ machine' = [m \in Machines |-> [machine[m] EXCEPT !.saving = FALSE]]
    BY <1>3 DEF Crash
  <2>2. \A m \in Machines : ~machine'[m].saving
    BY <2>1 DEF CInv, TypeOK, MachineRecords
  <2>3. Quiet'
    BY <2>1, <2>2 DEF Quiet, Works
  <2>4. Lifecycle!Restart
    BY <2>1, <2>3, NoWorkAfter DEF Lifecycle!Restart
  <2> QED
    BY <2>4 DEF Lifecycle!Next
<1>4. CASE UNCHANGED vars
  <2>1. UNCHANGED <<store, machine, running, crashes>>
    BY <1>4 DEF vars
  <2>2. \A n \in Machines : Works(n)' <=> Works(n)
    BY <2>1 DEF Works
  <2> QED
    BY <2>1, <2>2, WorkStays DEF SInv, Lifecycle!vars
<1> QED
  BY <1>1, <1>2, <1>3, <1>4 DEF Next, Lifecycle!vars

\* Admission, the operator, the API and the goroutines of the machines together
\* implement one release that is worked on sequentially, if requests come one
\* after another: what a handler has read is still so when it acts on it.
THEOREM ImplementsLifecycle ==
    ASSUME Serial
    PROVE  Spec => Sequential
<1>1. Init => Lifecycle!Init
  <2>1. ASSUME Init
        PROVE  Quiet
    BY <2>1 DEF Init, Quiet, Works
  <2> QED
    BY <2>1, NoWork DEF Init, Lifecycle!Init
<1>2. CInv /\ SInv /\ SInv' /\ RInv /\ [Next]_vars => [Lifecycle!Next]_(Lifecycle!vars)
  BY NextMaps
<1> QED
  BY <1>1, <1>2, CInvariance, SerialInvariance, ReadInvariance, PTL
     DEF Spec, Sequential, Lifecycle!Spec
=============================================================================
