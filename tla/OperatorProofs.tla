--------------------------- MODULE OperatorProofs ---------------------------
(***************************************************************************)
(* The type invariant of Operator, and that no release is left without an  *)
(* object, for any number of machines, objects, changes and faults, and    *)
(* for patient users and impatient ones.                                   *)
(***************************************************************************)
EXTENDS Operator, TLAPS

\* No deletion has gone wrong so far.
Sound == "deletion" \notin spoilt

\* An object that is marked as deleted has the finalizer, and so has one that is
\* reconciled, but for the finalizer's addition.
Held ==
    /\ object # None /\ object.deleting => object.finalizer
    /\ worker # None /\ worker.pc # "addFinalizer" => object # None /\ object.finalizer

\* What is deployed is a machine that was configured, and the release with it.
HasMachine ==
    worker # None /\ worker.pc = "deploy" =>
        /\ worker.sm \in Machines
        /\ store # None => store.state # "new"

\* A release is stored as new, or in a state that follows an event.
NeverStart == store # None => store.state # "start"

\* Where a release stays new, its configuration was cut off by a crash: nothing
\* works on it, and its machine, if there is one, has never started.
LeftNew ==
    store # None /\ store.state = "new" /\ ~At("configure") =>
        /\ ~AtWork /\ "crash" \in spoilt
        /\ cache # None => machine[cache].state = "start"

\* Nothing works on a release that has been removed.
RemovedAtRest == store = None => ~AtWork

\* A machine, or a release, that is being destroyed is waited for.
DestroyWatched ==
    /\ cache # None /\ machine[cache].state = "destroy" => watcher # {}
    /\ store # None /\ store.state = "destroy" => watcher # {}

\* A machine that has never started has a release that is new.
UnstartedIsNew ==
    cache # None /\ machine[cache].state = "start" /\ ~At("configure")
    => store # None /\ store.state = "new"

\* What NoOrphan asks of the release.
Gone == store = None \/ watcher # {} \/ (store.state = "new" /\ "crash" \in spoilt)

\* The release is gone when nothing holds its object any more.
GoneUnheld ==
    object = None \/ ~object.finalizer \/ At("removeFinalizer") => Gone

Deletions == RemovedAtRest /\ DestroyWatched /\ UnstartedIsNew /\ GoneUnheld

\* The inductive invariant.
Inv ==
    /\ TypeOK /\ Held /\ HasMachine /\ NeverStart /\ LeftNew
    /\ Sound => Deletions
-----------------------------------------------------------------------------
\* Where an event leads.
LEMMA TargetIsState ==
    ASSUME NEW state, NEW event \in Events
    PROVE  /\ Target(state, event) \in States \ {"start"}
           /\ Target(state, event) = "destroy" => event = "destroy"
           /\ Target(state, "destroy") = "destroy"
           /\ Target(state, "deploy") = "deploy"
           /\ Target(state, "configure") = "configure"
BY DEF Target, Destination, Events, States, Active, Rest

\* The variables at their types.
LEMMA Typed ==
    ASSUME TypeOK
    PROVE  /\ object \in Objects \cup {None} /\ made \in 0..MaxObjects /\ queued \in BOOLEAN
           /\ worker \in Reconciles \cup {None} /\ store \in Stored \cup {None}
           /\ cache \in Machines \cup {None} /\ watcher \in SUBSET Machines
           /\ machine \in [Machines -> [config : Configs, state : States]]
           /\ running \in [Machines -> SUBSET Active]
           /\ disturbances \in 0..MaxDisturbances /\ spoilt \in SUBSET Spoilers
BY DEF TypeOK

\* A machine that takes an event.
LEMMA EnterLeads ==
    ASSUME TypeOK, NEW m \in Machines, NEW config \in Configs, NEW state,
           NEW event \in Events, NEW left \in SUBSET Active,
           Enter(m, config, state, event, left)
    PROVE  /\ machine' \in [Machines -> [config : Configs, state : States]]
           /\ running' \in [Machines -> SUBSET Active]
           /\ store' \in Stored /\ store' # None
           /\ store'.state = Target(state, event) /\ store'.state \notin {"new", "start"}
           /\ machine'[m].state = Target(state, event)
           /\ \A x \in Machines \ {m} : machine'[x] = machine[x] /\ running'[x] = running[x]
<1>1. Target(state, event) \in States \ {"start"}
  BY TargetIsState
<1>2. "new" \notin States
  BY DEF States, Active, Rest
<1>3. [config |-> config, state |-> Target(state, event)] \in [config : Configs, state : States]
  BY <1>1
<1>4. machine' = [machine EXCEPT ![m] = [config |-> config, state |-> Target(state, event)]]
      /\ store' = [config |-> config, state |-> Target(state, event)]
  BY DEF Enter
<1>5. running' = [running EXCEPT ![m] = left \cup ({Target(state, event)} \cap Active)]
  BY DEF Enter
<1>6. store' \in Stored /\ store'.state = Target(state, event)
  BY <1>3, <1>4 DEF Stored
<1>7. store' # None
  BY <1>6, NoneAssumption
<1>8. machine' \in [Machines -> [config : Configs, state : States]]
      /\ machine'[m].state = Target(state, event)
      /\ \A x \in Machines \ {m} : machine'[x] = machine[x]
  BY <1>3, <1>4 DEF TypeOK
<1>9. running' \in [Machines -> SUBSET Active]
      /\ \A x \in Machines \ {m} : running'[x] = running[x]
  BY <1>5 DEF TypeOK
<1> QED
  BY <1>1, <1>2, <1>6, <1>7, <1>8, <1>9

\* A machine that is made of a release and does not take the event.
LEMMA BuiltLeads ==
    ASSUME TypeOK, NEW m \in Machines, NEW config \in Configs, NEW state \in States,
           machine' = [machine EXCEPT ![m] = [config |-> config, state |-> state]]
    PROVE  /\ machine' \in [Machines -> [config : Configs, state : States]]
           /\ machine'[m].state = state
           /\ \A x \in Machines \ {m} : machine'[x] = machine[x]
BY DEF TypeOK

\* The machine that is made is one nothing refers to.
LEMMA FreshUnused ==
    ASSUME Room
    PROVE  Fresh \in Machines /\ Unused(Fresh)
BY DEF Room, Fresh

\* The machine of a release and its state.
LEMMA CurrentTyped ==
    ASSUME TypeOK, store # None, cache # None \/ Room
    PROVE  /\ Current \in Machines /\ CurrentState \in States /\ CurrentConfig \in Configs
           /\ Loaded(store) \in States /\ store.config \in Configs
<1>1. store \in Stored /\ cache \in Machines \cup {None}
      /\ machine \in [Machines -> [config : Configs, state : States]]
  BY DEF TypeOK
<1>2. store.config \in Configs /\ store.state \in States \cup {"new"}
  BY <1>1 DEF Stored
<1>3. Loaded(store) \in States
  BY <1>2 DEF Loaded, States, Rest
<1>4. CASE cache # None
  BY <1>1, <1>2, <1>3, <1>4 DEF Current, CurrentState, CurrentConfig
<1>5. CASE cache = None
  BY <1>2, <1>3, <1>5, FreshUnused DEF Current, CurrentState, CurrentConfig
<1> QED
  BY <1>2, <1>3, <1>4, <1>5

\* Disturbances are bounded.
LEMMA FaultTyped ==
    ASSUME TypeOK, Fault \/ NoFault
    PROVE  disturbances' \in 0..MaxDisturbances
BY OperatorAssumption DEF TypeOK, Fault, NoFault

\* What spoils a deletion stays.
LEMMA SpoilsTyped ==
    ASSUME TypeOK, NEW what \in Spoilers, NEW happened, Spoils(what, happened)
    PROVE  /\ spoilt' \in SUBSET Spoilers /\ spoilt \subseteq spoilt'
           /\ happened => what \in spoilt'
BY DEF TypeOK, Spoils
-----------------------------------------------------------------------------
\* A step that leaves the release, its machines and its deletion alone.
LEMMA QuietKeeps ==
    ASSUME Inv, UNCHANGED <<release, watcher, spoilt>>,
           At("configure")' <=> At("configure"),
           TypeOK', Held', HasMachine', Sound => GoneUnheld'
    PROVE  Inv'
<1>1. /\ store' = store /\ cache' = cache /\ machine' = machine /\ running' = running
      /\ watcher' = watcher /\ spoilt' = spoilt
  BY DEF release
<1>2. AtWork' = AtWork /\ Sound' = Sound
  BY <1>1 DEF AtWork, Sound
<1>3. NeverStart' /\ LeftNew'
  BY <1>1, <1>2 DEF Inv, NeverStart, LeftNew
<1>4. ASSUME Sound
      PROVE  Deletions'
  BY <1>1, <1>2, <1>4 DEF Inv, Deletions, RemovedAtRest, DestroyWatched, UnstartedIsNew
<1> QED
  BY <1>2, <1>3, <1>4 DEF Inv

\* What users do: an object that is made has no finalizer, one that goes at once
\* had none, and a change keeps it.
LEMMA UsersKeepInv ==
    ASSUME Inv, Create \/ Change \/ Delete
    PROVE  Inv'
<1>0. TypeOK /\ Held /\ HasMachine /\ (Sound => GoneUnheld)
  BY DEF Inv, Deletions
<1>1. /\ worker' = worker /\ UNCHANGED <<release, watcher, spoilt>> /\ queued' = TRUE
      /\ disturbances' = disturbances
  BY DEF Create, Change, Delete, noise
<1>2. /\ cache' = cache /\ machine' = machine /\ running' = running /\ store' = store
      /\ watcher' = watcher /\ spoilt' = spoilt
  BY <1>1 DEF release
<1>3. \A step : At(step)' = At(step)
  BY <1>1 DEF At
<1>4. /\ object' \in Objects \cup {None} /\ made' \in 0..MaxObjects
      /\ object # None /\ object.finalizer => object' # None /\ object'.finalizer
      /\ object' # None /\ object'.deleting => object'.finalizer
  <2>1. CASE Create
    <3> DEFINE new == [ config |-> [object |-> made + 1, generation |-> 1],
                        finalizer |-> FALSE, deleting |-> FALSE ]
    <3>1. made + 1 \in 1..MaxObjects /\ 1 \in 1..MaxGenerations
      BY <1>0, <2>1, OperatorAssumption, Typed DEF Create
    <3>2. new \in Objects
      BY <3>1 DEF Objects, Configs
    <3>3. object = None /\ object' = new /\ made' = made + 1 /\ ~new.deleting
      BY <2>1 DEF Create
    <3> HIDE DEF new
    <3> QED
      BY <3>1, <3>2, <3>3
  <2>2. CASE Change
    <3>1. object \in Objects /\ object # None /\ made' = made
      BY <1>0, <2>2, Typed DEF Change
    <3>2. object.config \in Configs /\ object.config.generation + 1 \in 1..MaxGenerations
      BY <2>2, <3>1, OperatorAssumption DEF Objects, Configs, Change
    <3>3. PICK g \in 1..MaxGenerations : object' = [object EXCEPT !.config.generation = g]
      BY <2>2, <3>2 DEF Change
    <3>4. /\ object' \in Objects /\ object'.finalizer = object.finalizer
          /\ object'.deleting = object.deleting
      BY <3>1, <3>2, <3>3 DEF Objects, Configs
    <3> QED
      BY <1>0, <3>1, <3>4, NoneAssumption, Typed DEF Held
  <2>3. CASE Delete
    <3>1. object \in Objects /\ object # None /\ made' = made
      BY <1>0, <2>3, Typed DEF Delete
    <3>2. CASE object.finalizer
      <4>1. object' = [object EXCEPT !.deleting = TRUE]
        BY <2>3, <3>2 DEF Delete
      <4>2. object' \in Objects /\ object'.finalizer
        BY <3>1, <3>2, <4>1 DEF Objects
      <4> QED
        BY <1>0, <3>1, <4>2, NoneAssumption, Typed
    <3>3. CASE ~object.finalizer
      BY <1>0, <2>3, <3>1, <3>3, Typed DEF Delete
    <3> QED
      BY <3>2, <3>3
  <2> QED
    BY <2>1, <2>2, <2>3
<1>5. TypeOK'
  BY <1>0, <1>1, <1>2, <1>4 DEF TypeOK
<1>6. Held' /\ HasMachine'
  BY <1>0, <1>1, <1>2, <1>4 DEF Held, HasMachine
<1>7. ASSUME Sound
      PROVE  GoneUnheld'
  BY <1>0, <1>2, <1>3, <1>4, <1>7 DEF GoneUnheld, Gone
<1> QED
  BY <1>1, <1>3, <1>5, <1>6, <1>7, QuietKeeps

\* A record of a Reconcile, at another step.
LEMMA GotoTyped ==
    ASSUME TypeOK, worker # None, NEW step \in Steps
    PROVE  LET next == [worker EXCEPT !.pc = step]
           IN  /\ next \in Reconciles /\ next # None /\ next.pc = step
               /\ next.obj = worker.obj /\ next.sm = worker.sm
<1>1. worker \in Reconciles
  BY Typed
<1> DEFINE next == [worker EXCEPT !.pc = step]
<1>2. /\ next \in Reconciles /\ next.pc = step
      /\ next.obj = worker.obj /\ next.sm = worker.sm
  BY <1>1 DEF Reconciles
<1>3. next # None
  BY <1>2, NoneAssumption
<1> QED
  BY <1>2, <1>3

\* A Reconcile begins.
LEMMA ReconcileKeepsInv ==
    ASSUME Inv, Reconcile
    PROVE  Inv'
<1>0. TypeOK /\ Held /\ HasMachine /\ (Sound => GoneUnheld)
  BY DEF Inv, Deletions
<1>1. /\ UNCHANGED <<release, watcher, spoilt>> /\ queued' = FALSE /\ worker = None
      /\ disturbances' = disturbances /\ object' = object /\ made' = made
  BY DEF Reconcile, noise, kubernetes
<1>2. /\ cache' = cache /\ machine' = machine /\ running' = running /\ store' = store
      /\ watcher' = watcher /\ spoilt' = spoilt
  BY <1>1 DEF release
<1>3. CASE worker' = None
  <2>1. TypeOK' /\ Held' /\ HasMachine'
    BY <1>0, <1>1, <1>2, <1>3 DEF TypeOK, Held, HasMachine
  <2>2. \A step : ~At(step) /\ ~At(step)'
    BY <1>1, <1>3 DEF At
  <2>3. Sound => GoneUnheld'
    BY <1>0, <1>1, <1>2, <2>2 DEF GoneUnheld, Gone
  <2> QED
    BY <1>1, <2>1, <2>2, <2>3, QuietKeeps
<1>4. ASSUME NEW step \in {"delete", "update", "addFinalizer"}, object # None,
             worker' = [obj |-> object, sm |-> None, pc |-> step],
             step = "update" => object.finalizer,
             step = "delete" => object.deleting
      PROVE  Inv'
  <2>1. worker' \in Reconciles /\ worker' # None /\ worker'.pc = step
    <3>1. worker' \in Reconciles
      BY <1>0, <1>4, Typed DEF Reconciles, Steps
    <3> QED
      BY <1>4, <3>1, NoneAssumption
  <2>2. TypeOK'
    BY <1>0, <1>1, <1>2, <2>1 DEF TypeOK
  <2>3. Held' /\ HasMachine'
    BY <1>0, <1>1, <1>4, <2>1 DEF Held, HasMachine
  <2>4. ~At("configure") /\ ~At("configure")' /\ ~At("removeFinalizer")'
    BY <1>1, <2>1 DEF At
  <2>5. Sound => GoneUnheld'
    BY <1>0, <1>1, <1>2, <2>4 DEF GoneUnheld, Gone
  <2> QED
    BY <1>1, <2>2, <2>3, <2>4, <2>5, QuietKeeps
<1>5. object = None => worker' = None
  BY DEF Reconcile
<1>6. ASSUME object # None
      PROVE  \E step \in {"delete", "update", "addFinalizer"} :
               /\ worker' = [obj |-> object, sm |-> None, pc |-> step]
               /\ step = "update" => object.finalizer
               /\ step = "delete" => object.deleting
  BY <1>6 DEF Reconcile
<1> QED
  BY <1>3, <1>4, <1>5, <1>6

\* An update of the object is refused or fails, which changes nothing.
LEMMA UpdateLeads ==
    ASSUME TypeOK, NEW next, Update(next)
    PROVE  /\ worker' = None /\ queued' = TRUE
           /\ disturbances' \in 0..MaxDisturbances
           /\ object' = object \/ (object = worker.obj /\ object' = next)
<1>1. NoFault \/ Fault
  BY DEF Update
<1>2. disturbances' \in 0..MaxDisturbances
  BY <1>1, FaultTyped
<1> QED
  BY <1>2 DEF Update, Requeue

\* The finalizer is added, or not; it is removed when the release is gone, or not.
LEMMA FinalizerKeepsInv ==
    ASSUME Inv, AddFinalizer \/ RemoveFinalizer
    PROVE  Inv'
<1>0. TypeOK /\ Held /\ HasMachine /\ (Sound => GoneUnheld)
  BY DEF Inv, Deletions
<1>1. /\ UNCHANGED <<release, watcher, spoilt>> /\ worker # None /\ made' = made
      /\ ~At("configure")
  BY DEF AddFinalizer, RemoveFinalizer, At
<1>2. /\ cache' = cache /\ machine' = machine /\ running' = running /\ store' = store
      /\ watcher' = watcher /\ spoilt' = spoilt
  BY <1>1 DEF release
<1>3. PICK next :
        /\ Update(next)
        /\ \/ At("addFinalizer") /\ next = [worker.obj EXCEPT !.finalizer = TRUE]
           \/ At("removeFinalizer") /\ next = None
  BY DEF AddFinalizer, RemoveFinalizer
<1>4. /\ worker' = None /\ queued' = TRUE /\ disturbances' \in 0..MaxDisturbances
      /\ object' = object \/ (object = worker.obj /\ object' = next)
  BY <1>0, <1>3, UpdateLeads
<1>5. \A step : ~At(step)'
  BY <1>4 DEF At
<1>6. CASE object' = object
  <2>1. TypeOK' /\ Held' /\ HasMachine'
    BY <1>0, <1>1, <1>2, <1>4, <1>6 DEF TypeOK, Held, HasMachine
  <2>2. Sound => GoneUnheld'
    BY <1>0, <1>2, <1>5, <1>6 DEF GoneUnheld, Gone
  <2> QED
    BY <1>1, <1>5, <2>1, <2>2, QuietKeeps
<1>7. CASE At("addFinalizer") /\ object' = [worker.obj EXCEPT !.finalizer = TRUE]
  <2>1. worker.obj \in Objects
    BY <1>0, <1>1, Typed DEF Reconciles
  <2>2. object' \in Objects /\ object'.finalizer
    BY <1>7, <2>1 DEF Objects
  <2>3. TypeOK' /\ Held' /\ HasMachine'
    BY <1>0, <1>1, <1>2, <1>4, <2>2 DEF TypeOK, Held, HasMachine
  <2>4. GoneUnheld'
    BY <1>5, <2>2, NoneAssumption DEF GoneUnheld
  <2> QED
    BY <1>1, <1>5, <2>3, <2>4, QuietKeeps
<1>8. CASE At("removeFinalizer") /\ object' = None
  <2>1. TypeOK' /\ Held' /\ HasMachine'
    BY <1>0, <1>1, <1>2, <1>4, <1>8 DEF TypeOK, Held, HasMachine
  <2>2. Sound => GoneUnheld'
    BY <1>0, <1>2, <1>8 DEF GoneUnheld, Gone
  <2> QED
    BY <1>1, <1>5, <2>1, <2>2, QuietKeeps
<1> QED
  BY <1>3, <1>4, <1>6, <1>7, <1>8

\* The release is found as it should be, at work, or to be written.
LEMMA UpdateReleaseKeepsInv ==
    ASSUME Inv, UpdateRelease
    PROVE  Inv'
<1>0. TypeOK /\ Held /\ HasMachine /\ (Sound => GoneUnheld)
  BY DEF Inv, Deletions
<1>1. /\ UNCHANGED <<release, watcher, spoilt>> /\ worker # None /\ worker.pc = "update"
      /\ object' = object /\ made' = made
  BY DEF UpdateRelease, At, kubernetes
<1>2. /\ cache' = cache /\ machine' = machine /\ running' = running /\ store' = store
      /\ watcher' = watcher /\ spoilt' = spoilt
  BY <1>1 DEF release
<1>3. NoFault \/ Fault
  BY DEF UpdateRelease
<1>4. disturbances' \in 0..MaxDisturbances
  BY <1>0, <1>3, FaultTyped
<1>5. /\ worker' = None \/ worker' = [worker EXCEPT !.pc = "upsert"]
      /\ queued' \in BOOLEAN
  BY <1>0, Typed DEF UpdateRelease, Done, Requeue, Goto
<1>6. /\ worker' \in Reconciles \cup {None}
      /\ worker' # None => worker'.pc = "upsert"
  BY <1>0, <1>1, <1>5, GotoTyped DEF Steps
<1>7. TypeOK'
  BY <1>0, <1>1, <1>2, <1>4, <1>5, <1>6 DEF TypeOK
<1>8. Held' /\ HasMachine'
  BY <1>0, <1>1, <1>6 DEF Held, HasMachine
<1>9. ~At("configure") /\ ~At("configure")' /\ ~At("removeFinalizer")'
  BY <1>1, <1>6 DEF At
<1>10. Sound => GoneUnheld'
  BY <1>0, <1>1, <1>2, <1>9 DEF GoneUnheld, Gone
<1> QED
  BY <1>1, <1>7, <1>8, <1>9, <1>10, QuietKeeps

-----------------------------------------------------------------------------
\* A step by which a machine takes an event.
LEMMA EnteredKeeps ==
    ASSUME store' # None, store'.state \notin {"new", "start"},
           TypeOK', Held', worker' # None /\ worker'.pc = "deploy" => worker'.sm \in Machines,
           Sound' => DestroyWatched' /\ UnstartedIsNew' /\ GoneUnheld'
    PROVE  Inv'
<1>1. NeverStart' /\ LeftNew' /\ HasMachine' /\ RemovedAtRest'
  BY DEF NeverStart, LeftNew, HasMachine, RemovedAtRest
<1> QED
  BY <1>1 DEF Inv, Deletions

\* What goes on while a goroutine is at work: the release is neither removed,
\* nor left new, nor is its machine one that has never started.
LEMMA WorkingFacts ==
    ASSUME Inv, Sound, AtWork
    PROVE  /\ store # None
           /\ ~At("configure") => store.state # "new"
           /\ cache # None /\ ~At("configure") => machine[cache].state # "start"
           /\ object = None \/ ~object.finalizer \/ At("removeFinalizer") => watcher # {}
<1>1. /\ RemovedAtRest /\ UnstartedIsNew /\ GoneUnheld /\ LeftNew /\ Held
  BY DEF Inv, Deletions
<1>2. store # None
  BY <1>1 DEF RemovedAtRest
<1>3. ~At("configure") => store.state # "new"
  BY <1>1, <1>2 DEF LeftNew
<1>4. cache # None /\ ~At("configure") => machine[cache].state # "start"
  BY <1>1, <1>3 DEF UnstartedIsNew
<1>5. ASSUME object = None \/ ~object.finalizer \/ At("removeFinalizer")
      PROVE  watcher # {}
  <2>1. ~At("configure")
    BY <1>1, <1>5 DEF Held, At
  <2> QED
    BY <1>1, <1>2, <1>3, <1>5, <2>1 DEF GoneUnheld, Gone
<1> QED
  BY <1>2, <1>3, <1>4, <1>5

\* A goroutine ends.
LEMMA OperateKeepsInv ==
    ASSUME Inv, NEW m \in Machines, NEW kind, NEW event, Operate(m, kind, event)
    PROVE  Inv'
<1> DEFINE left == running[m] \ {kind}
<1>0. TypeOK /\ Held /\ HasMachine /\ NeverStart /\ LeftNew
  BY DEF Inv
<1>1. /\ object' = object /\ made' = made /\ queued' = queued /\ worker' = worker
      /\ cache' = cache /\ watcher' = watcher /\ disturbances' = disturbances
      /\ spoilt' = spoilt /\ kind \in running[m]
  BY DEF Operate, kubernetes, noise
<1>2. AtWork /\ kind \in Active
  BY <1>0, <1>1, Typed DEF AtWork
<1>3. event \in Events \ {"destroy"}
  BY <1>2 DEF Operate, Results, Active, Events
<1>4. left \in SUBSET Active /\ machine[m].config \in Configs
  BY <1>0, Typed
<1>5. \A step : At(step)' <=> At(step)
  BY <1>1 DEF At
<1>6. Held' /\ Sound' = Sound
  BY <1>0, <1>1 DEF Held, Sound
<1>7. CASE Enter(m, machine[m].config, machine[m].state, event, left)
  <2>1. /\ machine' \in [Machines -> [config : Configs, state : States]]
        /\ running' \in [Machines -> SUBSET Active]
        /\ store' \in Stored /\ store' # None
        /\ store'.state = Target(machine[m].state, event)
        /\ store'.state \notin {"new", "start"}
        /\ machine'[m].state = Target(machine[m].state, event)
        /\ \A x \in Machines \ {m} : machine'[x] = machine[x]
    BY <1>0, <1>3, <1>4, <1>7, EnterLeads
  <2>2. store'.state # "destroy" /\ machine'[m].state \notin {"start", "destroy"}
    BY <1>3, <2>1, TargetIsState
  <2>3. TypeOK'
    BY <1>0, <1>1, <2>1 DEF TypeOK
  <2>4. cache \in Machines \cup {None}
    BY <1>0, Typed
  <2>5. ASSUME Sound
        PROVE  DestroyWatched' /\ UnstartedIsNew' /\ GoneUnheld'
    <3>1. DestroyWatched
      BY <2>5 DEF Inv, Deletions
    <3>2. DestroyWatched'
      BY <1>1, <2>1, <2>2, <2>4, <3>1 DEF DestroyWatched
    <3>3. UnstartedIsNew'
      BY <1>1, <1>2, <1>5, <2>1, <2>2, <2>4, <2>5, WorkingFacts DEF UnstartedIsNew
    <3>4. GoneUnheld'
      BY <1>1, <1>2, <1>5, <2>5, WorkingFacts DEF GoneUnheld, Gone
    <3> QED
      BY <3>2, <3>3, <3>4
  <2> QED
    BY <1>0, <1>1, <1>6, <2>1, <2>3, <2>5, EnteredKeeps DEF HasMachine
<1>8. CASE /\ running' = [running EXCEPT ![m] = left]
           /\ store' = store /\ machine' = machine
  <2>1. TypeOK'
    <3>1. running' \in [Machines -> SUBSET Active]
      BY <1>0, <1>4, <1>8, Typed
    <3> QED
      BY <1>0, <1>1, <1>8, <3>1 DEF TypeOK
  <2>2. AtWork' => AtWork
    BY <1>2
  <2>3. HasMachine' /\ NeverStart' /\ LeftNew'
    BY <1>0, <1>1, <1>2, <1>5, <1>8 DEF HasMachine, NeverStart, LeftNew
  <2>4. ASSUME Sound
        PROVE  Deletions'
    BY <1>1, <1>2, <1>5, <1>8, <2>4, WorkingFacts
       DEF Inv, Deletions, RemovedAtRest, DestroyWatched, UnstartedIsNew, GoneUnheld, Gone
  <2> QED
    BY <1>6, <2>1, <2>3, <2>4 DEF Inv
<1> QED
  BY <1>7, <1>8 DEF Operate

\* Admission replaces the machine.
LEMMA AdmitKeepsInv ==
    ASSUME Inv, Admit
    PROVE  Inv'
<1>0. TypeOK /\ Held /\ HasMachine /\ NeverStart /\ LeftNew
  BY DEF Inv
<1>1. /\ object' = object /\ made' = made /\ queued' = queued /\ worker' = worker
      /\ watcher' = watcher /\ Fault /\ Room /\ store # None /\ cache' = Fresh
      /\ CurrentState \in {"idle", "fail"}
      /\ Spoils("deletion", watcher # {} \/ object = None)
  BY DEF Admit, kubernetes
<1>2. /\ Fresh \in Machines /\ Fresh # None /\ Loaded(store) \in States
      /\ store.config \in Configs
  BY <1>0, <1>1, FreshUnused, CurrentTyped, NoneAssumption
<1>3. /\ disturbances' \in 0..MaxDisturbances /\ spoilt' \in SUBSET Spoilers
      /\ spoilt \subseteq spoilt'
      /\ Sound' => Sound /\ watcher = {} /\ object # None
  BY <1>0, <1>1, FaultTyped, SpoilsTyped DEF Spoilers, Sound
<1>4. \A step : At(step)' <=> At(step)
  BY <1>1 DEF At
<1>5. Held'
  BY <1>0, <1>1 DEF Held
<1>6. At("configure") \/ store.state # "new"
  BY <1>0, <1>1 DEF LeftNew, CurrentState, Loaded
<1>7. ASSUME Sound'
      PROVE  object' # None /\ object'.finalizer /\ ~At("removeFinalizer")'
  <2>1. ~(store = None \/ watcher # {})
    BY <1>1, <1>3, <1>7
  <2>2. GoneUnheld
    BY <1>3, <1>7 DEF Inv, Deletions
  <2>3. CASE At("configure")
    BY <1>0, <1>1, <1>4, <2>3 DEF Held, At
  <2>4. CASE store.state # "new"
    BY <1>1, <1>4, <2>1, <2>2, <2>4 DEF GoneUnheld, Gone
  <2> QED
    BY <1>6, <2>3, <2>4
<1>8. CASE Enter(Fresh, store.config, Loaded(store), "deploy", {})
  <2>1. "deploy" \in Events /\ {} \in SUBSET Active
    BY DEF Events
  <2>2. /\ machine' \in [Machines -> [config : Configs, state : States]]
        /\ running' \in [Machines -> SUBSET Active]
        /\ store' \in Stored /\ store' # None
        /\ store'.state = "deploy" /\ machine'[Fresh].state = "deploy"
    BY <1>0, <1>2, <1>8, <2>1, EnterLeads, TargetIsState
  <2>3. TypeOK'
    BY <1>0, <1>1, <1>2, <1>3, <2>2 DEF TypeOK
  <2>4. ASSUME Sound'
        PROVE  DestroyWatched' /\ UnstartedIsNew' /\ GoneUnheld'
    BY <1>1, <1>7, <2>2, <2>4 DEF DestroyWatched, UnstartedIsNew, GoneUnheld
  <2> QED
    BY <1>0, <1>1, <1>5, <2>2, <2>3, <2>4, EnteredKeeps DEF HasMachine
<1>9. CASE /\ machine' = [machine EXCEPT ![Fresh] =
                             [config |-> store.config, state |-> Loaded(store)]]
           /\ store' = store /\ running' = running
  <2>1. /\ machine' \in [Machines -> [config : Configs, state : States]]
        /\ machine'[Fresh].state = Loaded(store)
    BY <1>0, <1>2, <1>9, BuiltLeads
  <2>2. TypeOK'
    BY <1>0, <1>1, <1>2, <1>3, <1>9, <2>1 DEF TypeOK
  <2>3. AtWork' <=> AtWork
    BY <1>9 DEF AtWork
  <2>4. HasMachine' /\ NeverStart' /\ LeftNew'
    BY <1>0, <1>1, <1>4, <1>6, <1>9 DEF HasMachine, NeverStart, LeftNew
  <2>5. ASSUME Sound'
        PROVE  Deletions'
    <3>1. Deletions
      BY <1>3, <2>5 DEF Inv
    <3>2. RemovedAtRest'
      BY <1>9, <2>3, <3>1 DEF Deletions, RemovedAtRest
    <3>3. Loaded(store) # "destroy" \/ watcher # {}
      BY <1>1, <3>1 DEF Deletions, DestroyWatched, Loaded
    <3>4. DestroyWatched'
      BY <1>1, <1>9, <2>1, <3>1, <3>3 DEF Deletions, DestroyWatched
    <3>5. UnstartedIsNew'
      BY <1>0, <1>1, <1>9, <2>1 DEF UnstartedIsNew, NeverStart, Loaded
    <3>6. GoneUnheld'
      BY <1>7, <2>5 DEF GoneUnheld
    <3> QED
      BY <3>2, <3>4, <3>5, <3>6 DEF Deletions
  <2> QED
    BY <1>5, <2>2, <2>4, <2>5 DEF Inv
<1> QED
  BY <1>8, <1>9 DEF Admit

\* The release is destroyed, and waited for; it refuses that when it is being
\* destroyed already, or was never configured.
LEMMA DeleteReleaseKeepsInv ==
    ASSUME Inv, DeleteRelease
    PROVE  Inv'
<1>0. TypeOK /\ Held /\ HasMachine /\ NeverStart /\ LeftNew
  BY DEF Inv
<1>1. /\ object' = object /\ made' = made /\ queued' = queued
      /\ worker # None /\ worker.pc = "delete"
      /\ NoFault \/ Fault
      /\ worker' = [worker EXCEPT !.pc = "removeFinalizer"]
  BY DEF DeleteRelease, kubernetes, At, Goto
<1>2. /\ worker' \in Reconciles /\ worker' # None /\ worker'.pc = "removeFinalizer"
  BY <1>0, <1>1, GotoTyped DEF Steps
<1>3. disturbances' \in 0..MaxDisturbances
  BY <1>0, <1>1, FaultTyped
<1>4. Held' /\ (worker' # None /\ worker'.pc = "deploy" => worker'.sm \in Machines)
  BY <1>0, <1>1, <1>2 DEF Held
<1>5. ~At("configure") /\ ~At("configure")' /\ At("removeFinalizer")'
  BY <1>1, <1>2 DEF At
<1>6. CASE /\ UNCHANGED <<release, watcher>>
           /\ (store = None /\ UNCHANGED spoilt) \/ Spoils("deletion", TRUE)
  <2>1. /\ store' = store /\ cache' = cache /\ machine' = machine /\ running' = running
        /\ watcher' = watcher
    BY <1>6 DEF release
  <2>2. /\ spoilt' \in SUBSET Spoilers /\ spoilt \subseteq spoilt'
        /\ Sound' => Sound /\ store = None
    <3>1. CASE store = None /\ UNCHANGED spoilt
      BY <1>0, <3>1, Typed DEF Sound
    <3>2. CASE Spoils("deletion", TRUE)
      BY <1>0, <3>2, SpoilsTyped DEF Spoilers, Sound
    <3> QED
      BY <1>6, <3>1, <3>2
  <2>3. TypeOK'
    BY <1>0, <1>1, <1>2, <1>3, <2>1, <2>2 DEF TypeOK
  <2>4. AtWork' <=> AtWork
    BY <2>1 DEF AtWork
  <2>5. HasMachine' /\ NeverStart' /\ LeftNew'
    BY <1>0, <1>2, <1>5, <2>1, <2>2, <2>4 DEF HasMachine, NeverStart, LeftNew
  <2>6. ASSUME Sound'
        PROVE  Deletions'
    BY <1>5, <2>1, <2>2, <2>4, <2>6
       DEF Inv, Deletions, RemovedAtRest, DestroyWatched, UnstartedIsNew, GoneUnheld, Gone
  <2> QED
    BY <1>4, <2>3, <2>5, <2>6 DEF Inv
<1>7. ASSUME store # None, cache # None \/ Room, cache' = Current,
             Destroy(Current, CurrentConfig, CurrentState), UNCHANGED spoilt
      PROVE  Inv'
  <2>1. Current \in Machines /\ CurrentState \in States /\ CurrentConfig \in Configs
    BY <1>0, <1>7, CurrentTyped
  <2>2. cache' # None
    BY <1>7, <2>1, NoneAssumption
  <2>3. running[Current] \in SUBSET Active /\ "destroy" \in Events /\ Sound' = Sound
    BY <1>0, <1>7, <2>1, Typed DEF Events, Sound
  <2>4. CASE /\ Enter(Current, CurrentConfig, CurrentState, "destroy", running[Current])
             /\ watcher' = watcher \cup {Current}
    <3>1. /\ machine' \in [Machines -> [config : Configs, state : States]]
          /\ running' \in [Machines -> SUBSET Active]
          /\ store' \in Stored /\ store' # None
          /\ store'.state = "destroy" /\ machine'[Current].state = "destroy"
      BY <1>0, <2>1, <2>3, <2>4, EnterLeads, TargetIsState
    <3>2. watcher' \in SUBSET Machines /\ watcher' # {}
      BY <1>0, <2>1, <2>4, Typed
    <3>3. TypeOK'
      BY <1>0, <1>1, <1>2, <1>3, <1>7, <2>1, <3>1, <3>2 DEF TypeOK
    <3>4. DestroyWatched' /\ UnstartedIsNew' /\ GoneUnheld'
      BY <1>7, <3>1, <3>2 DEF DestroyWatched, UnstartedIsNew, GoneUnheld, Gone
    <3> QED
      BY <1>4, <3>1, <3>3, <3>4, EnteredKeeps
  <2>5. CASE /\ ~Accepts(CurrentState, "destroy")
             /\ machine' = [machine EXCEPT ![Current] =
                               [config |-> CurrentConfig, state |-> CurrentState]]
             /\ UNCHANGED <<store, running, watcher>>
    <3>1. /\ machine' \in [Machines -> [config : Configs, state : States]]
          /\ machine'[Current].state = CurrentState
      BY <1>0, <2>1, <2>5, BuiltLeads
    <3>2. CurrentState \in {"start", "destroy"}
      BY <2>1, <2>5 DEF Accepts, Sources
    <3>3. TypeOK'
      BY <1>0, <1>1, <1>2, <1>3, <1>7, <2>1, <2>5, <3>1 DEF TypeOK
    <3>4. AtWork' <=> AtWork
      BY <2>5 DEF AtWork
    <3>5. store.state = "new" => CurrentState = "start"
      BY <1>0, <1>5, <1>7 DEF LeftNew, CurrentState, Loaded
    <3>6. HasMachine' /\ NeverStart' /\ LeftNew'
      BY <1>0, <1>2, <1>5, <1>7, <2>5, <3>1, <3>4, <3>5 DEF HasMachine, NeverStart, LeftNew
    <3>7. ASSUME Sound
          PROVE  Deletions'
      <4>1. Deletions
        BY <3>7 DEF Inv
      <4>2. CurrentState = "destroy" => watcher # {}
        BY <1>7, <4>1 DEF Deletions, DestroyWatched, CurrentState, Loaded
      <4>3. CurrentState = "start" => store.state = "new"
        BY <1>0, <1>5, <1>7, <4>1 DEF Deletions, UnstartedIsNew, CurrentState, Loaded, NeverStart
      <4>4. RemovedAtRest' /\ DestroyWatched' /\ UnstartedIsNew'
        BY <1>7, <2>5, <3>1, <4>1, <4>2, <4>3
           DEF Deletions, RemovedAtRest, DestroyWatched, UnstartedIsNew
      <4>5. Gone'
        BY <1>0, <1>5, <1>7, <2>5, <3>2, <4>2, <4>3 DEF Gone, LeftNew
      <4> QED
        BY <4>4, <4>5 DEF Deletions, GoneUnheld
    <3> QED
      BY <1>4, <2>3, <3>3, <3>6, <3>7 DEF Inv
  <2> QED
    BY <1>7, <2>4, <2>5 DEF Destroy
<1> QED
  BY <1>6, <1>7 DEF DeleteRelease

\* The release is stored as new: it is configured next.
LEMMA UpsertKeepsInv ==
    ASSUME Inv, Upsert
    PROVE  Inv'
<1>0. TypeOK /\ Held /\ HasMachine /\ NeverStart /\ LeftNew
  BY DEF Inv
<1>1. /\ object' = object /\ made' = made /\ cache' = cache /\ machine' = machine
      /\ running' = running /\ watcher' = watcher /\ worker # None /\ worker.pc = "upsert"
      /\ NoFault \/ Fault
  BY DEF Upsert, kubernetes, At
<1>2. disturbances' \in 0..MaxDisturbances
  BY <1>0, <1>1, FaultTyped
<1>3. AtWork' <=> AtWork
  BY <1>1 DEF AtWork
<1>4. CASE Goto("configure") /\ store' = [config |-> worker.obj.config, state |-> "new"]
           /\ Spoils("update", AtWork)
  <2>1. /\ worker' \in Reconciles /\ worker' # None /\ worker'.pc = "configure"
        /\ queued' = queued
    BY <1>0, <1>1, <1>4, GotoTyped DEF Goto, Steps
  <2>2. worker.obj.config \in Configs
    BY <1>0, <1>1, Typed DEF Reconciles, Objects
  <2>3. store' \in Stored /\ store'.state = "new" /\ store' # None
    <3>1. store' \in Stored /\ store'.state = "new"
      BY <1>4, <2>2 DEF Stored
    <3> QED
      BY <3>1, NoneAssumption
  <2>4. spoilt' \in SUBSET Spoilers /\ spoilt \subseteq spoilt'
    BY <1>0, <1>4, SpoilsTyped DEF Spoilers
  <2>5. TypeOK'
    BY <1>0, <1>1, <1>2, <2>1, <2>3, <2>4 DEF TypeOK
  <2>6. At("configure")' /\ ~At("removeFinalizer")'
    BY <2>1 DEF At
  <2>7. Held' /\ HasMachine'
    BY <1>0, <1>1, <2>1 DEF Held, HasMachine
  <2>8. NeverStart' /\ LeftNew'
    BY <2>3, <2>6 DEF NeverStart, LeftNew
  <2>9. ASSUME Sound'
        PROVE  Deletions'
    <3>1. Deletions
      BY <2>4, <2>9 DEF Inv, Sound
    <3>2. RemovedAtRest' /\ DestroyWatched' /\ UnstartedIsNew'
      BY <1>1, <2>3, <2>6, <3>1
         DEF Deletions, RemovedAtRest, DestroyWatched, UnstartedIsNew
    <3>3. GoneUnheld'
      BY <2>1, <2>6, <2>7 DEF GoneUnheld, Held
    <3> QED
      BY <3>2, <3>3 DEF Deletions
  <2> QED
    BY <2>5, <2>7, <2>8, <2>9 DEF Inv
<1>5. CASE store' = store /\ Requeue /\ UNCHANGED spoilt
  <2>1. UNCHANGED <<release, watcher, spoilt>>
    BY <1>1, <1>5 DEF release
  <2>2. worker' = None /\ queued' = TRUE
    BY <1>5 DEF Requeue
  <2>3. \A step : ~At(step)'
    BY <2>2 DEF At
  <2>4. ~At("configure")
    BY <1>1 DEF At
  <2>5. TypeOK' /\ Held' /\ HasMachine'
    BY <1>0, <1>1, <1>2, <1>5, <2>2 DEF TypeOK, Held, HasMachine
  <2>6. GoneUnheld'
    BY <1>0, <1>1, <2>3 DEF GoneUnheld, Held
  <2> QED
    BY <2>1, <2>3, <2>4, <2>5, <2>6, QuietKeeps
<1> QED
  BY <1>4, <1>5 DEF Upsert

\* The release's new machine is configured.
LEMMA ConfigureKeepsInv ==
    ASSUME Inv, Configure
    PROVE  Inv'
<1>0. TypeOK /\ Held
  BY DEF Inv
<1>1. /\ object' = object /\ made' = made /\ queued' = queued /\ watcher' = watcher
      /\ disturbances' = disturbances /\ worker # None /\ worker.pc = "configure"
      /\ Room /\ cache' = Fresh /\ Spoils("update", AtWork)
      /\ Enter(Fresh, worker.obj.config, "start", "configure", {})
      /\ worker' = [worker EXCEPT !.pc = "deploy", !.sm = Fresh]
  BY DEF Configure, kubernetes, At
<1>2. Fresh \in Machines
  BY <1>1, FreshUnused
<1>3. worker \in Reconciles
  BY <1>0, <1>1, Typed
<1>4. worker.obj.config \in Configs
  BY <1>3 DEF Reconciles, Objects
<1>5. /\ worker' \in Reconciles /\ worker' # None /\ worker'.pc = "deploy"
      /\ worker'.sm = Fresh
  <2>1. worker' \in Reconciles /\ worker'.pc = "deploy" /\ worker'.sm = Fresh
    BY <1>1, <1>2, <1>3 DEF Reconciles, Steps
  <2> QED
    BY <2>1, NoneAssumption
<1>6. "configure" \in Events /\ {} \in SUBSET Active
  BY DEF Events
<1>7. /\ machine' \in [Machines -> [config : Configs, state : States]]
      /\ running' \in [Machines -> SUBSET Active]
      /\ store' \in Stored /\ store' # None
      /\ store'.state = "configure" /\ machine'[Fresh].state = "configure"
  BY <1>0, <1>1, <1>2, <1>4, <1>6, EnterLeads, TargetIsState
<1>8. spoilt' \in SUBSET Spoilers
  BY <1>0, <1>1, SpoilsTyped DEF Spoilers
<1>9. TypeOK'
  BY <1>0, <1>1, <1>2, <1>5, <1>7, <1>8 DEF TypeOK
<1>10. Held' /\ ~At("removeFinalizer")'
  BY <1>0, <1>1, <1>5 DEF Held, At
<1>11. DestroyWatched' /\ UnstartedIsNew'
  BY <1>1, <1>7 DEF DestroyWatched, UnstartedIsNew
<1>12. GoneUnheld'
  BY <1>5, <1>10 DEF GoneUnheld, Held
<1> QED
  BY <1>2, <1>5, <1>7, <1>9, <1>10, <1>11, <1>12, EnteredKeeps

\* The machine is deployed if it is idle already.
LEMMA DeployKeepsInv ==
    ASSUME Inv, Deploy
    PROVE  Inv'
<1> DEFINE sm == worker.sm
<1>0. TypeOK /\ Held /\ HasMachine /\ NeverStart /\ LeftNew
  BY DEF Inv
<1>1. /\ object' = object /\ made' = made /\ queued' = queued /\ watcher' = watcher
      /\ disturbances' = disturbances /\ spoilt' = spoilt /\ cache' = cache
      /\ worker # None /\ worker.pc = "deploy" /\ worker' = None
  BY DEF Deploy, kubernetes, noise, At, Done
<1>2. /\ sm \in Machines /\ (store # None => store.state # "new")
      /\ object # None /\ object.finalizer
  BY <1>0, <1>1 DEF HasMachine, Held
<1>3. Held' /\ HasMachine' /\ (Sound' <=> Sound)
  BY <1>0, <1>1 DEF Held, HasMachine, Sound
<1>4. ~At("configure") /\ \A step : ~At(step)'
  BY <1>1 DEF At
<1>5. GoneUnheld'
  BY <1>1, <1>2, <1>4 DEF GoneUnheld
<1>6. CASE Enter(sm, machine[sm].config, "idle", "deploy", running[sm])
  <2>1. /\ "deploy" \in Events /\ running[sm] \in SUBSET Active
        /\ machine[sm].config \in Configs /\ cache \in Machines \cup {None}
    BY <1>0, <1>2, Typed DEF Events
  <2>2. /\ machine' \in [Machines -> [config : Configs, state : States]]
        /\ running' \in [Machines -> SUBSET Active]
        /\ store' \in Stored /\ store' # None /\ store'.state = "deploy"
        /\ machine'[sm].state = "deploy"
        /\ \A x \in Machines \ {sm} : machine'[x] = machine[x]
    BY <1>0, <1>2, <1>6, <2>1, EnterLeads, TargetIsState
  <2>3. TypeOK'
    BY <1>0, <1>1, <2>2 DEF TypeOK
  <2>4. ASSUME Sound
        PROVE  DestroyWatched' /\ UnstartedIsNew'
    <3>1. DestroyWatched /\ UnstartedIsNew
      BY <2>4 DEF Inv, Deletions
    <3>2. cache # None => machine[cache].state # "start"
      BY <1>2, <1>4, <3>1 DEF UnstartedIsNew
    <3> QED
      BY <1>1, <2>1, <2>2, <3>1, <3>2 DEF DestroyWatched, UnstartedIsNew
  <2> QED
    BY <1>1, <1>3, <1>5, <2>2, <2>3, <2>4, EnteredKeeps
<1>7. CASE UNCHANGED <<store, machine, running>>
  <2>1. UNCHANGED <<release, watcher, spoilt>>
    BY <1>1, <1>7 DEF release
  <2>2. TypeOK'
    BY <1>0, <1>1, <1>7 DEF TypeOK
  <2> QED
    BY <1>3, <1>4, <1>5, <2>1, <2>2, QuietKeeps
<1> QED
  BY <1>6, <1>7 DEF Deploy

\* The wait for a deletion ends: with the release removed, or in vain.
LEMMA WatchKeepsInv ==
    ASSUME Inv, NEW m \in Machines, Watch(m)
    PROVE  Inv'
<1>0. TypeOK /\ Held /\ HasMachine /\ NeverStart /\ LeftNew
  BY DEF Inv
<1>1. /\ object' = object /\ made' = made /\ queued' = queued /\ worker' = worker
      /\ machine' = machine /\ running' = running /\ watcher' = watcher \ {m}
      /\ NoFault \/ Fault
      /\ cache' \in {cache, None} /\ store' \in {store, None}
      /\ store' # store => cache' = None
  BY DEF Watch, kubernetes
<1>2. /\ Spoils("deletion", TRUE) \/ (Spoils("deletion", AtWork) /\ store' = None
                                                               /\ cache' = None)
  BY DEF Watch
<1>3. /\ spoilt' \in SUBSET Spoilers /\ spoilt \subseteq spoilt'
      /\ Sound' => Sound /\ ~AtWork /\ store' = None /\ cache' = None
  <2>1. CASE Spoils("deletion", TRUE)
    BY <1>0, <2>1, SpoilsTyped DEF Spoilers, Sound
  <2>2. CASE Spoils("deletion", AtWork) /\ store' = None /\ cache' = None
    BY <1>0, <2>2, SpoilsTyped DEF Spoilers, Sound
  <2> QED
    BY <1>2, <2>1, <2>2
<1>4. disturbances' \in 0..MaxDisturbances
  BY <1>0, <1>1, FaultTyped
<1>5. TypeOK'
  BY <1>0, <1>1, <1>3, <1>4 DEF TypeOK
<1>6. (\A step : At(step)' <=> At(step)) /\ (AtWork' <=> AtWork)
  BY <1>1 DEF At, AtWork
<1>7. Held' /\ HasMachine' /\ NeverStart'
  BY <1>0, <1>1 DEF Held, HasMachine, NeverStart
<1>8. LeftNew'
  BY <1>0, <1>1, <1>3, <1>6 DEF LeftNew
<1>9. ASSUME Sound'
      PROVE  Deletions'
  BY <1>3, <1>6, <1>9 DEF Deletions, RemovedAtRest, DestroyWatched, UnstartedIsNew,
                          GoneUnheld, Gone
<1> QED
  BY <1>5, <1>7, <1>8, <1>9 DEF Inv

\* The controller starts again, with the release as it is stored.
LEMMA CrashKeepsInv ==
    ASSUME Inv, Crash
    PROVE  Inv'
<1>0. TypeOK /\ Held /\ NeverStart /\ (Sound => Deletions)
  BY DEF Inv
<1>1. /\ object' = object /\ made' = made /\ queued' \in BOOLEAN /\ worker' = None
      /\ cache' = None /\ watcher' = {} /\ running' = [x \in Machines |-> {}]
      /\ store' = store /\ machine' = machine /\ Fault
      /\ spoilt' = spoilt \cup {"crash"} \cup IF watcher = {} THEN {} ELSE {"deletion"}
  BY DEF Crash, kubernetes
<1>2. /\ spoilt' \in SUBSET Spoilers /\ "crash" \in spoilt'
      /\ Sound' => Sound /\ watcher = {}
  BY <1>0, <1>1, Typed DEF Spoilers, Sound
<1>3. disturbances' \in 0..MaxDisturbances
  BY <1>0, <1>1, FaultTyped
<1>4. TypeOK'
  BY <1>0, <1>1, <1>2, <1>3 DEF TypeOK
<1>5. ~AtWork' /\ \A step : ~At(step)'
  BY <1>1 DEF AtWork, At
<1>6. Held' /\ HasMachine' /\ NeverStart' /\ LeftNew'
  BY <1>0, <1>1, <1>2, <1>5 DEF Held, HasMachine, NeverStart, LeftNew
<1>7. ASSUME Sound'
      PROVE  Deletions'
  <2>1. DestroyWatched /\ GoneUnheld /\ watcher = {}
    BY <1>0, <1>2, <1>7 DEF Deletions
  <2>2. RemovedAtRest' /\ DestroyWatched' /\ UnstartedIsNew'
    BY <1>1, <1>5, <2>1 DEF RemovedAtRest, DestroyWatched, UnstartedIsNew
  <2>3. GoneUnheld'
    BY <1>1, <1>2, <1>5, <2>1 DEF GoneUnheld, Gone
  <2> QED
    BY <2>2, <2>3 DEF Deletions
<1> QED
  BY <1>4, <1>6, <1>7 DEF Inv
-----------------------------------------------------------------------------
\* There is neither an object nor a release at the start.
LEMMA InitInv ==
    ASSUME Init
    PROVE  Inv
<1>1. [object |-> 1, generation |-> 1] \in Configs
  BY OperatorAssumption DEF Configs
<1>2. "start" \in States
  BY DEF States, Rest
<1>3. TypeOK
  <2>1. machine \in [Machines -> [config : Configs, state : States]]
    <3> DEFINE c == [object |-> 1, generation |-> 1]
    <3>1. c \in Configs /\ machine = [m \in Machines |-> [config |-> c, state |-> "start"]]
      BY <1>1 DEF Init
    <3> HIDE DEF c
    <3> QED
      BY <1>2, <3>1
  <2>2. made \in 0..MaxObjects /\ disturbances \in 0..MaxDisturbances
    BY OperatorAssumption DEF Init
  <2>3. running \in [Machines -> SUBSET Active]
    BY DEF Init
  <2> QED
    BY <2>1, <2>2, <2>3 DEF Init, TypeOK
<1>4. ~AtWork /\ \A step : ~At(step)
  BY DEF Init, AtWork, At
<1> QED
  BY <1>3, <1>4 DEF Init, Inv, Held, HasMachine, NeverStart, LeftNew, Deletions,
     RemovedAtRest, DestroyWatched, UnstartedIsNew, GoneUnheld, Gone

\* Every step keeps the invariant.
LEMMA NextKeepsInv ==
    ASSUME Inv, [Next]_vars
    PROVE  Inv'
<1>1. CASE UNCHANGED vars
  <2>1. /\ UNCHANGED <<release, watcher, spoilt>> /\ worker' = worker
        /\ object' = object /\ made' = made /\ queued' = queued
        /\ disturbances' = disturbances
    BY <1>1 DEF vars, kubernetes, noise
  <2>2. /\ cache' = cache /\ machine' = machine /\ running' = running /\ store' = store
        /\ watcher' = watcher /\ spoilt' = spoilt
    BY <2>1 DEF release
  <2>3. \A step : At(step)' <=> At(step)
    BY <2>1 DEF At
  <2>4. TypeOK' /\ Held' /\ HasMachine'
    BY <2>1, <2>2 DEF Inv, TypeOK, Held, HasMachine
  <2>5. Sound => GoneUnheld'
    BY <2>1, <2>2, <2>3 DEF Inv, Deletions, GoneUnheld, Gone
  <2> QED
    BY <2>1, <2>3, <2>4, <2>5, QuietKeeps
<1>2. CASE WorkerStep
  BY <1>2, ReconcileKeepsInv, FinalizerKeepsInv, DeleteReleaseKeepsInv,
     UpdateReleaseKeepsInv, UpsertKeepsInv, ConfigureKeepsInv, DeployKeepsInv DEF WorkerStep
<1>3. ASSUME NEW m \in Machines, Watch(m) \/ MachineStep(m)
      PROVE  Inv'
  BY <1>3, WatchKeepsInv, OperateKeepsInv DEF MachineStep
<1> QED
  BY <1>1, <1>2, <1>3, UsersKeepInv, AdmitKeepsInv, CrashKeepsInv DEF Next

\* The invariant holds in every reachable state.
THEOREM OperatorInvariance == Spec => []Inv
<1>1. Init => Inv
  BY InitInv
<1>2. Inv /\ [Next]_vars => Inv'
  BY NextKeepsInv
<1> QED
  BY <1>1, <1>2, PTL DEF Spec

\* Object, queue, release and machines keep their types, for any number of
\* objects, changes and machines: whatever Reconcile finds it has a machine for.
THEOREM OperatorTypeCorrect == Spec => []TypeOK
<1>1. Inv => TypeOK
  BY DEF Inv
<1> QED
  BY <1>1, OperatorInvariance, PTL

\* The finalizer holds the object until the release is removed, or its
\* destruction is waited for: no release is left without an object, whether users
\* wait for a deletion or make the object again at once.
THEOREM ReleaseHasObject == Spec => []NoOrphan
<1>1. Inv => NoOrphan
  BY DEF Inv, Deletions, Sound, GoneUnheld, Gone, NoOrphan
<1> QED
  BY <1>1, OperatorInvariance, PTL
=============================================================================
