---------------------------- MODULE TrialProofs ----------------------------
(***************************************************************************)
(* Deployments and their trial, for any platform, users, queries and       *)
(* traffic.  PlatformInv relates what an operation has read to what is     *)
(* stored: labels and what was read are older than the deployments, a      *)
(* copy is marked as what it will be, and nobody disturbs a promotion.     *)
(* JudgementInv relates the passes counted to the good checks behind them. *)
(* Each action of Platform and of Judgement is shown to keep its half.     *)
(***************************************************************************)
EXTENDS Trial, TLAPS

\* A deployment that is stored has a version later than its label.
Recorded(object) ==
    /\ object.label < object.revision
    /\ OwnLabel < object.revision /\ object.revision <= revision

ObjectsOK ==
    /\ \A n \in Names : objects[n] # None => Recorded(objects[n])
    /\ SubsetsApart

\* A copy is marked as what it will be.
Marked(copy) ==
    IF worker.op # "destroy" /\ platform = "nomad"
    THEN copy.label = OwnLabel /\ copy.tagged
    ELSE copy.label = 0 /\ ~copy.tagged

\* What the operation in progress has read and is about to write.
WorkerOK ==
    worker # None =>
        /\ release = IF worker.op = "destroy" THEN "destroy" ELSE "active"
        /\ worker.pc = "judge" => worker.op = "deploy"
        /\ worker.read # None =>
              OwnLabel < worker.read.revision /\ worker.read.revision <= revision
        /\ worker.pc = "refetch" => worker.read # None
        /\ worker.pc = "write" => worker.copy \in Objects /\ Marked(worker.copy)
        /\ worker.pc = "scaleDown" =>
              /\ worker.read # None /\ worker.copy \in Objects
              /\ worker.copy.label = worker.read.revision
              /\ worker.copy.revision = worker.read.revision
              /\ ~worker.copy.tagged

\* In Kubernetes nobody changes a candidate that is on trial or promoted.
Undisturbed ==
    platform = "kubernetes" /\ worker # None
    /\ (worker.pc = "judge" \/ worker.op = "promote")
    => /\ request = None
       /\ candidate # None => candidate.spec = judged
       /\ worker.pc = "write" => worker.copy.spec = judged

PlatformInv == PlatformTypeOK /\ ObjectsOK /\ WorkerOK /\ Undisturbed

USE DEF Names, OwnLabel
-----------------------------------------------------------------------------
\* The fields of a deployment that is given another version.
LEMMA Revised ==
    ASSUME NEW object \in Objects, NEW r \in 0..MaxRevision
    PROVE  LET new == [object EXCEPT !.revision = r]
           IN  /\ new \in Objects /\ new.revision = r
               /\ new.label = object.label /\ new.tagged = object.tagged
               /\ new.spec = object.spec
  BY DEF Objects

\* What storing a deployment leads to.
LEMMA StoreKeeps ==
    ASSUME PlatformTypeOK, NEW name \in Names, NEW object \in Objects, Store(name, object)
    PROVE  /\ revision \in Nat /\ OwnLabel <= revision
           /\ revision' = revision + 1 /\ revision' \in OwnLabel..MaxRevision
           /\ objects' \in [Names -> Objects \cup {None}]
           /\ objects'[name] = [object EXCEPT !.revision = revision + 1]
           /\ \A n \in Names : n # name => objects'[n] = objects[n]
<1>1. /\ revision \in Nat /\ OwnLabel <= revision
      /\ revision + 1 \in 0..MaxRevision /\ revision + 1 \in OwnLabel..MaxRevision
  BY PlatformAssumption DEF Store, PlatformTypeOK
<1> DEFINE new == [object EXCEPT !.revision = revision + 1]
<1>2. new \in Objects
  BY <1>1, Revised
<1>3. objects' = [objects EXCEPT ![name] = new] /\ revision' = revision + 1
  BY DEF Store
<1>4. objects \in [Names -> Objects \cup {None}]
  BY DEF PlatformTypeOK
<1> HIDE DEF new
<1>5. /\ objects' \in [Names -> Objects \cup {None}]
      /\ objects'[name] = new
      /\ \A n \in Names : n # name => objects'[n] = objects[n]
  BY <1>2, <1>3, <1>4
<1> QED
  BY <1>1, <1>3, <1>5 DEF new

\* A user's scaling, the controller's, and a change of health.
LEMMA Rescaled ==
    ASSUME NEW object \in Objects, NEW running \in BOOLEAN, NEW ready \in BOOLEAN
    PROVE  LET new == [object EXCEPT !.running = running, !.ready = ready]
           IN  /\ new \in Objects
               /\ new.revision = object.revision /\ new.label = object.label
               /\ new.tagged = object.tagged /\ new.spec = object.spec
  BY DEF Objects

\* Nothing deployed, or a first deployment that is over.
LEMMA InitInv == PlatformInit => PlatformInv
<1> SUFFICES ASSUME PlatformInit PROVE PlatformInv
  OBVIOUS
<1>1. ASSUME NEW spec \in Specs PROVE Installed(spec) \in [Names -> Objects]
  BY PlatformAssumption DEF Installed, Objects
<1>2. PlatformTypeOK
  BY <1>1, PlatformAssumption DEF PlatformInit, PlatformTypeOK
<1>3. ASSUME NEW spec \in Specs, objects = Installed(spec), revision = OwnLabel + 3
      PROVE  ObjectsOK
  <2>1. /\ objects["primary"].label \in {0, OwnLabel} /\ objects["primary"].revision = OwnLabel + 2
        /\ objects["primary"].tagged = (platform = "nomad")
        /\ objects["candidate"].label = OwnLabel + 1
        /\ objects["candidate"].revision = OwnLabel + 3
        /\ objects["candidate"].tagged = FALSE
    BY <1>3 DEF Installed
  <2>2. revision = 4
    BY <1>3
  <2>3. Recorded(objects["primary"]) /\ Recorded(objects["candidate"])
    <3>1. Recorded(objects["primary"])
      BY <2>1, <2>2, SMT DEF Recorded
    <3>2. Recorded(objects["candidate"])
      BY <2>1, <2>2, SMT DEF Recorded
    <3> QED
      BY <3>1, <3>2
  <2>4. SubsetsApart
    <3>1. objects["candidate"].label # OwnLabel
      BY <2>1
    <3> QED
      BY <2>1, <3>1, Zenon DEF SubsetsApart, candidate, primary
  <2> QED
    BY <2>3, <2>4 DEF ObjectsOK
<1>4. ObjectsOK
  BY <1>3 DEF PlatformInit, ObjectsOK, SubsetsApart, candidate, primary
<1> QED
  BY <1>2, <1>4 DEF PlatformInit, PlatformInv, WorkerOK, Undisturbed

\* A deployment that the webhook admits; during a trial or a promotion it admits none.
LEMMA SubmitKeeps == PlatformInv /\ (\E spec \in Specs : Submit(spec)) => PlatformInv'
  BY PlatformAssumption DEF PlatformInv, PlatformTypeOK, ObjectsOK, WorkerOK, Undisturbed, Marked,
     SubsetsApart, Recorded, candidate, primary, Submit, Check, Starts, Admits, Own, LabelOf,
     RevisionOf, Objects, Operations, Calls


\* What a deployment that is stored leads to, as far as deployments go.
LEMMA StoreKeepsObjects ==
    ASSUME PlatformTypeOK, ObjectsOK, NEW name \in Names, NEW object \in Objects,
           Store(name, object), UNCHANGED platform,
           object.label <= revision,
           name = "primary" /\ platform = "nomad" => object.tagged,
           name = "candidate" => ~object.tagged /\ object.label # OwnLabel
    PROVE  ObjectsOK'
<1> DEFINE new == [object EXCEPT !.revision = revision + 1]
<1>1. /\ revision' = revision + 1 /\ revision \in Nat /\ revision >= OwnLabel
      /\ objects'[name] = new
      /\ \A n \in Names : n # name => objects'[n] = objects[n]
  BY StoreKeeps
<1>2. new.label = object.label /\ new.tagged = object.tagged /\ new.revision = revision + 1
  BY Revised, PlatformAssumption DEF Store, PlatformTypeOK
<1>3. new.label \in Nat
  BY PlatformAssumption, <1>2 DEF Objects
<1> HIDE DEF new
<1>4. \A n \in Names : objects[n] # None => objects[n].label \in Nat /\ objects[n].revision \in Nat
  BY PlatformAssumption DEF PlatformTypeOK, Objects
<1>5. ASSUME NEW n \in Names, objects'[n] # None  PROVE Recorded(objects[n])'
  BY <1>1, <1>2, <1>3, <1>4, <1>5 DEF ObjectsOK, Recorded
<1>6. SubsetsApart'
  BY <1>1, <1>2 DEF ObjectsOK, SubsetsApart, candidate, primary
<1> QED
  BY <1>5, <1>6 DEF ObjectsOK

\* Deleting one.
LEMMA RemoveKeepsObjects ==
    ASSUME PlatformTypeOK, ObjectsOK, NEW name \in Names, Remove(name), UNCHANGED platform
    PROVE  /\ ObjectsOK'
           /\ objects' \in [Names -> Objects \cup {None}] /\ UNCHANGED revision
           /\ objects'[name] = None
           /\ \A n \in Names : n # name => objects'[n] = objects[n]
  BY DEF PlatformTypeOK, ObjectsOK, Recorded, SubsetsApart, Remove, candidate, primary

\* What an operation has read stays older than what is stored.
LEMMA LaterKeepsWorker ==
    ASSUME PlatformTypeOK, WorkerOK, UNCHANGED <<platform, release, worker>>,
           revision' \in Nat, revision <= revision'
    PROVE  WorkerOK'
<1>1. worker # None /\ worker.read # None => worker.read.revision \in Nat
  BY PlatformAssumption DEF PlatformTypeOK, Objects
<1>2. revision \in Nat
  BY PlatformAssumption DEF PlatformTypeOK
<1> QED
  BY <1>1, <1>2 DEF WorkerOK, Marked

-----------------------------------------------------------------------------
Workers ==
    [ op : Operations, pc : Calls, read : Objects \cup {None}, copy : Objects \cup {None} ]

\* The state machine of an operation in progress: what a step that leaves the
\* deployments alone has to keep.
LEMMA ReadsKeep ==
    ASSUME PlatformInv, Reads,
           release' \in {"idle", "active", "destroy", "removed"},
           worker' \in Workers \cup {None}, WorkerOK', Undisturbed'
    PROVE  PlatformInv'
  BY DEF PlatformInv, PlatformTypeOK, Workers, ObjectsOK, Recorded, SubsetsApart, Reads,
         candidate, primary

\* On to another call.
LEMMA GotoKeeps ==
    ASSUME PlatformTypeOK, worker # None, NEW call \in Calls, Goto(call)
    PROVE  /\ worker' \in Workers /\ release' = release
           /\ worker'.op = worker.op /\ worker'.pc = call
           /\ worker'.read = worker.read /\ worker'.copy = worker.copy
  BY DEF PlatformTypeOK, Goto, Workers

\* On to a call that writes nothing that was prepared, and is not a trial.
LEMMA GoesOn ==
    ASSUME PlatformInv, worker # None, NEW call \in Calls, Goto(call), Reads,
           call \notin {"judge", "refetch", "write", "scaleDown"}
    PROVE  PlatformInv'
<1>1. /\ worker' \in Workers /\ release' = release
      /\ worker'.op = worker.op /\ worker'.pc = call
      /\ worker'.read = worker.read /\ worker'.copy = worker.copy
  BY GotoKeeps DEF PlatformInv
<1>2. WorkerOK'
  BY <1>1 DEF PlatformInv, WorkerOK, Reads
<1>3. Undisturbed'
  BY <1>1 DEF PlatformInv, Undisturbed, Reads, candidate
<1> QED
  BY <1>1, <1>2, <1>3, ReadsKeep DEF PlatformInv, PlatformTypeOK

\* An operation that ends leaves nothing to keep.
LEMMA EndingKeeps ==
    ASSUME PlatformInv, Reads, worker' = None,
           release' \in {"idle", "active", "destroy", "removed"}
    PROVE  PlatformInv'
  BY ReadsKeep DEF WorkerOK, Undisturbed

\* The calls that only look something up.
LEMMA LookupKeeps ==
    ASSUME PlatformInv,
           LookupPrimary \/ SelectCandidate \/ AwaitCopy \/ FindPrimary
    PROVE  PlatformInv'
<1>1. /\ worker # None /\ Reads
      /\ \/ Goto("settle") \/ Goto("select") \/ Goto("fetch") \/ Goto("deleteCandidate")
         \/ Fails \/ Dies
  BY DEF LookupPrimary, SelectCandidate, AwaitCopy, FindPrimary, LookupFails, At
<1>2. CASE Fails \/ Dies
  BY <1>1, <1>2, EndingKeeps DEF Fails, Ends, Dies, PlatformInv, PlatformTypeOK
<1> QED
  BY <1>1, <1>2, GoesOn DEF Calls

\* A copy keeps what it runs.
LEMMA Copied ==
    ASSUME NEW object \in Objects
    PROVE  Copy(object) \in Objects /\ Marked(Copy(object)) /\ Copy(object).spec = object.spec
<1>1. 0 \in 0..MaxRevision /\ OwnLabel \in 0..MaxRevision
  BY PlatformAssumption
<1>2. CASE worker.op # "destroy" /\ platform = "nomad"
  <2>1. Copy(object) = [object EXCEPT !.label = OwnLabel, !.tagged = TRUE]
    BY <1>2 DEF Copy
  <2>2. /\ Copy(object) \in Objects /\ Copy(object).spec = object.spec
        /\ Copy(object).label = OwnLabel /\ Copy(object).tagged
    BY <1>1, <2>1 DEF Objects
  <2> QED
    BY <1>2, <2>2 DEF Marked
<1>3. CASE ~(worker.op # "destroy" /\ platform = "nomad")
  <2>1. Copy(object) = [object EXCEPT !.label = 0, !.tagged = FALSE]
    BY <1>3 DEF Copy
  <2>2. /\ Copy(object) \in Objects /\ Copy(object).spec = object.spec
        /\ Copy(object).label = 0 /\ ~Copy(object).tagged
    BY <1>1, <2>1 DEF Objects
  <2> QED
    BY <1>3, <2>2 DEF Marked
<1> QED
  BY <1>2, <1>3

\* The copy that is prepared is marked as what it will be.
LEMMA FetchKeeps == ASSUME PlatformInv, FetchSource PROVE PlatformInv'
<1>1. CASE Fails
  BY <1>1, EndingKeeps DEF FetchSource, Fails, Ends
<1>2. CASE /\ Source # None
           /\ worker' = [worker EXCEPT !.pc = "write", !.copy = Copy(Source)]
           /\ UNCHANGED release
  <2> DEFINE copy == Copy(Source)
  <2>1. worker \in Workers /\ Reads /\ worker # None
    BY DEF FetchSource, At, PlatformInv, PlatformTypeOK, Workers
  <2>2. Source \in Objects
    BY <1>2 DEF PlatformInv, PlatformTypeOK, Source, candidate, primary
  <2>3. copy \in Objects /\ Marked(copy) /\ copy.spec = Source.spec
    BY <2>2, Copied
  <2>4. worker' = [worker EXCEPT !.pc = "write", !.copy = copy]
    BY <1>2
  <2> HIDE DEF copy
  <2>5. /\ worker' \in Workers /\ worker'.op = worker.op /\ worker'.pc = "write"
        /\ worker'.read = worker.read /\ worker'.copy = copy
    BY <2>1, <2>3, <2>4 DEF Workers, Calls
  <2>6. WorkerOK'
    BY <1>2, <2>1, <2>3, <2>5 DEF PlatformInv, WorkerOK, Marked, Reads
  <2>7. Undisturbed'
    BY <1>2, <2>1, <2>3, <2>5 DEF PlatformInv, Undisturbed, Reads, Source, candidate
  <2> QED
    BY <1>2, <2>1, <2>5, <2>6, <2>7, ReadsKeep DEF PlatformInv, PlatformTypeOK
<1> QED
  BY <1>1, <1>2 DEF FetchSource

\* The state machine's waits: a trial begins with what is deployed.
LEMMA SettleKeeps == ASSUME PlatformInv, Settle PROVE PlatformInv'
<1>1. CASE Fails /\ UNCHANGED judged
  BY <1>1, EndingKeeps DEF Settle, Fails, Ends, Reads
<1>2. CASE \E call \in {"removePrimary", "remove"} : Goto(call) /\ UNCHANGED judged
  BY <1>2, GoesOn DEF Settle, Reads, Calls, At
<1>3. CASE /\ Goto("judge") /\ worker.op = "deploy"
           /\ judged' = IF candidate = None THEN None ELSE candidate.spec
  <2>1. /\ worker' \in Workers /\ worker'.op = worker.op /\ worker'.pc = "judge"
        /\ worker'.read = worker.read /\ worker'.copy = worker.copy /\ release' = release
        /\ worker # None /\ request = None
    BY <1>3, GotoKeeps DEF Settle, At, PlatformInv, Calls
  <2>2. judged' \in Specs \cup {None}
    BY <1>3 DEF PlatformInv, PlatformTypeOK, candidate, Objects
  <2>3. PlatformTypeOK'
    BY <2>1, <2>2 DEF Settle, PlatformInv, PlatformTypeOK, Workers
  <2>4. ObjectsOK'
    BY DEF Settle, PlatformInv, ObjectsOK, Recorded, SubsetsApart, candidate, primary
  <2>5. WorkerOK'
    BY <1>3, <2>1 DEF Settle, PlatformInv, WorkerOK
  <2>6. Undisturbed'
    BY <1>3, <2>1 DEF Settle, Undisturbed, candidate
  <2> QED
    BY <2>3, <2>4, <2>5, <2>6 DEF PlatformInv
<1> QED
  BY <1>1, <1>2, <1>3 DEF Settle

\* Reading the candidate: what is read is no newer than what is stored.
LEMMA ReadingKeeps ==
    ASSUME PlatformInv, worker # None, Reads, release' = release, candidate # None,
           NEW call \in {"deletePrimary", "refetch"},
           worker' = [worker EXCEPT !.pc = call, !.read = candidate]
    PROVE  PlatformInv'
<1>1. worker \in Workers /\ candidate \in Objects /\ Recorded(candidate)
  BY DEF PlatformInv, PlatformTypeOK, ObjectsOK, Workers, candidate
<1>2. /\ worker' \in Workers /\ worker'.op = worker.op /\ worker'.pc = call
      /\ worker'.read = candidate /\ worker'.copy = worker.copy
  BY <1>1 DEF Workers, Calls
<1>3. WorkerOK'
  BY <1>1, <1>2 DEF PlatformInv, WorkerOK, Recorded, Reads
<1>4. Undisturbed'
  BY <1>2 DEF PlatformInv, Undisturbed, Reads, candidate
<1> QED
  BY <1>2, <1>3, <1>4, ReadsKeep DEF PlatformInv, PlatformTypeOK

\* A promotion finds its candidate, or goes on without.
LEMMA FindKeeps == ASSUME PlatformInv, FindCandidate PROVE PlatformInv'
<1>1. worker # None /\ Reads
  BY DEF FindCandidate, At
<1>2. CASE /\ Healthy(candidate)
           /\ worker' = [worker EXCEPT !.pc = "deletePrimary", !.read = candidate]
           /\ UNCHANGED release
  BY <1>1, <1>2, ReadingKeeps DEF Healthy
<1>3. CASE Goto("deletePrimary") \/ Goto("settle")
  BY <1>1, <1>3, GoesOn DEF Calls
<1>4. CASE Fails
  BY <1>1, <1>4, EndingKeeps DEF Fails, Ends
<1> QED
  BY <1>2, <1>3, <1>4 DEF FindCandidate

\* RemoveCandidate reads the candidate.
LEMMA ReadKeeps == ASSUME PlatformInv, ReadCandidate PROVE PlatformInv'
<1>1. worker # None /\ Reads
  BY DEF ReadCandidate, At
<1>2. CASE /\ candidate # None
           /\ worker' = [worker EXCEPT !.pc = "refetch", !.read = candidate]
           /\ UNCHANGED release
  BY <1>1, <1>2, ReadingKeeps
<1>3. CASE Ends("idle") \/ LookupFails
  BY <1>1, <1>3, EndingKeeps DEF LookupFails, Fails, Ends, Dies, PlatformInv, PlatformTypeOK
<1> QED
  BY <1>2, <1>3 DEF ReadCandidate

\* UpdateDeployment's update has the label and the version the plugin has read.
LEMMA ScaledKeeps ==
    ASSUME NEW object \in Objects, NEW read \in Objects
    PROVE  LET new == Scaled(object, read)
           IN  /\ new \in Objects
               /\ new.label = read.revision /\ new.revision = read.revision
               /\ new.tagged = object.tagged
  BY DEF Scaled, Objects

\* UpdateDeployment reads it again.
LEMMA RefetchKeeps == ASSUME PlatformInv, RefetchCandidate PROVE PlatformInv'
<1>1. worker # None /\ Reads /\ worker \in Workers
  BY DEF RefetchCandidate, At, PlatformInv, PlatformTypeOK, Workers
<1>2. CASE Fails
  BY <1>1, <1>2, EndingKeeps DEF Fails, Ends
<1>3. CASE /\ candidate # None
           /\ worker' = [worker EXCEPT !.pc = "scaleDown",
                                       !.copy = Scaled(candidate, worker.read)]
           /\ UNCHANGED release
  <2> DEFINE copy == Scaled(candidate, worker.read)
  <2>1. candidate \in Objects /\ worker.read \in Objects /\ worker.read # None
    BY <1>1, <1>3 DEF RefetchCandidate, At, PlatformInv, PlatformTypeOK, WorkerOK, Workers, candidate
  <2>2. /\ copy \in Objects /\ ~copy.tagged
        /\ copy.label = worker.read.revision /\ copy.revision = worker.read.revision
    BY <1>3, <2>1, ScaledKeeps DEF PlatformInv, ObjectsOK, SubsetsApart
  <2> HIDE DEF copy
  <2>3. worker' = [worker EXCEPT !.pc = "scaleDown", !.copy = copy]
    BY <1>3 DEF copy
  <2>4. /\ worker' \in Workers /\ worker'.op = worker.op /\ worker'.pc = "scaleDown"
        /\ worker'.read = worker.read /\ worker'.copy = copy
    BY <1>1, <2>2, <2>3 DEF Workers, Calls
  <2>5. WorkerOK'
    BY <1>1, <1>3, <2>1, <2>2, <2>4 DEF PlatformInv, WorkerOK, Reads
  <2>6. Undisturbed'
    BY <1>1, <2>4 DEF PlatformInv, Undisturbed, Reads, candidate
  <2> QED
    BY <1>1, <1>3, <2>4, <2>5, <2>6, ReadsKeep DEF PlatformInv, PlatformTypeOK
<1> QED
  BY <1>2, <1>3 DEF RefetchCandidate
-----------------------------------------------------------------------------
Reported == [label : 0..MaxRevision, revision : 0..MaxRevision]

EventsOK == events \in Seq(Reported) /\ Len(events) <= MaxEvents

\* A registration that is reported.
LEMMA ReportsKeep ==
    ASSUME PlatformTypeOK, NEW name \in Names, NEW object, Store(name, object),
           NEW label \in 0..MaxRevision, Reports(name, label)
    PROVE  EventsOK'
<1>1. EventsOK /\ MaxEvents \in Nat
  BY PlatformAssumption DEF PlatformTypeOK, EventsOK, Reported
<1>2. CASE UNCHANGED events
  BY <1>1, <1>2 DEF EventsOK
<1>3. CASE /\ Len(events) < MaxEvents
           /\ events' = Append(events, [label |-> label, revision |-> revision + 1])
  <2> DEFINE event == [label |-> label, revision |-> revision + 1]
  <2>1. event \in Reported
    BY PlatformAssumption DEF PlatformTypeOK, Reported, Store
  <2> HIDE DEF event
  <2>2. events' = Append(events, event)
    BY <1>3 DEF event
  <2>3. events' \in Seq(Reported) /\ Len(events') = Len(events) + 1
    BY <1>1, <2>1, <2>2 DEF EventsOK
  <2>4. Len(events) \in Nat
    BY <1>1 DEF EventsOK
  <2> QED
    BY <1>1, <1>3, <2>3, <2>4 DEF EventsOK
<1> QED
  BY <1>2, <1>3 DEF Reports

\* A step that writes deployments.
LEMMA WritesKeep ==
    ASSUME PlatformInv, Writes, EventsOK',
           objects' \in [Names -> Objects \cup {None}], revision' \in OwnLabel..MaxRevision,
           release' \in {"idle", "active", "destroy", "removed"},
           worker' \in Workers \cup {None},
           ObjectsOK', WorkerOK', Undisturbed'
    PROVE  PlatformInv'
  BY DEF PlatformInv, PlatformTypeOK, Writes, EventsOK, Reported, Workers

\* No registration is reported or handled.
LEMMA EventsUnchanged ==
    ASSUME PlatformInv, UNCHANGED events PROVE EventsOK'
  BY DEF PlatformInv, PlatformTypeOK, EventsOK, Reported

\* A copy is not ready.
LEMMA Unready ==
    ASSUME NEW object \in Objects
    PROVE  LET new == [object EXCEPT !.ready = FALSE]
           IN  /\ new \in Objects /\ new.spec = object.spec
               /\ new.label = object.label /\ new.tagged = object.tagged
  BY DEF Objects

\* A call that fails has changed nothing.
LEMMA FailedWrite ==
    ASSUME PlatformInv, Writes, UNCHANGED <<objects, revision, events>>, Fails \/ Dies
    PROVE  PlatformInv'
<1>1. Reads
  BY DEF Reads, Writes
<1> QED
  BY <1>1, EndingKeeps DEF Fails, Dies, Ends, PlatformInv, PlatformTypeOK

\* CloneDeployment writes the copy.
LEMMA WriteKeeps == ASSUME PlatformInv, WriteCopy PROVE PlatformInv'
<1>1. CASE (Fails \/ LookupFails) /\ UNCHANGED <<objects, revision, events>>
  BY <1>1, FailedWrite DEF WriteCopy, LookupFails
<1>2. CASE /\ Store(Target, [worker.copy EXCEPT !.ready = FALSE])
           /\ Reports(Target, worker.copy.label)
           /\ Goto("await")
  <2> DEFINE object == [worker.copy EXCEPT !.ready = FALSE]
  <2>1. worker.copy \in Objects /\ Marked(worker.copy) /\ worker # None /\ worker.pc = "write"
    BY DEF WriteCopy, At, PlatformInv, WorkerOK
  <2>2. /\ object \in Objects /\ object.spec = worker.copy.spec
        /\ object.label = worker.copy.label /\ object.tagged = worker.copy.tagged
    BY <2>1, Unready
  <2> HIDE DEF object
  <2>3. Store(Target, object) /\ Target \in Names /\ UNCHANGED platform
    BY <1>2 DEF object, Target, WriteCopy, Writes
  <2>4. /\ object.label <= revision
        /\ Target = "primary" /\ platform = "nomad" => object.tagged
        /\ Target = "candidate" => ~object.tagged /\ object.label # OwnLabel
    BY <2>1, <2>2, PlatformAssumption DEF Marked, Target, PlatformInv, PlatformTypeOK
  <2>5. ObjectsOK'
    BY <2>2, <2>3, <2>4, StoreKeepsObjects DEF PlatformInv
  <2>6. /\ revision \in Nat /\ revision' = revision + 1 /\ revision' \in OwnLabel..MaxRevision
        /\ objects' \in [Names -> Objects \cup {None}]
        /\ \A n \in Names : n # Target => objects'[n] = objects[n]
    BY <2>2, <2>3, StoreKeeps DEF PlatformInv
  <2>7. worker.copy.label \in 0..MaxRevision
    BY <2>1 DEF Objects
  <2>8. EventsOK'
    BY <1>2, <2>3, <2>7, ReportsKeep DEF PlatformInv
  <2>9. /\ worker' \in Workers /\ worker'.op = worker.op /\ worker'.pc = "await"
        /\ worker'.read = worker.read /\ worker'.copy = worker.copy /\ release' = release
    BY <1>2, <2>1, GotoKeeps DEF PlatformInv, Calls
  <2>10. WorkerOK'
    <3>1. worker.read # None => worker.read.revision \in Nat
      BY <2>1, PlatformAssumption DEF PlatformInv, PlatformTypeOK, Objects
    <3> QED
      BY <2>1, <2>6, <2>9, <3>1 DEF PlatformInv, WorkerOK
  <2>11. Undisturbed'
    BY <2>1, <2>6, <2>9 DEF PlatformInv, Undisturbed, WriteCopy, Writes, Target, candidate
  <2> QED
    BY <2>5, <2>6, <2>8, <2>9, <2>10, <2>11, WritesKeep DEF PlatformInv, PlatformTypeOK, WriteCopy
<1> QED
  BY <1>1, <1>2 DEF WriteCopy

\* UpdateDeployment writes: the label is older than the version it gets.
LEMMA ScaleDownKeeps == ASSUME PlatformInv, ScaleDown PROVE PlatformInv'
<1>1. CASE (Fails \/ LookupFails) /\ UNCHANGED <<objects, revision, events>>
  BY <1>1, FailedWrite DEF ScaleDown, LookupFails
<1>2. CASE /\ Store("candidate", worker.copy)
           /\ Reports("candidate", worker.copy.label)
           /\ Ends("idle")
  <2> DEFINE object == worker.copy
  <2>1. /\ object \in Objects /\ ~object.tagged /\ object.label \in 0..MaxRevision
        /\ object.label # OwnLabel /\ object.label <= revision
    BY PlatformAssumption DEF ScaleDown, At, PlatformInv, PlatformTypeOK, WorkerOK, Objects
  <2>2. ObjectsOK' /\ EventsOK'
    BY <1>2, <2>1, StoreKeepsObjects, ReportsKeep DEF PlatformInv, ScaleDown, Writes
  <2>3. revision' \in OwnLabel..MaxRevision /\ objects' \in [Names -> Objects \cup {None}]
    BY <1>2, <2>1, StoreKeeps DEF PlatformInv
  <2>4. WorkerOK' /\ Undisturbed' /\ worker' = None /\ release' = "idle"
    BY <1>2 DEF Ends, WorkerOK, Undisturbed
  <2> QED
    BY <2>2, <2>3, <2>4, WritesKeep DEF ScaleDown
<1> QED
  BY <1>1, <1>2 DEF ScaleDown

\* A removal, after which the operation goes on or ends.
LEMMA RemovingKeeps ==
    ASSUME PlatformInv, worker # None, Writes, UNCHANGED events,
           NEW name \in Names, Remove(name) \/ UNCHANGED <<objects, revision>>,
           Goto("fetch") \/ Ends("removed") \/ Dies \/ Fails
    PROVE  PlatformInv'
<1>1. ObjectsOK'
  BY RemoveKeepsObjects DEF PlatformInv, Writes, ObjectsOK, Recorded, SubsetsApart,
     candidate, primary
<1>2. objects' \in [Names -> Objects \cup {None}] /\ revision' = revision
  BY RemoveKeepsObjects DEF PlatformInv, PlatformTypeOK, Writes
<1>3. candidate' = None \/ candidate' = candidate
  BY RemoveKeepsObjects DEF PlatformInv, Writes, candidate
<1>4. EventsOK'
  BY EventsUnchanged
<1>5. CASE Goto("fetch")
  <2>1. /\ worker' \in Workers /\ worker'.op = worker.op /\ worker'.pc = "fetch"
        /\ worker'.read = worker.read /\ worker'.copy = worker.copy /\ release' = release
    BY <1>5, GotoKeeps DEF PlatformInv, Calls
  <2>2. WorkerOK' /\ Undisturbed'
    BY <1>2, <1>3, <2>1 DEF PlatformInv, WorkerOK, Undisturbed, Writes
  <2> QED
    BY <1>1, <1>2, <1>4, <2>1, <2>2, WritesKeep DEF PlatformInv, PlatformTypeOK
<1>6. CASE Ends("removed") \/ Dies \/ Fails
  <2>1. /\ worker' = None /\ WorkerOK' /\ Undisturbed'
        /\ release' \in {"idle", "active", "destroy", "removed"}
    BY <1>6 DEF Ends, Dies, Fails, WorkerOK, Undisturbed, PlatformInv, PlatformTypeOK
  <2> QED
    BY <1>1, <1>2, <1>4, <2>1, WritesKeep DEF PlatformInv, PlatformTypeOK
<1> QED
  BY <1>5, <1>6

\* The calls that delete a deployment.
LEMMA RemovalsKeep ==
    ASSUME PlatformInv, DeletePrimary \/ DeleteCandidate \/ RemovePrimary
    PROVE  PlatformInv'
<1>1. /\ worker # None /\ Writes /\ UNCHANGED events
      /\ \E name \in Names : Remove(name) \/ UNCHANGED <<objects, revision>>
      /\ Goto("fetch") \/ Ends("removed") \/ Dies \/ Fails
  BY DEF DeletePrimary, DeleteCandidate, RemovePrimary, At
<1> QED
  BY <1>1, RemovingKeeps

\* Every call of an operation.
LEMMA OperateKeeps == ASSUME PlatformInv, Operate PROVE PlatformInv'
  BY LookupKeeps, FetchKeeps, SettleKeeps, FindKeeps, ReadKeeps, RefetchKeeps, WriteKeeps,
     ScaleDownKeeps, RemovalsKeep DEF Operate
-----------------------------------------------------------------------------
\* A change of a deployment that is not the operation's.
LEMMA EnvironmentStores ==
    ASSUME PlatformInv, NEW name \in Names, NEW object \in Objects, Store(name, object),
           object.label <= revision, EventsOK',
           name = "primary" /\ platform = "nomad" => object.tagged,
           name = "candidate" => ~object.tagged /\ object.label # OwnLabel,
           UNCHANGED <<platform, release, worker, judged>>,
           request' \in {request, None},
           \/ request # None \/ platform = "nomad" \/ name = "primary"
           \/ candidate # None /\ object.spec = candidate.spec
    PROVE  PlatformInv'
<1>1. ObjectsOK'
  BY StoreKeepsObjects DEF PlatformInv
<1>2. /\ revision \in Nat /\ revision' = revision + 1 /\ revision' \in OwnLabel..MaxRevision
      /\ objects' \in [Names -> Objects \cup {None}]
      /\ objects'[name] = [object EXCEPT !.revision = revision + 1]
      /\ \A n \in Names : n # name => objects'[n] = objects[n]
  BY StoreKeeps DEF PlatformInv
<1>3. revision + 1 \in 0..MaxRevision
  BY <1>2, PlatformAssumption
<1>4. objects'[name].spec = object.spec
  BY <1>2, <1>3, Revised
<1>5. WorkerOK'
  BY <1>2, LaterKeepsWorker DEF PlatformInv
<1>6. Undisturbed'
  BY <1>2, <1>4 DEF PlatformInv, Undisturbed, candidate
<1>7. PlatformTypeOK'
  BY <1>2 DEF PlatformInv, PlatformTypeOK, EventsOK, Reported
<1> QED
  BY <1>1, <1>5, <1>6, <1>7 DEF PlatformInv

\* A deployment that was admitted is stored, or not.
LEMMA PersistKeeps == ASSUME PlatformInv, Persist PROVE PlatformInv'
<1>1. CASE UNCHANGED <<objects, revision>>
  <2>1. PlatformTypeOK'
    BY <1>1 DEF Persist, PlatformInv, PlatformTypeOK
  <2>2. ObjectsOK' /\ WorkerOK' /\ Undisturbed'
    BY <1>1 DEF Persist, PlatformInv, ObjectsOK, Recorded, SubsetsApart, WorkerOK, Marked,
       Undisturbed, candidate, primary
  <2> QED
    BY <2>1, <2>2 DEF PlatformInv
<1>2. CASE Store("candidate", [ spec |-> request.spec, running |-> TRUE, ready |-> FALSE,
                                label |-> LabelOf(candidate), tagged |-> FALSE,
                                revision |-> 0 ])
  <2> DEFINE object == [ spec |-> request.spec, running |-> TRUE, ready |-> FALSE,
                         label |-> LabelOf(candidate), tagged |-> FALSE, revision |-> 0 ]
  <2>1. /\ LabelOf(candidate) \in 0..MaxRevision /\ LabelOf(candidate) <= revision
        /\ LabelOf(candidate) # OwnLabel
    BY PlatformAssumption DEF LabelOf, PlatformInv, PlatformTypeOK, ObjectsOK, SubsetsApart,
       Recorded, candidate, Objects
  <2>2. request.spec \in Specs
    BY DEF Persist, PlatformInv, PlatformTypeOK
  <2>3. object \in Objects /\ ~object.tagged /\ object.label = LabelOf(candidate)
    BY <2>1, <2>2, PlatformAssumption DEF Objects
  <2>4. Store("candidate", object)
    BY <1>2
  <2> HIDE DEF object
  <2> QED
    BY <2>1, <2>3, <2>4, EnvironmentStores, EventsUnchanged DEF Persist
<1> QED
  BY <1>1, <1>2 DEF Persist

\* A job that a user registers has neither label nor tag.
LEMMA RegisterKeeps ==
    ASSUME PlatformInv, NEW spec \in Specs, Register(spec) PROVE PlatformInv'
<1> DEFINE object == [ spec |-> spec, running |-> TRUE, ready |-> FALSE, label |-> 0,
                       tagged |-> FALSE, revision |-> 0 ]
<1>1. object \in Objects /\ ~object.tagged /\ object.label = 0
  BY PlatformAssumption DEF Objects
<1>2. Store("candidate", object) /\ 0 \in 0..MaxRevision /\ 0 <= revision
  BY PlatformAssumption DEF Register, PlatformInv, PlatformTypeOK
<1> HIDE DEF object
<1>3. EventsOK'
  BY <1>1, <1>2, ReportsKeep DEF Register, PlatformInv
<1> QED
  BY <1>1, <1>2, <1>3, EnvironmentStores DEF Register

\* A user scales the candidate.
LEMMA RescaleKeeps == ASSUME PlatformInv, Rescale PROVE PlatformInv'
<1> DEFINE object == [candidate EXCEPT !.running = ~candidate.running, !.ready = FALSE]
<1>1. candidate \in Objects /\ Recorded(candidate) /\ candidate # None
  BY DEF PlatformInv, PlatformTypeOK, ObjectsOK, Rescale, candidate
<1>2. candidate.running \in BOOLEAN /\ candidate.label \in Nat /\ candidate.revision \in Nat
  BY <1>1, PlatformAssumption DEF Objects
<1>3. /\ object \in Objects /\ object.spec = candidate.spec
      /\ object.tagged = candidate.tagged /\ object.label = candidate.label
  BY <1>1, <1>2, Rescaled
<1>4. object.label <= revision /\ ~object.tagged /\ object.label # OwnLabel
  BY <1>1, <1>2, <1>3, PlatformAssumption
  DEF Recorded, PlatformInv, PlatformTypeOK, ObjectsOK, SubsetsApart
<1>5. Store("candidate", object)
  BY DEF Rescale
<1> HIDE DEF object
<1> QED
  BY <1>1, <1>3, <1>4, <1>5, EnvironmentStores, EventsUnchanged DEF Rescale

\* A deployment becomes healthy.
LEMMA ReadyKeeps ==
    ASSUME PlatformInv, NEW name \in Names, BecomeReady(name) PROVE PlatformInv'
<1> DEFINE object == [objects[name] EXCEPT !.ready = TRUE]
<1>1. objects[name] \in Objects /\ Recorded(objects[name]) /\ objects[name] # None
  BY DEF PlatformInv, PlatformTypeOK, ObjectsOK, BecomeReady
<1>2. objects[name].label \in Nat /\ objects[name].revision \in Nat
  BY <1>1, PlatformAssumption DEF Objects
<1>3. /\ object \in Objects /\ object.spec = objects[name].spec
      /\ object.revision = objects[name].revision
      /\ object.tagged = objects[name].tagged /\ object.label = objects[name].label
  BY <1>1 DEF Objects
<1>4. CASE platform = "kubernetes"
  <2>1. Store(name, object) /\ UNCHANGED <<platform, release, request, events, worker, judged>>
    BY <1>4 DEF BecomeReady
  <2>2. /\ object.label <= revision
        /\ name = "candidate" => ~object.tagged /\ object.label # OwnLabel
    BY <1>1, <1>2, <1>3, PlatformAssumption
    DEF Recorded, PlatformInv, PlatformTypeOK, ObjectsOK, SubsetsApart, candidate
  <2>3. name = "primary" \/ (candidate # None /\ object.spec = candidate.spec)
    BY <1>1, <1>3 DEF candidate
  <2> HIDE DEF object
  <2> QED
    BY <1>3, <1>4, <2>1, <2>2, <2>3, EnvironmentStores, EventsUnchanged
<1>5. CASE platform # "kubernetes"
  <2>1. /\ objects' = [objects EXCEPT ![name] = object]
        /\ UNCHANGED <<revision, platform, release, request, events, worker, judged>>
    BY <1>5 DEF BecomeReady
  <2> HIDE DEF object
  <2>2. objects \in [Names -> Objects \cup {None}]
    BY DEF PlatformInv, PlatformTypeOK
  <2>3. /\ objects' \in [Names -> Objects \cup {None}] /\ objects'[name] = object
        /\ \A n \in Names : n # name => objects'[n] = objects[n]
    BY <1>3, <2>1, <2>2
  <2>4. PlatformTypeOK'
    BY <2>1, <2>3 DEF PlatformInv, PlatformTypeOK
  <2>5. \A n \in Names : objects'[n] # None => Recorded(objects[n])'
    BY <1>1, <1>3, <2>1, <2>3 DEF PlatformInv, ObjectsOK, Recorded
  <2>6. SubsetsApart'
    BY <1>1, <1>3, <2>1, <2>3 DEF PlatformInv, ObjectsOK, SubsetsApart, candidate, primary
  <2>7. WorkerOK' /\ Undisturbed'
    BY <1>5, <2>1 DEF PlatformInv, WorkerOK, Marked, Undisturbed
  <2> QED
    BY <2>4, <2>5, <2>6, <2>7 DEF PlatformInv, ObjectsOK
<1> QED
  BY <1>4, <1>5

\* A user deletes the candidate.
LEMMA DeletesKeeps == ASSUME PlatformInv, UserDeletes PROVE PlatformInv'
<1>1. /\ ObjectsOK' /\ objects' \in [Names -> Objects \cup {None}] /\ UNCHANGED revision
      /\ candidate' = None
  BY RemoveKeepsObjects DEF UserDeletes, PlatformInv, candidate
<1>2. PlatformTypeOK' /\ WorkerOK' /\ Undisturbed'
  BY <1>1 DEF UserDeletes, PlatformInv, PlatformTypeOK, WorkerOK, Marked, Undisturbed
<1> QED
  BY <1>1, <1>2 DEF PlatformInv

\* An operation that starts has read nothing, and is neither a trial nor a promotion.
LEMMA StartsKeep ==
    ASSUME PlatformInv, NEW operation \in {"deploy", "destroy"},
           NEW call \in {"lookup", "findPrimary"}, Starts(operation, call),
           release' = IF operation = "destroy" THEN "destroy" ELSE "active",
           UNCHANGED <<platform, objects, revision, judged>>,
           request' \in [spec : Specs, base : 0..MaxRevision] \cup {None}, EventsOK'
    PROVE  PlatformInv'
<1>1. /\ worker' \in Workers /\ worker'.op = operation /\ worker'.pc = call
      /\ worker'.read = None
  BY DEF Starts, Workers, Operations, Calls
<1>2. PlatformTypeOK'
  BY <1>1 DEF PlatformInv, PlatformTypeOK, Workers, EventsOK, Reported
<1>3. ObjectsOK'
  BY DEF PlatformInv, ObjectsOK, Recorded, SubsetsApart, candidate, primary
<1>4. WorkerOK' /\ Undisturbed'
  BY <1>1 DEF WorkerOK, Undisturbed
<1> QED
  BY <1>2, <1>3, <1>4 DEF PlatformInv

\* Admission handles an event of Nomad.
LEMMA HandleKeeps == ASSUME PlatformInv, HandleEvent PROVE PlatformInv'
<1>1. EventsOK'
  <2>1. events \in Seq(Reported) /\ events # <<>> /\ events' = Tail(events)
        /\ Len(events) <= MaxEvents /\ MaxEvents \in Nat
    BY PlatformAssumption DEF HandleEvent, PlatformInv, PlatformTypeOK, Reported
  <2>2. events' \in Seq(Reported) /\ Len(events') = Len(events) - 1 /\ Len(events) \in Nat
    BY <2>1
  <2> QED
    BY <2>1, <2>2 DEF EventsOK
<1>2. CASE release' = "active" /\ Starts("deploy", "lookup")
  BY <1>1, <1>2, StartsKeep DEF HandleEvent, PlatformInv, PlatformTypeOK
<1>3. CASE UNCHANGED <<release, worker>>
  <2>1. PlatformTypeOK'
    BY <1>1, <1>3 DEF HandleEvent, PlatformInv, PlatformTypeOK, EventsOK, Reported
  <2>2. ObjectsOK' /\ WorkerOK' /\ Undisturbed'
    BY <1>3 DEF HandleEvent, PlatformInv, ObjectsOK, Recorded, SubsetsApart, WorkerOK, Marked,
       Undisturbed, candidate, primary
  <2> QED
    BY <2>1, <2>2 DEF PlatformInv
<1> QED
  BY <1>2, <1>3 DEF HandleEvent, Check

\* Everything that is not the operation's.
LEMMA EnvironmentKeeps == ASSUME PlatformInv, Environment PROVE PlatformInv'
<1>1. ASSUME BeginDestroy PROVE PlatformInv'
  BY <1>1, StartsKeep, EventsUnchanged DEF BeginDestroy, PlatformInv, PlatformTypeOK
<1> QED
  BY <1>1, SubmitKeeps, RegisterKeeps, PersistKeeps, HandleKeeps, RescaleKeeps, ReadyKeeps,
     DeletesKeeps DEF Environment

\* A verdict turns the operation into a promotion or a rollback.
LEMMA JudgedKeeps ==
    ASSUME PlatformInv, NEW operation \in {"promote", "rollback"}, Judged(operation)
    PROVE  PlatformInv'
<1>1. /\ worker' \in Workers /\ worker'.op = operation /\ worker'.read = None
      /\ worker'.pc \in {"find", "remove"} /\ release' = release /\ Reads
      /\ worker # None /\ worker.pc = "judge"
  BY DEF Judged, At, Starts, Workers, Operations, Calls
<1>2. WorkerOK'
  BY <1>1 DEF PlatformInv, WorkerOK
<1>3. Undisturbed'
  BY <1>1 DEF PlatformInv, Undisturbed, Reads, candidate
<1> QED
  BY <1>1, <1>2, <1>3, ReadsKeep DEF PlatformInv, PlatformTypeOK
-----------------------------------------------------------------------------
\* On this build the integer made of NaN is below every minimum.
NaNIsLow ==
    \A queries \in Configurations : \A i \in 1..Len(queries) :
       queries[i].min # NoLimit => \A n \in NaNAsInt : n < queries[i].min

\* The passes that are counted are good checks in a row, and a check that is still
\* going on has been good so far.
Counting ==
    NaNIsLow =>
        /\ stage \in {"request", "test"} => passes <= streak
        /\ stage \in {"request", "test", "check"} => clean

JudgementInv == JudgementTypeOK /\ Counting

PassesStep ==
    NaNIsLow /\ stage = "test" /\ stage' = "execute" => streak' = RequiredTestPasses

StepsStep ==
    NaNIsLow /\ stage = "check" /\ (stage' = "complete" \/ traffic' > traffic) => streak' >= 1

\* Truncation is off by less than one, that is by less than two halves.
LEMMA Truncation ==
    ASSUME NEW value \in Int
    PROVE  /\ Truncated(value) \in Int
           /\ 2 * Truncated(value) - 2 < value /\ value < 2 * Truncated(value) + 2
  BY DEF Truncated

\* A query that succeeds has had a tolerable answer.
LEMMA SuccessIsTolerable ==
    ASSUME NEW query \in Queries, NEW answer \in Answers, "success" \in Results(query, answer),
           query.min # NoLimit => \A n \in NaNAsInt : n < query.min
    PROVE  Tolerable(query, answer)
<1>1. PICK n \in AsInts(answer) : Within(query, n)
  BY DEF Results
<1>2. answer.kind \in {"vector", "NaN"}
  BY DEF Results, Answers
<1>3. query.min \in Int \cup {NoLimit} /\ query.max \in Int \cup {NoLimit}
  BY DEF Queries
<1>4. CASE answer.kind = "NaN"
  <2>1. n \in NaNAsInt /\ n \in Int
    BY <1>1, <1>4, JudgementAssumption DEF AsInts
  <2>2. query.min # NoLimit => FALSE
    BY <1>1, <1>3, <2>1 DEF Within
  <2> QED
    BY <1>4, <2>2 DEF Tolerable
<1>5. CASE answer.kind = "vector"
  <2>1. answer.value \in Int
    BY <1>5, JudgementAssumption DEF Answers
  <2>2. n = Truncated(answer.value)
    BY <1>1, <1>5 DEF AsInts
  <2>3. n \in Int /\ 2 * n - 2 < answer.value /\ answer.value < 2 * n + 2
    BY <2>1, <2>2, Truncation
  <2>4. query.min # NoLimit => answer.value > 2 * query.min - 2
    BY <1>1, <1>3, <2>1, <2>3 DEF Within
  <2>5. query.max # NoLimit => answer.value < 2 * query.max + 2
    BY <1>1, <1>3, <2>1, <2>3 DEF Within
  <2> QED
    BY <1>5, <2>4, <2>5 DEF Tolerable
<1> QED
  BY <1>2, <1>4, <1>5

\* Lengths of configurations.
LEMMA ConfigurationType ==
    ASSUME config \in Configurations
    PROVE  Len(config) \in Nat /\ \A i \in 1..Len(config) : config[i] \in Queries
<1>1. config \in Seq(Queries)
  BY JudgementAssumption
<1> QED
  BY <1>1

\* Before any trial.
LEMMA JudgementInitInv == ASSUME JudgementInit PROVE JudgementInv
<1>1. Len(config) \in Nat
  BY ConfigurationType DEF JudgementInit
<1>2. JudgementTypeOK
  <2>1. late \in BOOLEAN /\ hung \in BOOLEAN /\ clean \in BOOLEAN /\ stage \in Stages
    BY Zenon DEF JudgementInit, Stages
  <2>2. /\ asked \in 0..Len(config) /\ passes \in 0..(RequiredTestPasses - 1)
        /\ fails \in Nat /\ traffic \in -1..100 /\ streak \in 0..RequiredTestPasses
    BY <1>1, JudgementAssumption DEF JudgementInit
  <2> QED
    BY <2>1, <2>2 DEF JudgementInit, JudgementTypeOK
<1>3. Counting
  BY DEF JudgementInit, Counting
<1> QED
  BY <1>2, <1>3 DEF JudgementInv

\* A check that is over, as a test and as a step of the strategy.
LEMMA TestCheckedKeeps ==
    ASSUME JudgementInv, stage = "test", NEW result, NEW wasClean \in BOOLEAN,
           NaNIsLow /\ result = "success" => wasClean, Checked(result, wasClean), UNCHANGED config
    PROVE  JudgementInv' /\ PassesStep
<1>1. /\ RequiredTestPasses \in Nat /\ RequiredTestPasses >= 1
      /\ passes \in Nat /\ passes < RequiredTestPasses /\ (NaNIsLow => passes <= streak)
      /\ streak \in Nat /\ streak <= RequiredTestPasses /\ Len(config) \in Nat
  BY JudgementAssumption, ConfigurationType DEF JudgementInv, JudgementTypeOK, Counting
<1>2. /\ Counted(result) \in Nat
      /\ streak' \in Nat /\ streak' <= RequiredTestPasses
      /\ NaNIsLow =>
            /\ Counted(result) < RequiredTestPasses => Counted(result) <= streak'
            /\ Counted(result) >= RequiredTestPasses => streak' = RequiredTestPasses
  BY <1>1 DEF Counted, Checked
<1> DEFINE next == AfterTest(Counted(result))
<1>3. /\ stage' = next /\ asked' = 0 /\ clean' = TRUE
      /\ passes' = IF next = "request" THEN Counted(result) ELSE 0
      /\ late' = (late /\ next = "request")
      /\ UNCHANGED <<fails, traffic, hung>>
  BY DEF Checked, TestChecked, Begins
<1>4. /\ next \in {"unhealthy", "execute", "request"}
      /\ next = "request" => Counted(result) < RequiredTestPasses
      /\ next = "execute" => Counted(result) >= RequiredTestPasses
  BY <1>1, <1>2 DEF AfterTest
<1> HIDE DEF next
<1>5. passes' \in 0..(RequiredTestPasses - 1)
  BY <1>1, <1>2, <1>3, <1>4
<1>6. late' \in BOOLEAN /\ stage' \in Stages
  BY <1>3, <1>4, Zenon DEF Stages
<1>7. JudgementTypeOK'
  BY <1>1, <1>2, <1>3, <1>5, <1>6 DEF JudgementInv, JudgementTypeOK
<1>8. Counting'
  BY <1>2, <1>3, <1>4 DEF Counting
<1>9. PassesStep
  BY <1>2, <1>3, <1>4 DEF PassesStep
<1> QED
  BY <1>7, <1>8, <1>9 DEF JudgementInv

\* A check of the strategy moves traffic on a success, which was a good one.
LEMMA StrategyCheckedKeeps ==
    ASSUME JudgementInv, stage = "check", NEW result, NEW wasClean \in BOOLEAN,
           NaNIsLow /\ result = "success" => wasClean, Checked(result, wasClean), UNCHANGED config
    PROVE  JudgementInv' /\ StepsStep
<1>1. /\ RequiredTestPasses \in Nat /\ RequiredTestPasses >= 1
      /\ streak \in Nat /\ streak <= RequiredTestPasses /\ Len(config) \in Nat
      /\ traffic \in -1..100 /\ fails \in Nat
  BY JudgementAssumption, ConfigurationType DEF JudgementInv, JudgementTypeOK
<1>2. /\ streak' \in 0..RequiredTestPasses
      /\ NaNIsLow /\ result = "success" => streak' >= 1
  BY <1>1 DEF Checked
<1>3. StrategyChecked(result)
  BY DEF Checked
<1>4. CASE result = "success"
  <2>1. CASE traffic + TrafficStep >= MaxTraffic
    <3>1. /\ stage' = "complete" /\ asked' = 0 /\ clean' = TRUE /\ traffic' = -1
          /\ UNCHANGED <<passes, fails, late, hung>>
      BY <1>3, <1>4, <2>1 DEF StrategyChecked, Begins
    <3> QED
      BY <1>1, <1>2, <1>4, <3>1
      DEF JudgementInv, JudgementTypeOK, Counting, StepsStep, Stages
  <2>2. CASE ~(traffic + TrafficStep >= MaxTraffic)
    <3>1. /\ Monitor /\ traffic' = traffic + TrafficStep /\ UNCHANGED hung
      BY <1>3, <1>4, <2>2 DEF StrategyChecked
    <3>2. traffic' \in -1..100
      BY <1>1, <2>2, <3>1, JudgementAssumption
    <3>3. /\ passes' = 0 /\ fails' = 0 /\ late' = FALSE /\ asked' = 0 /\ clean' = TRUE
          /\ stage' \in {"request", "execute"} /\ hung' = hung
      BY <3>1 DEF Monitor, Begins
    <3>4. JudgementTypeOK'
      <4>1. late' \in BOOLEAN /\ hung' \in BOOLEAN /\ clean' \in BOOLEAN /\ stage' \in Stages
        BY <3>3, Zenon DEF JudgementInv, JudgementTypeOK, Stages
      <4>2. /\ asked' \in 0..Len(config') /\ passes' \in 0..(RequiredTestPasses - 1)
            /\ fails' \in Nat
        BY <1>1, <3>3
      <4> QED
        BY <1>2, <3>2, <4>1, <4>2 DEF JudgementInv, JudgementTypeOK
    <3>5. Counting' /\ StepsStep
      BY <1>2, <1>4, <3>3 DEF Counting, StepsStep
    <3> QED
      BY <3>4, <3>5 DEF JudgementInv
  <2> QED
    BY <2>1, <2>2
<1>5. CASE result # "success"
  <2>1. /\ fails' = fails + 1 /\ stage' \in {"unhealthy", "sleep"}
        /\ asked' = 0 /\ clean' = TRUE /\ traffic' \in {-1, traffic}
        /\ UNCHANGED <<passes, late, hung>>
    BY <1>3, <1>5 DEF StrategyChecked, Begins
  <2> QED
    BY <1>1, <1>2, <2>1 DEF JudgementInv, JudgementTypeOK, Counting, StepsStep, Stages
<1> QED
  BY <1>4, <1>5

\* A step of the trial other than the end of a check moves nothing.
LEMMA OtherStages ==
    ASSUME JudgementInv, JudgementTypeOK', Counting',
           \/ stage \notin {"test", "check"}
           \/ stage' = stage /\ traffic' = traffic
    PROVE  JudgementInv' /\ PassesStep /\ StepsStep
<1>1. traffic \in Int
  BY DEF JudgementInv, JudgementTypeOK
<1> QED
  BY <1>1 DEF JudgementInv, PassesStep, StepsStep

\* doMonitor begins anew.
LEMMA MonitorKeeps ==
    ASSUME JudgementInv, Monitor, traffic' \in -1..100, UNCHANGED <<config, hung, streak>>
    PROVE  JudgementTypeOK' /\ Counting'
<1>1. /\ passes' = 0 /\ fails' = 0 /\ late' = FALSE /\ asked' = 0 /\ clean' = TRUE
      /\ stage' \in {"request", "execute"}
  BY DEF Monitor, Begins
<1>2. Len(config) \in Nat /\ RequiredTestPasses \in Nat \ {0} /\ streak \in 0..RequiredTestPasses
  BY ConfigurationType, JudgementAssumption DEF JudgementInv, JudgementTypeOK
<1>3. late' \in BOOLEAN /\ hung' \in BOOLEAN /\ clean' \in BOOLEAN /\ stage' \in Stages
  BY <1>1, Zenon DEF JudgementInv, JudgementTypeOK, Stages
<1>4. /\ asked' \in 0..Len(config') /\ passes' \in 0..(RequiredTestPasses - 1) /\ fails' \in Nat
  BY <1>1, <1>2
<1>5. JudgementTypeOK'
  BY <1>3, <1>4 DEF JudgementInv, JudgementTypeOK
<1>6. Counting'
  BY <1>1, <1>2 DEF Counting
<1> QED
  BY <1>5, <1>6

\* A query either decides its check or leaves it good.
LEMMA AskKeeps ==
    ASSUME JudgementInv, Ask, UNCHANGED config
    PROVE  JudgementInv' /\ PassesStep /\ StepsStep
<1>1. ASSUME NEW result, NEW wasClean \in BOOLEAN, NaNIsLow /\ result = "success" => wasClean,
             Checked(result, wasClean)
      PROVE  JudgementInv' /\ PassesStep /\ StepsStep
  <2>1. CASE stage = "test"
    BY <1>1, <2>1, TestCheckedKeeps DEF StepsStep
  <2>2. CASE stage = "check"
    BY <1>1, <2>2, StrategyCheckedKeeps DEF PassesStep
  <2> QED
    BY <2>1, <2>2 DEF Ask
<1>2. clean \in BOOLEAN /\ (NaNIsLow => clean = TRUE)
  BY DEF Ask, JudgementInv, JudgementTypeOK, Counting
<1>3. CASE ~PresetsExist
  <2>1. Checked("error", FALSE)
    BY <1>3 DEF Ask
  <2> QED
    BY <1>1, <2>1
<1>4. CASE PresetsExist /\ asked = Len(config)
  <2>1. Checked("success", clean)
    BY <1>4 DEF Ask
  <2> QED
    BY <1>1, <1>2, <2>1
<1>5. CASE PresetsExist /\ asked # Len(config)
  <2> DEFINE query == config[asked + 1]
  <2> DEFINE Leads(answer, result) ==
           IF result = "success"
           THEN /\ asked' = asked + 1
                /\ clean' = (clean /\ Tolerable(query, answer))
                /\ UNCHANGED <<stage, passes, fails, traffic, late, hung, streak>>
           ELSE Checked(result, FALSE)
  <2>1. PICK answer \in Answers : \E result \in Results(query, answer) : Leads(answer, result)
    BY <1>5 DEF Ask
  <2>2. PICK result \in Results(query, answer) : Leads(answer, result)
    BY <2>1
  <2>3. CASE result # "success"
    BY <1>1, <2>2, <2>3
  <2>4. CASE result = "success"
    <3>1. asked \in Nat /\ Len(config) \in Nat /\ asked + 1 \in 1..Len(config)
      BY <1>5, ConfigurationType DEF JudgementInv, JudgementTypeOK
    <3>2. query \in Queries /\ config \in Configurations
      BY <3>1, ConfigurationType DEF JudgementInv, JudgementTypeOK
    <3>3. NaNIsLow => (query.min # NoLimit => \A n \in NaNAsInt : n < query.min)
      BY <3>1, <3>2 DEF NaNIsLow
    <3>4. NaNIsLow => Tolerable(query, answer)
      BY <2>2, <2>4, <3>2, <3>3, SuccessIsTolerable
    <3> HIDE DEF query
    <3>5. /\ asked' = asked + 1 /\ clean' \in BOOLEAN /\ (NaNIsLow => clean' = TRUE)
          /\ UNCHANGED <<stage, passes, fails, traffic, late, hung, streak>>
      BY <1>2, <2>2, <2>4, <3>4
    <3>6. asked' \in 0..Len(config') /\ clean' \in BOOLEAN
      BY <3>1, <3>5
    <3>7. JudgementTypeOK' /\ Counting'
      BY <3>5, <3>6 DEF JudgementInv, JudgementTypeOK, Counting
    <3> QED
      BY <3>5, <3>7, OtherStages
  <2> QED
    BY <2>3, <2>4
<1> QED
  BY <1>3, <1>4, <1>5

\* Every step of a trial.
LEMMA JudgementStepKeeps ==
    ASSUME JudgementInv, JudgementStep
    PROVE  JudgementInv' /\ PassesStep /\ StepsStep
<1>1. UNCHANGED config /\ JudgementTypeOK /\ Counting /\ traffic \in -1..100
  BY DEF JudgementStep, JudgementInv, JudgementTypeOK
<1>2. CASE Begin
  BY <1>1, <1>2, MonitorKeeps, OtherStages DEF Begin
<1>3. CASE Request
  <2>1. /\ stage = "request" /\ stage' \in {"request", "test", "unhealthy"}
        /\ hung' \in BOOLEAN
        /\ UNCHANGED <<asked, passes, fails, traffic, late, clean, streak>>
    BY <1>1, <1>3 DEF Request, JudgementTypeOK
  <2>2. JudgementTypeOK' /\ Counting'
    BY <1>1, <2>1 DEF JudgementTypeOK, Counting, Stages
  <2> QED
    BY <2>1, <2>2, OtherStages
<1>4. CASE TimeoutPasses
  <2>1. late' \in BOOLEAN /\ UNCHANGED <<stage, asked, passes, fails, traffic, hung, clean, streak>>
    BY <1>4 DEF TimeoutPasses
  <2>2. JudgementTypeOK' /\ Counting'
    BY <1>1, <2>1 DEF JudgementTypeOK, Counting
  <2> QED
    BY <2>1, <2>2, OtherStages
<1>5. CASE Ask
  BY <1>1, <1>5, AskKeeps
<1>6. CASE Execute \/ Sleep
  <2>1. CASE Monitor /\ traffic' = FirstTraffic /\ UNCHANGED <<hung, streak>>
    <3>1. traffic' \in -1..100
      BY <2>1, JudgementAssumption DEF FirstTraffic
    <3> QED
      BY <1>1, <1>6, <2>1, <3>1, MonitorKeeps, OtherStages DEF Execute, Sleep
  <2>2. CASE /\ \E next \in {"sleep", "check"} : Begins(next)
             /\ UNCHANGED <<passes, fails, traffic, late, hung, streak>>
    <3>1. asked' = 0 /\ clean' = TRUE /\ stage' \in {"sleep", "check"} /\ Len(config) \in Nat
      BY <1>1, <2>2, ConfigurationType DEF Begins, JudgementTypeOK
    <3>2. asked' \in 0..Len(config') /\ clean' \in BOOLEAN /\ stage' \in Stages
      BY <1>1, <3>1 DEF Stages
    <3>3. JudgementTypeOK' /\ Counting'
      BY <1>1, <2>2, <3>1, <3>2 DEF JudgementTypeOK, Counting
    <3> QED
      BY <1>6, <3>3, OtherStages DEF Execute, Sleep
  <2> QED
    BY <1>6, <2>1, <2>2 DEF Execute, Sleep
<1> QED
  BY <1>2, <1>3, <1>4, <1>5, <1>6 DEF JudgementStep

\* A verdict that is acted on.
LEMMA ActedKeeps ==
    ASSUME JudgementInv, Acted PROVE JudgementInv' /\ PassesStep /\ StepsStep
<1>1. /\ stage \notin {"test", "check"} /\ stage' = "off" /\ asked' = 0 /\ clean' = TRUE
      /\ fails' = 0 /\ streak' = 0 /\ UNCHANGED <<config, passes, traffic, late, hung>>
  BY DEF Acted, Verdict, Begins
<1>2. Len(config) \in Nat /\ RequiredTestPasses \in Nat
  BY ConfigurationType, JudgementAssumption DEF JudgementInv, JudgementTypeOK
<1>3. /\ asked' \in 0..Len(config') /\ clean' \in BOOLEAN /\ stage' \in Stages
      /\ fails' \in Nat /\ streak' \in 0..RequiredTestPasses
  BY <1>1, <1>2 DEF Stages
<1>4. JudgementTypeOK' /\ Counting'
  BY <1>1, <1>3 DEF JudgementInv, JudgementTypeOK, Counting
<1> QED
  BY <1>1, <1>4, OtherStages
-----------------------------------------------------------------------------
Inv == PlatformInv /\ JudgementInv

\* Nothing happens to the judgement.
LEMMA JudgementStutters ==
    ASSUME JudgementInv, UNCHANGED judgementVars
    PROVE  JudgementInv' /\ PassesStep /\ StepsStep
<1>1. JudgementTypeOK' /\ Counting'
  BY DEF judgementVars, JudgementInv, JudgementTypeOK, Counting
<1>2. stage' = stage /\ traffic' = traffic
  BY DEF judgementVars
<1> QED
  BY <1>1, <1>2, OtherStages

\* Nothing happens to the deployments.
LEMMA PlatformStutters ==
    ASSUME PlatformInv, UNCHANGED platformVars PROVE PlatformInv'
<1>1. PlatformTypeOK'
  BY DEF platformVars, PlatformInv, PlatformTypeOK
<1>2. ObjectsOK' /\ WorkerOK' /\ Undisturbed'
  BY DEF platformVars, PlatformInv, ObjectsOK, Recorded, SubsetsApart, WorkerOK, Marked,
     Undisturbed, candidate, primary
<1> QED
  BY <1>1, <1>2 DEF PlatformInv

\* Every step keeps the invariant, and is what the trial's properties ask of it.
LEMMA StepKeeps ==
    ASSUME Inv, [Next]_vars
    PROVE  Inv' /\ PassesStep /\ StepsStep
<1>1. CASE (Environment \/ Operate) /\ UNCHANGED judgementVars
  BY <1>1, EnvironmentKeeps, OperateKeeps, JudgementStutters DEF Inv
<1>2. CASE Try
  BY <1>2, JudgementStepKeeps, PlatformStutters DEF Try, Inv
<1>3. CASE Act
  <2>1. \E operation \in {"promote", "rollback"} : Judged(operation)
    BY <1>3 DEF Act
  <2> QED
    BY <1>3, <2>1, JudgedKeeps, ActedKeeps DEF Act, Inv
<1>4. CASE UNCHANGED vars
  BY <1>4, PlatformStutters, JudgementStutters DEF vars, Inv
<1> QED
  BY <1>1, <1>2, <1>3, <1>4 DEF Next

\* The inductive invariant.
THEOREM Invariance == Spec => []Inv
<1>1. Init => Inv
  BY InitInv, JudgementInitInv DEF Init, Inv
<1>2. Inv /\ [Next]_vars => Inv'
  BY StepKeeps
<1> QED
  BY <1>1, <1>2, PTL DEF Spec

\* Deployments, versions, operations, counts and traffic keep their types.
THEOREM TypeCorrectness == Spec => []TypeOK
<1>1. Inv => TypeOK
  BY DEF Inv, PlatformInv, JudgementInv, TypeOK
<1> QED
  BY <1>1, Invariance, PTL

\* The subset filters of Nomad tell the two deployments apart, however often one
\* is copied into the other and whatever users do in between.
THEOREM ApartAlways == Spec => []SubsetsApart
<1>1. Inv => SubsetsApart
  BY DEF Inv, PlatformInv, ObjectsOK
<1> QED
  BY <1>1, Invariance, PTL

\* No change by a user passes for the controller's own.
THEOREM ChangesAlwaysSeen == Spec => []UserChangesSeen
<1>1. Inv => UserChangesSeen
  <2> SUFFICES ASSUME Inv, candidate # None PROVE ~Own(candidate.label, candidate.revision)
    BY DEF UserChangesSeen
  <2>1. candidate \in Objects /\ Recorded(candidate)
    BY DEF Inv, PlatformInv, PlatformTypeOK, ObjectsOK, candidate
  <2> QED
    BY <2>1, PlatformAssumption DEF Recorded, Own, Objects
<1> QED
  BY <1>1, Invariance, PTL

\* UpdateDeployment scales down what RemoveCandidate has read, or nothing.
THEOREM ScalesOnlyWhatItSaw == Spec => ScalesWhatItSaw
<1> DEFINE Step ==
      (platform = "kubernetes" /\ At("scaleDown") /\ worker' # worker /\ objects' # objects)
      => candidate # None /\ candidate.revision = worker.read.revision
<1>1. Inv /\ [Next]_vars => [Step]_platformVars
  <2> SUFFICES ASSUME Inv, Next, platform = "kubernetes", At("scaleDown"),
                      worker' # worker, objects' # objects
               PROVE  candidate # None /\ candidate.revision = worker.read.revision
    BY DEF vars, platformVars
  <2>1. ScaleDown
    BY DEF Next, Environment, Operate, Try, Act, Judged, Submit, Register, Persist, HandleEvent, Check,
       Rescale, BecomeReady, UserDeletes, BeginDestroy, LookupPrimary, SelectCandidate,
       FetchSource, AwaitCopy, Settle, FindCandidate, DeletePrimary, ReadCandidate,
       RefetchCandidate, FindPrimary, DeleteCandidate, RemovePrimary, WriteCopy, ScaleDown, At,
       platformVars, Reads
  <2>2. worker.copy.revision = worker.read.revision
    BY DEF Inv, PlatformInv, WorkerOK, At
  <2> QED
    BY <2>1, <2>2 DEF ScaleDown
<1> QED
  BY <1>1, Invariance, PTL DEF Spec, ScalesWhatItSaw

\* What a promotion makes the primary is what was judged.
THEOREM PromotesOnlyJudged == Spec => PromotesJudged
<1> DEFINE Step ==
      (platform = "kubernetes" /\ At("write") /\ worker.op = "promote"
       /\ worker' # worker /\ objects' # objects)
      => objects'["primary"].spec = judged
<1>1. Inv /\ [Next]_vars => [Step]_platformVars
  <2> SUFFICES ASSUME Inv, Next, platform = "kubernetes", At("write"), worker.op = "promote",
                      worker' # worker, objects' # objects
               PROVE  objects'["primary"].spec = judged
    BY DEF vars, platformVars
  <2>1. WriteCopy
    BY DEF Next, Environment, Operate, Try, Act, Judged, Submit, Register, Persist, HandleEvent, Check,
       Rescale, BecomeReady, UserDeletes, BeginDestroy, LookupPrimary, SelectCandidate,
       FetchSource, AwaitCopy, Settle, FindCandidate, DeletePrimary, ReadCandidate,
       RefetchCandidate, FindPrimary, DeleteCandidate, RemovePrimary, WriteCopy, ScaleDown, At,
       platformVars, Reads
  <2> DEFINE object == [worker.copy EXCEPT !.ready = FALSE]
  <2>2. worker.copy \in Objects /\ worker.copy.spec = judged
    BY DEF Inv, PlatformInv, WorkerOK, Undisturbed, At
  <2>3. object \in Objects /\ object.spec = judged
    BY <2>2, Unready
  <2>4. Store("primary", object)
    BY <2>1 DEF WriteCopy, Target
  <2> HIDE DEF object
  <2>5. objects'["primary"] = [object EXCEPT !.revision = revision + 1]
        /\ revision + 1 \in 0..MaxRevision
    BY <2>3, <2>4, StoreKeeps, PlatformAssumption DEF Inv, PlatformInv
  <2> QED
    BY <2>3, <2>5, Revised
<1> QED
  BY <1>1, Invariance, PTL DEF Spec, PromotesJudged

\* A test that has passed has had as many good checks in a row as are required, on
\* builds where NaN counts as a low number.
THEOREM PassesAreEarned == ASSUME NaNIsLow PROVE Spec => PassesEarned
<1>1. Inv /\ [Next]_vars =>
         [stage = "test" /\ stage' = "execute" => streak' = RequiredTestPasses]_judgementVars
  BY StepKeeps DEF PassesStep
<1> QED
  BY <1>1, Invariance, PTL DEF Spec, PassesEarned

\* Traffic moves to the candidate on good checks only.
THEOREM StepsAreEarned == ASSUME NaNIsLow PROVE Spec => StepsEarned
<1>1. Inv /\ [Next]_vars =>
         [stage = "check" /\ (stage' = "complete" \/ traffic' > traffic)
          => streak' >= 1]_judgementVars
  BY StepKeeps DEF StepsStep
<1> QED
  BY <1>1, Invariance, PTL DEF Spec, StepsEarned

=============================================================================
