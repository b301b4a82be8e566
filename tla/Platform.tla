------------------------------ MODULE Platform ------------------------------
(***************************************************************************)
(* The runtime clients, for Kubernetes and for Nomad, one call of the      *)
(* platform's API at a time: what the runtime plugin has read, what it     *)
(* writes from it, and what users change in between.  Also how the         *)
(* admission check is reached: from a webhook, before a deployment is      *)
(* stored, or from Nomad's events, after a job has been.                   *)
(***************************************************************************)
EXTENDS Naturals, Sequences

CONSTANTS
    Specs,          \* what a deployment runs
    None,
    Platforms,      \* which platforms to consider
    MaxRevision,    \* changes of deployments (a bound)
    MaxEvents       \* events on their way to the controller (a bound)

ASSUME PlatformAssumption ==
    /\ Platforms \subseteq {"kubernetes", "nomad"}
    /\ MaxRevision \in Nat /\ MaxRevision >= 4     \* those of an installed release
    /\ MaxEvents \in Nat

VARIABLES
    platform,
    objects,        \* the two deployments of the release
    revision,       \* the last resource version given out
    release,        \* what admission sees of the release's state machine
    request,        \* a deployment that was admitted and is not yet stored
    events,         \* registrations of the candidate that admission has not seen
    worker,         \* the operation in progress
    judged          \* history: what the candidate was when its trial began

platformVars == <<platform, objects, revision, release, request, events, worker, judged>>

Names == {"candidate", "primary"}

\* A label of 0 is none; OwnLabel is the "1" the plugin gives to a primary, and
\* revisions are larger.
OwnLabel == 1

Objects ==
    [ spec : Specs,
      running : BOOLEAN,        \* it is not scaled to zero
      ready : BOOLEAN,          \* its pods or allocations are healthy
      label : 0..MaxRevision,   \* consul-release-controller-version
      tagged : BOOLEAN,         \* Nomad: its services have the tag of a primary
      revision : 0..MaxRevision ]

Operations == {"deploy", "promote", "rollback", "destroy"}

Calls == {"lookup", "select", "fetch", "write", "await", "settle", "judge", "find",
          "deletePrimary", "remove", "refetch", "scaleDown", "findPrimary",
          "deleteCandidate", "removePrimary"}

PlatformTypeOK ==
    /\ platform \in Platforms
    /\ objects \in [Names -> Objects \cup {None}]
    /\ revision \in OwnLabel..MaxRevision
    /\ release \in {"idle", "active", "destroy", "removed"}
    /\ request \in [spec : Specs, base : 0..MaxRevision] \cup {None}
    /\ events \in Seq([label : 0..MaxRevision, revision : 0..MaxRevision])
    /\ Len(events) <= MaxEvents
    /\ worker \in [ op : Operations, pc : Calls,
                    read : Objects \cup {None}, copy : Objects \cup {None} ] \cup {None}
    /\ judged \in Specs \cup {None}

\* Nothing is deployed, or a first deployment is over: a copy of it is the primary,
\* and it has been scaled to zero.
Installed(spec) ==
    [n \in Names |->
        IF n = "primary"
        THEN [ spec |-> spec, running |-> TRUE, ready |-> TRUE, revision |-> OwnLabel + 2,
               label |-> IF platform = "nomad" THEN OwnLabel ELSE 0,
               tagged |-> platform = "nomad" ]
        ELSE [ spec |-> spec, running |-> FALSE, ready |-> FALSE, revision |-> OwnLabel + 3,
               label |-> OwnLabel + 1, tagged |-> FALSE ]]

PlatformInit ==
    /\ platform \in Platforms
    /\ \/ objects = [n \in Names |-> None] /\ revision = OwnLabel
       \/ \E spec \in Specs : objects = Installed(spec) /\ revision = OwnLabel + 3
    /\ release = "idle"
    /\ request = None /\ events = <<>>
    /\ worker = None /\ judged = None

candidate == objects["candidate"]
primary == objects["primary"]
-----------------------------------------------------------------------------
(* Deployments.                                                            *)

\* Every change gives the deployment a new resource version.
Store(name, object) ==
    /\ revision < MaxRevision
    /\ revision' = revision + 1
    /\ objects' = [objects EXCEPT ![name] = [object EXCEPT !.revision = revision + 1]]

Remove(name) == objects' = [objects EXCEPT ![name] = None] /\ UNCHANGED revision

\* Nomad reports every registration; that of a primary matches no selector.
Reports(name, label) ==
    IF platform = "nomad" /\ name = "candidate"
    THEN /\ Len(events) < MaxEvents
         /\ events' = Append(events, [label |-> label, revision |-> revision + 1])
    ELSE UNCHANGED events

\* The admission check takes a change as the controller's own by its label.
Own(label, rev) == label # 0 /\ label = rev

Starts(operation, call) ==
    worker' = [op |-> operation, pc |-> call, read |-> None, copy |-> None]

\* What Check does about a change of the candidate that it lets pass.
Check(label, rev) ==
    IF release = "idle" /\ ~Own(label, rev)
    THEN release' = "active" /\ Starts("deploy", "lookup")
    ELSE UNCHANGED <<release, worker>>

\* Mutant: the webhook admits whatever the state of the release.
AdmitsAll(label, rev) == TRUE

Admits(label, rev) == release # "active" \/ Own(label, rev)
-----------------------------------------------------------------------------
(* Users, and the platform itself.                                         *)

LabelOf(object) == IF object = None THEN 0 ELSE object.label

RevisionOf(object) == IF object = None THEN 0 ELSE object.revision

\* Kubernetes calls the webhook with the deployment as it will be: an update
\* keeps the labels and has the resource version it was made from.
Submit(spec) ==
    /\ platform = "kubernetes" /\ request = None
    /\ Admits(LabelOf(candidate), RevisionOf(candidate))
    /\ request' = [spec |-> spec, base |-> RevisionOf(candidate)]
    /\ Check(LabelOf(candidate), RevisionOf(candidate))
    /\ UNCHANGED <<platform, objects, revision, events, judged>>

\* The deployment is stored, or not: something else has refused it, the request
\* was a dry run, or the one it was made from has changed.
Persist ==
    /\ request # None
    /\ request' = None
    /\ \/ /\ request.base = RevisionOf(candidate)
          /\ Store("candidate", [ spec |-> request.spec, running |-> TRUE, ready |-> FALSE,
                                  label |-> LabelOf(candidate), tagged |-> FALSE,
                                  revision |-> 0 ])
       \/ UNCHANGED <<objects, revision>>
    /\ UNCHANGED <<platform, release, events, worker, judged>>

\* Nomad accepts a job first.
Register(spec) ==
    /\ platform = "nomad"
    /\ Store("candidate", [ spec |-> spec, running |-> TRUE, ready |-> FALSE,
                            label |-> 0, tagged |-> FALSE, revision |-> 0 ])
    /\ Reports("candidate", 0)
    /\ UNCHANGED <<platform, release, request, worker, judged>>

\* The event of a registration; only a job that is pending is looked at, and a
\* rejection is logged.
HandleEvent ==
    /\ events # <<>>
    /\ events' = Tail(events)
    /\ \/ Check(Head(events).label, Head(events).revision)
       \/ UNCHANGED <<release, worker>>
    /\ UNCHANGED <<platform, objects, revision, request, judged>>

\* Scaling a deployment of Kubernetes passes by the webhook.
Rescale ==
    /\ platform = "kubernetes" /\ candidate # None
    /\ Store("candidate", [candidate EXCEPT !.running = ~candidate.running, !.ready = FALSE])
    /\ UNCHANGED <<platform, release, request, events, worker, judged>>

\* The pods become healthy; in Kubernetes the new status is a new version.
BecomeReady(name) ==
    /\ objects[name] # None /\ objects[name].running /\ ~objects[name].ready
    /\ IF platform = "kubernetes"
       THEN Store(name, [objects[name] EXCEPT !.ready = TRUE])
       ELSE /\ objects' = [objects EXCEPT ![name].ready = TRUE]
            /\ UNCHANGED revision
    /\ UNCHANGED <<platform, release, request, events, worker, judged>>

UserDeletes ==
    /\ candidate # None
    /\ Remove("candidate")
    /\ UNCHANGED <<platform, release, request, events, worker, judged>>

\* The release is deleted.
BeginDestroy ==
    /\ release = "idle"
    /\ release' = "destroy"
    /\ Starts("destroy", "findPrimary")
    /\ UNCHANGED <<platform, objects, revision, request, events, judged>>
-----------------------------------------------------------------------------
(* The operation in progress: one action per call of the platform.  Any    *)
(* call can fail, which ends the operation with event_fail.                *)

At(call) == worker # None /\ worker.pc = call

Goto(call) == worker' = [worker EXCEPT !.pc = call] /\ UNCHANGED release

Ends(state) == worker' = None /\ release' = state

Fails == Ends("idle")

\* The goroutine panics: the controller is gone, and nobody resumes the release.
Dies == worker' = None /\ UNCHANGED release

\* Kubernetes' GetDeployment, on an error other than that there is none, counts
\* the replicas of a deployment that it has not got.
LookupFails == IF platform = "kubernetes" THEN Dies ELSE Fails

Reads == UNCHANGED <<platform, objects, revision, request, events, judged>>

Writes == UNCHANGED <<platform, request, judged>>

\* InitPrimary: any error that is returned counts as the absence of the primary.
LookupPrimary ==
    /\ At("lookup")
    /\ \/ primary # None /\ Goto("settle")
       \/ (primary = None \/ platform = "nomad") /\ Goto("select")
       \/ platform = "kubernetes" /\ Dies
    /\ Reads

\* GetDeploymentWithSelector: without a candidate there is nothing to do.
SelectCandidate ==
    /\ At("select")
    /\ \/ candidate # None /\ Goto("fetch")
       \/ Goto("settle")
       \/ platform = "kubernetes" /\ Dies
    /\ Reads

Source == IF worker.op = "destroy" THEN primary ELSE candidate

Target == IF worker.op = "destroy" THEN "candidate" ELSE "primary"

\* Mutant: the tag a primary has is left on its copy.
CopyKeepsTag(object) ==
    [ object EXCEPT !.label = IF worker.op # "destroy" /\ platform = "nomad" THEN OwnLabel ELSE 0,
                    !.tagged = object.tagged \/ (worker.op # "destroy" /\ platform = "nomad") ]

\* CloneDeployment.  Kubernetes' upsert replaces the label by the copy's resource
\* version, which is empty; Nomad's tags the services of a job that has the label
\* and takes the tag from those of another.
Copy(object) ==
    LET isPrimary == worker.op # "destroy" /\ platform = "nomad"
    IN  [object EXCEPT !.label = IF isPrimary THEN OwnLabel ELSE 0, !.tagged = isPrimary]

FetchSource ==
    /\ At("fetch")
    /\ \/ /\ Source # None
          /\ worker' = [worker EXCEPT !.pc = "write", !.copy = Copy(Source)]
          /\ UNCHANGED release
       \/ Fails
    /\ Reads

\* A copy has no resource version: it is created, or overwrites what is there.
\* Creating a deployment of the candidate's name passes the webhook in destroy.
WriteCopy ==
    /\ At("write")
    /\ \/ /\ Target = "candidate" /\ platform = "kubernetes" => Admits(0, 0)
          /\ Store(Target, [worker.copy EXCEPT !.ready = FALSE])
          /\ Reports(Target, worker.copy.label)
          /\ Goto("await")
       \/ (Fails \/ LookupFails) /\ UNCHANGED <<objects, revision, events>>
    /\ Writes

\* GetHealthyDeployment, which polls until its deadline.  Nomad's assigns the
\* error of an unhealthy job to another variable, and returns neither job nor
\* error: "nothing" for the caller, who looks at the error only.
Healthy(object) == object # None /\ object.running /\ object.ready

ToldNothing(object) == object # None /\ platform = "nomad" /\ ~Healthy(object)

AwaitCopy ==
    /\ At("await")
    /\ \/ /\ Healthy(objects[Target]) \/ ToldNothing(objects[Target])
          /\ Goto("settle")
       \/ Fails
    /\ Reads

\* What Consul finds with the subset filters of the platform: a name, or a tag.
Subset(name) ==
    {n \in Names : /\ objects[n] # None /\ objects[n].running
                   /\ IF platform = "nomad" THEN objects[n].tagged = (name = "primary")
                      ELSE n = name}

\* CheckHealth, of the service and of its proxies.
CheckHealth(name) == Subset(name) # {} /\ \A n \in Subset(name) : objects[n].ready

\* The state machine waits: for Consul to call the deployment that is to serve
\* healthy, and then for traffic to move, by when a request that was under way has
\* ended.  A first deployment and a promotion remove the candidate, a destruction
\* the primary, other deployments begin a trial.
Settle ==
    /\ At("settle") /\ request = None
    /\ \/ /\ CheckHealth(IF worker.op = "destroy" THEN "candidate" ELSE "primary")
          /\ IF worker.op = "deploy" /\ worker.copy = None
             THEN /\ Goto("judge")
                  /\ judged' = IF candidate = None THEN None ELSE candidate.spec
             ELSE /\ Goto(IF worker.op = "destroy" THEN "removePrimary" ELSE "remove")
                  /\ UNCHANGED judged
       \/ Fails /\ UNCHANGED judged
    /\ UNCHANGED <<platform, objects, revision, request, events>>

Judged(operation) ==
    /\ At("judge")
    /\ Starts(operation, IF operation = "promote" THEN "find" ELSE "remove")
    /\ UNCHANGED release
    /\ Reads

\* Nomad's client sees only jobs that are running or pending; one without
\* allocations may be dead.
MayMiss(object) ==
    IF object = None THEN TRUE ELSE platform = "nomad" /\ ~object.running

\* PromoteCandidate; without a candidate the state machine carries on.
FindCandidate ==
    /\ At("find")
    /\ \/ /\ Healthy(candidate)
          /\ worker' = [worker EXCEPT !.pc = "deletePrimary", !.read = candidate]
          /\ UNCHANGED release
       \/ ToldNothing(candidate) /\ Goto("deletePrimary")
       \/ MayMiss(candidate) /\ Goto("settle")
       \/ Fails
    /\ Reads

\* Once the primary is gone the plugin makes its successor from what it was told
\* about the candidate; if that was nothing, it panics.
DeletePrimary ==
    /\ At("deletePrimary")
    /\ \/ /\ primary # None
          /\ Remove("primary")
          /\ IF worker.read # None THEN Goto("fetch") ELSE Dies
       \/ Fails /\ UNCHANGED <<objects, revision>>
    /\ UNCHANGED events
    /\ Writes

\* RemoveCandidate: reads the candidate ...
ReadCandidate ==
    /\ At("remove")
    /\ \/ /\ candidate # None
          /\ worker' = [worker EXCEPT !.pc = "refetch", !.read = candidate]
          /\ UNCHANGED release
       \/ MayMiss(candidate) /\ Ends("idle")
       \/ LookupFails
    /\ Reads

\* Mutant: UpdateDeployment keeps the version of the deployment it has fetched.
ScaledKeepsRevision(object, read) ==
    [object EXCEPT !.running = FALSE, !.ready = FALSE, !.label = object.revision]

\* Mutant: the label is the version the update is expected to get.
ScaledForesees(object, read) ==
    [ object EXCEPT !.running = FALSE, !.ready = FALSE, !.label = read.revision + 1,
                    !.revision = read.revision ]

\* The scale, the label and the version are those the plugin asked for, the rest
\* is what UpdateDeployment finds.
Scaled(object, read) ==
    [ object EXCEPT !.running = FALSE, !.ready = FALSE, !.label = read.revision,
                    !.revision = read.revision ]

\* ... which UpdateDeployment reads again ...
RefetchCandidate ==
    /\ At("refetch")
    /\ \/ /\ candidate # None
          /\ worker' = [worker EXCEPT !.pc = "scaleDown",
                                      !.copy = Scaled(candidate, worker.read)]
          /\ UNCHANGED release
       \/ Fails
    /\ Reads

\* ... and writes.  Kubernetes refuses it unless the deployment still has that
\* version; Nomad registers the job whatever has become of it.
ScaleDown ==
    /\ At("scaleDown")
    /\ \/ /\ platform = "kubernetes" =>
                /\ candidate # None /\ candidate.revision = worker.copy.revision
                /\ Admits(worker.copy.label, worker.copy.revision)
          /\ Store("candidate", worker.copy)
          /\ Reports("candidate", worker.copy.label)
          /\ Ends("idle")
       \/ (Fails \/ LookupFails) /\ UNCHANGED <<objects, revision, events>>
    /\ Writes

\* RestoreOriginal, then RemovePrimary.
FindPrimary ==
    /\ At("findPrimary")
    /\ \/ primary # None /\ Goto("deleteCandidate")
       \/ primary = None /\ Goto("settle")
       \/ LookupFails
    /\ Reads

DeleteCandidate ==
    /\ At("deleteCandidate")
    /\ \/ Remove("candidate") /\ Goto("fetch")
       \/ MayMiss(candidate) /\ Goto("fetch") /\ UNCHANGED <<objects, revision>>
       \/ Fails /\ UNCHANGED <<objects, revision>>
    /\ UNCHANGED events
    /\ Writes

RemovePrimary ==
    /\ At("removePrimary")
    /\ \/ Remove("primary") /\ Ends("removed")
       \/ MayMiss(primary) /\ Ends("removed") /\ UNCHANGED <<objects, revision>>
       \/ Fails /\ UNCHANGED <<objects, revision>>
    /\ UNCHANGED events
    /\ Writes
-----------------------------------------------------------------------------
Environment ==
    \/ \E spec \in Specs : Submit(spec) \/ Register(spec)
    \/ Persist \/ HandleEvent \/ Rescale
    \/ \E name \in Names : BecomeReady(name)
    \/ UserDeletes \/ BeginDestroy

Operate ==
    \/ LookupPrimary \/ SelectCandidate \/ FetchSource \/ WriteCopy \/ AwaitCopy
    \/ Settle \/ FindCandidate \/ DeletePrimary
    \/ ReadCandidate \/ RefetchCandidate \/ ScaleDown
    \/ FindPrimary \/ DeleteCandidate \/ RemovePrimary
-----------------------------------------------------------------------------
(* Properties.                                                             *)

\* The filters of the resolver's subsets tell the two deployments of a Nomad
\* release apart: whatever copies, promotions, changes of users and restorations
\* there have been, the primary has the tag and the candidate has not, nor the
\* label of one, which would keep it from ever being updated "as normal".
SubsetsApart ==
    /\ (platform = "nomad" /\ primary # None) => primary.tagged
    /\ candidate # None => ~candidate.tagged /\ candidate.label # OwnLabel

\* The label with which the controller marks its own change never matches the
\* deployment that has been stored, so that no later change is taken for it.
UserChangesSeen == candidate # None => ~Own(candidate.label, candidate.revision)

\* UpdateDeployment, which reads the deployment again, scales down none but the
\* version RemoveCandidate has seen, although scaling and status pass by the
\* webhook.  Nomad's does not keep to that.
ScalesWhatItSaw ==
    [][ (platform = "kubernetes" /\ At("scaleDown") /\ worker' # worker
         /\ objects' # objects)
        => candidate # None /\ candidate.revision = worker.read.revision ]_platformVars

\* What becomes the primary in a promotion is what the trial was about: in
\* Kubernetes nobody changes a candidate between.  In Nomad a job is replaced
\* before anybody is asked.
PromotesJudged ==
    [][ (platform = "kubernetes" /\ At("write") /\ worker.op = "promote"
         /\ worker' # worker /\ objects' # objects)
        => objects'["primary"].spec = judged ]_platformVars

\* runtime.go: "returns a nill deployment and a ErrDeploymentNotHealthy error
\* when the deployment exists but is not in a healthy state": a promotion that
\* goes on has a healthy candidate.
HealthIsTold ==
    [][ At("find") /\ worker' # None /\ worker'.pc = "deletePrimary"
        => Healthy(candidate) ]_platformVars

=============================================================================
