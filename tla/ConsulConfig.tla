---------------------------- MODULE ConsulConfig ----------------------------
(***************************************************************************)
(* The configuration entries the Consul releaser plugin writes for the     *)
(* services it releases: service defaults, resolver, splitter, intentions, *)
(* and the upstream router that all services share.  Setup and Destroy are *)
(* sequences of calls any of which may fail, run again, and interleave     *)
(* with those of another release; users had entries of their own before.   *)
(***************************************************************************)
EXTENDS Naturals

CONSTANTS
    Services,
    None,
    UserEntries,        \* the entries users may have made for a service
    ConsulFails,        \* whether a call may fail, before or after its effect
    MaxRoutes           \* more routes for one service count as this many

\* ControllerServiceName and UpstreamRouterName have service defaults, too.
Names == Services \cup {"controller", "upstreams"}

Protocols == {"", "tcp", "http", "grpc"}

NoDefaults   == [owner |-> "none", protocol |-> ""]
NoResolver   == [owner |-> "none", subsets |-> {}]
NoIntentions == [owner |-> "none", sources |-> {}]
NoRoutes     == [s \in Services |-> 0]

\* Intentions without a source are none; a source of the controller's may be
\* among them.
ASSUME UserAssumption ==
    /\ UserEntries \subseteq
          [ defaults   : {NoDefaults} \cup [owner : {"user"}, protocol : Protocols],
            resolver   : {NoResolver} \cup [owner : {"user"}, subsets : SUBSET {"user"}],
            intentions : {NoIntentions} \cup
                         [owner : {"user"}, sources : {{"user"}, {"controller", "user"}}] ]
    /\ ConsulFails \in BOOLEAN
    /\ MaxRoutes \in Nat \ {0}
    /\ Services \cap {"controller", "upstreams"} = {}

VARIABLES
    config,     \* the entries in Consul
    worker,     \* for each service, the call its releaser plugin is at
    outcome,    \* for each service, how the last operation ended
    original,   \* history: the entries before the controller came
    raced       \* history: an old copy of the router has been written

vars == <<config, worker, outcome, original, raced>>
history == <<original, raced>>

\* "controller" owns the entries that carry MetaCreatedTag, "none" stands for
\* an entry that does not exist.
Owners == {"none", "user", "controller"}

\* Subset "release" is the two subsets, primary and candidate, of a release.
Configs ==
    [ defaults   : [Names -> [owner : Owners, protocol : Protocols]],
      resolver   : [Services -> [owner : Owners, subsets : SUBSET {"release", "user"}]],
      splitter   : [Services -> BOOLEAN],
      intentions : [Services -> [owner : Owners, sources : SUBSET {"controller", "user"}]],
      router     : [Services -> 0..MaxRoutes] ]    \* routes to each service

Calls == {"defaults", "controllerDefaults", "upstreamDefaults", "createResolver",
          "readRoutes", "addRoute", "createIntention", "createSplitter",
          "deleteSplitter", "findRoutes", "removeRoute", "deleteResolver",
          "deleteIntention", "deleteDefaults"}

\* No call under way, and any call under way, are told apart.
ASSUME NoneAssumption == None \notin [pc : Calls, read : [Services -> 0..MaxRoutes]]

TypeOK ==
    /\ config \in Configs
    /\ worker \in [Services -> [pc : Calls, read : [Services -> 0..MaxRoutes]] \cup {None}]
    /\ outcome \in [Services -> {"new", "setup", "failed", "panicked", "destroyed"}]
    /\ original \in Configs
    /\ raced \in BOOLEAN

Init ==
    /\ \E user \in [Services -> UserEntries] :
          config = [ defaults   |-> [n \in Names |-> IF n \in Services THEN user[n].defaults
                                                                       ELSE NoDefaults],
                     resolver   |-> [s \in Services |-> user[s].resolver],
                     splitter   |-> [s \in Services |-> FALSE],
                     intentions |-> [s \in Services |-> user[s].intentions],
                     router     |-> NoRoutes ]
    /\ original = config
    /\ worker = [s \in Services |-> None]
    /\ outcome = [s \in Services |-> "new"]
    /\ raced = FALSE
-----------------------------------------------------------------------------
(* Consul.                                                                 *)

\* The check Consul makes of every write: a splitter or a route needs the
\* subsets it names, and only services whose protocol is HTTP have them.
Consistent(c) ==
    /\ \A s \in Services : c.splitter[s] \/ c.router[s] > 0 =>
          c.defaults[s].protocol = "http" /\ "release" \in c.resolver[s].subsets
    /\ c.router # NoRoutes => c.defaults["upstreams"].protocol = "http"

At(s, call) == worker[s] # None /\ worker[s].pc = call

\* Mutants: Setup writes no route; Destroy starts with the resolver.
AfterNoRouter ==
    [ defaults |-> "controllerDefaults", controllerDefaults |-> "upstreamDefaults",
      upstreamDefaults |-> "createResolver", createResolver |-> "createIntention",
      deleteSplitter |-> "findRoutes", findRoutes |-> "removeRoute",
      removeRoute |-> "deleteResolver", deleteResolver |-> "deleteIntention",
      deleteIntention |-> "deleteDefaults" ]

AfterResolverFirst ==
    [ defaults |-> "controllerDefaults", controllerDefaults |-> "upstreamDefaults",
      upstreamDefaults |-> "createResolver", createResolver |-> "readRoutes",
      readRoutes |-> "addRoute", addRoute |-> "createIntention",
      deleteSplitter |-> "deleteResolver", deleteResolver |-> "findRoutes",
      findRoutes |-> "removeRoute", removeRoute |-> "deleteIntention",
      deleteIntention |-> "deleteDefaults" ]

\* What follows a call that succeeds: another call, or the operation's end.
After ==
    [ defaults |-> "controllerDefaults", controllerDefaults |-> "upstreamDefaults",
      upstreamDefaults |-> "createResolver", createResolver |-> "readRoutes",
      readRoutes |-> "addRoute", addRoute |-> "createIntention",
      deleteSplitter |-> "findRoutes", findRoutes |-> "removeRoute",
      removeRoute |-> "deleteResolver", deleteResolver |-> "deleteIntention",
      deleteIntention |-> "deleteDefaults" ]

Advance(s) ==
    LET pc == worker[s].pc
    IN  IF pc \in DOMAIN After
        THEN /\ worker' = [worker EXCEPT ![s] = [pc |-> After[pc], read |-> NoRoutes]]
             /\ outcome' = outcome
        ELSE /\ worker' = [worker EXCEPT ![s] = None]
             /\ outcome' = [outcome EXCEPT ![s] =
                   CASE pc = "createIntention" -> "setup"
                     [] pc = "deleteDefaults"  -> "destroyed"
                     [] OTHER                  -> @]

\* Setup, Scale and Destroy return the first error.
Fail(s) ==
    /\ worker' = [worker EXCEPT ![s] = None]
    /\ outcome' = [outcome EXCEPT ![s] = "failed"]

\* The call finds nothing to change.
Skip(s) == config' = config /\ Advance(s)

\* The call returns an error without having changed anything.
Reject(s) == config' = config /\ Fail(s)

\* The call writes; an error may hide that the write has been done.
Write(s, new) ==
    \/ Consistent(new) /\ config' = new /\ Advance(s)
    \/ Consistent(new) /\ ConsulFails /\ config' = new /\ Fail(s)
    \/ ~Consistent(new) /\ Reject(s)
-----------------------------------------------------------------------------
(* Setup.                                                                  *)

\* The entry is created, changed from TCP to HTTP, or left as it is; one without
\* a protocol is overwritten and from then on counts as the controller's.
CreateServiceDefaults(s, name) ==
    LET entry == config.defaults[name]
    IN  \/ entry.owner # "none" /\ entry.protocol = "grpc" /\ Reject(s)
        \/ entry.owner # "none" /\ entry.protocol = "http" /\ Skip(s)
        \/ /\ entry.owner # "none" /\ entry.protocol = "tcp"
           /\ Write(s, [config EXCEPT !.defaults[name].protocol = "http"])
        \/ /\ entry.owner = "none" \/ entry.protocol = ""
           /\ Write(s, [config EXCEPT !.defaults[name] =
                           [owner |-> "controller", protocol |-> "http"]])

CreateDefaults(s) ==
    /\ \/ At(s, "defaults") /\ CreateServiceDefaults(s, s)
       \/ At(s, "controllerDefaults") /\ CreateServiceDefaults(s, "controller")
       \/ At(s, "upstreamDefaults") /\ CreateServiceDefaults(s, "upstreams")
    /\ UNCHANGED history

WithSubsets(s) ==
    [config EXCEPT !.resolver[s] =
        [owner   |-> IF @.owner = "none" THEN "controller" ELSE @.owner,
         subsets |-> @.subsets \cup {"release"}]]

\* An existing resolver without subsets has a nil map, and writing to that
\* panics: the controller dies, and with it every other operation.
CreateServiceResolver(s) ==
    LET entry == config.resolver[s]
    IN  /\ At(s, "createResolver")
        /\ \/ /\ entry.owner = "none" \/ entry.subsets # {}
              /\ Write(s, WithSubsets(s))
           \/ /\ entry.owner # "none" /\ entry.subsets = {}
              /\ config' = config
              /\ worker' = [t \in Services |-> None]
              /\ outcome' = [t \in Services |->
                                IF worker[t] # None THEN "panicked" ELSE outcome[t]]
        /\ UNCHANGED history

\* The routes of the router are read, and later written back with one more.
ReadRoutes(s) ==
    /\ At(s, "readRoutes")
    /\ worker' = [worker EXCEPT ![s] = [pc |-> "addRoute", read |-> config.router]]
    /\ UNCHANGED <<config, outcome, history>>

\* What is written to the router is the copy read before.
WritesCopy(s) ==
    /\ raced' = (raced \/ worker[s].read # config.router)
    /\ original' = original

\* Mutant: routes pile up.
WithRouteUnbounded(s) ==
    [config EXCEPT !.router = [worker[s].read EXCEPT ![s] = @ + 1]]

WithRoute(s) ==
    [config EXCEPT !.router =
        [worker[s].read EXCEPT ![s] = IF @ < MaxRoutes THEN @ + 1 ELSE @]]

CreateUpstreamRouter(s) ==
    /\ At(s, "addRoute")
    /\ Write(s, WithRoute(s))
    /\ WritesCopy(s)

CreateServiceIntention(s) ==
    LET entry == config.intentions[s]
    IN  /\ At(s, "createIntention")
        /\ IF "controller" \in entry.sources THEN Skip(s)
           ELSE Write(s, [config EXCEPT !.intentions[s] =
                    [owner   |-> IF @.owner = "none" THEN "controller" ELSE @.owner,
                     sources |-> @.sources \cup {"controller"}]])
        /\ UNCHANGED history

CreateServiceSplitter(s) ==
    /\ At(s, "createSplitter")
    /\ Write(s, [config EXCEPT !.splitter[s] = TRUE])
    /\ UNCHANGED history
-----------------------------------------------------------------------------
(* Destroy.  All but the splitter are read first, and reading an entry that *)
(* does not exist is an error.                                             *)

DeleteServiceSplitter(s) ==
    /\ At(s, "deleteSplitter")
    /\ Write(s, [config EXCEPT !.splitter[s] = FALSE])
    /\ UNCHANGED history

FindRoutes(s) ==
    /\ At(s, "findRoutes")
    /\ \/ /\ config.router # NoRoutes
          /\ worker' = [worker EXCEPT ![s] = [pc |-> "removeRoute", read |-> config.router]]
          /\ outcome' = outcome
       \/ config.router = NoRoutes /\ Fail(s)
    /\ UNCHANGED <<config, history>>

\* The router goes with its last route.
DeleteUpstreamRouter(s) ==
    /\ At(s, "removeRoute")
    /\ Write(s, [config EXCEPT !.router = [worker[s].read EXCEPT ![s] = 0]])
    /\ WritesCopy(s)

\* Mutant: the tag is not looked at.
WithoutResolver(s) == [config EXCEPT !.resolver[s] = NoResolver]

WithoutSubsets(s) ==
    [config EXCEPT !.resolver[s] =
        IF @.owner = "controller" THEN NoResolver
        ELSE [owner |-> @.owner, subsets |-> @.subsets \ {"release"}]]

DeleteServiceResolver(s) ==
    /\ At(s, "deleteResolver")
    /\ IF config.resolver[s].owner = "none" THEN Reject(s)
       ELSE Write(s, WithoutSubsets(s))
    /\ UNCHANGED history

\* Mutant: a user's intentions keep the controller's source.
DeleteOwnIntention(s) ==
    LET entry == config.intentions[s]
    IN  /\ At(s, "deleteIntention")
        /\ \/ entry.owner = "none" /\ Reject(s)
           \/ entry.owner = "user" /\ Skip(s)
           \/ /\ entry.owner = "controller"
              /\ Write(s, [config EXCEPT !.intentions[s] = NoIntentions])
        /\ UNCHANGED history

DeleteServiceIntention(s) ==
    LET entry == config.intentions[s]
    IN  /\ At(s, "deleteIntention")
        /\ \/ entry.owner = "none" /\ Reject(s)
           \/ /\ entry.owner = "user"
              /\ Write(s, [config EXCEPT !.intentions[s].sources = @ \ {"controller"}])
           \/ /\ entry.owner = "controller"
              /\ Write(s, [config EXCEPT !.intentions[s] = NoIntentions])
        /\ UNCHANGED history

WithoutDefaults(s) ==
    [config EXCEPT !.defaults[s] = IF @.owner = "controller" THEN NoDefaults ELSE @]

DeleteServiceDefaults(s) ==
    /\ At(s, "deleteDefaults")
    /\ \/ config.defaults[s].owner = "none" /\ Reject(s)
       \/ config.defaults[s].owner = "user" /\ Skip(s)
       \/ config.defaults[s].owner = "controller" /\ Write(s, WithoutDefaults(s))
    /\ UNCHANGED history
-----------------------------------------------------------------------------
\* Any call may fail without having done anything.
CallFails(s) ==
    /\ ConsulFails /\ worker[s] # None
    /\ Reject(s)
    /\ UNCHANGED history

Start(s, call) ==
    /\ worker[s] = None
    /\ worker' = [worker EXCEPT ![s] = [pc |-> call, read |-> NoRoutes]]
    /\ UNCHANGED <<config, outcome, history>>

Setup(s) == Start(s, "defaults")

\* A release that failed takes deployments, and so scales, like any other.
Scale(s) == outcome[s] \in {"setup", "failed"} /\ Start(s, "createSplitter")

Destroy(s) == outcome[s] \in {"setup", "failed", "panicked"} /\ Start(s, "deleteSplitter")

Creating(s) ==
    \/ CreateDefaults(s) \/ CreateServiceResolver(s) \/ ReadRoutes(s)
    \/ CreateUpstreamRouter(s) \/ CreateServiceIntention(s) \/ CreateServiceSplitter(s)

Deleting(s) ==
    \/ DeleteServiceSplitter(s) \/ FindRoutes(s) \/ DeleteUpstreamRouter(s)
    \/ DeleteServiceResolver(s) \/ DeleteServiceIntention(s) \/ DeleteServiceDefaults(s)

Next ==
    \E s \in Services :
        Setup(s) \/ Scale(s) \/ Destroy(s) \/ Creating(s) \/ Deleting(s) \/ CallFails(s)

Spec == Init /\ [][Next]_vars
-----------------------------------------------------------------------------
(* Properties.                                                             *)

\* What Setup and Destroy never do is to ask Consul for something it must
\* refuse: they create, and remove, what refers to an entry after, or before,
\* that entry, whatever an earlier failure has left behind.
OrderAccepted ==
    ~raced => \A s \in Services :
        /\ At(s, "addRoute") /\ worker[s].read = config.router => Consistent(WithRoute(s))
        /\ At(s, "deleteResolver") => Consistent(WithoutSubsets(s))
        /\ At(s, "deleteDefaults") => Consistent(WithoutDefaults(s))

\* A service that has been set up has a route in the upstream router.
Routed ==
    \A s \in Services :
        outcome[s] = "setup" /\ worker[s] = None => config.router[s] > 0

\* It does, however other releases come and go and operations fail half way, as
\* long as no old copy of the router is written.
RoutedUnlessRaced == ~raced => Routed

\* A Destroy that succeeds leaves nothing of the release behind, though other
\* releases may have written the shared router, from an older copy, meanwhile.
NothingLeft ==
    \A s \in Services : outcome[s] = "destroyed" /\ worker[s] = None =>
        /\ ~config.splitter[s] /\ config.router[s] = 0
        /\ "release" \notin config.resolver[s].subsets
        /\ "controller" \notin config.intentions[s].sources
        /\ "controller" \notin {config.defaults[s].owner, config.resolver[s].owner,
                                config.intentions[s].owner}

\* Entries users have made stay theirs, with all that they had in them, however
\* often the release is set up and destroyed; but for service defaults without
\* a protocol, and for the controller's own source in the intentions.
UserConfigKept ==
    \A s \in Services :
        /\ original.defaults[s].owner = "user" /\ original.defaults[s].protocol # ""
           => config.defaults[s].owner = "user"
        /\ original.resolver[s].owner = "user"
           => /\ config.resolver[s].owner = "user"
              /\ original.resolver[s].subsets \subseteq config.resolver[s].subsets
        /\ original.intentions[s].owner = "user"
           => /\ config.intentions[s].owner = "user"
              /\ original.intentions[s].sources \ {"controller"}
                    \subseteq config.intentions[s].sources
=============================================================================
