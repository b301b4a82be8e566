------------------------- MODULE ConsulConfigProofs -------------------------
(***************************************************************************)
(* The invariants of ConsulConfig, for any number of services, entries and *)
(* failures.  Every entry that a call writes is typed and keeps what users *)
(* had (the lemmas ...Keeps), so does every call, and nothing else writes  *)
(* entries (NextKeepsInv).  What the calls made so far have established    *)
(* for a service (Established) survives the calls for the others.          *)
(***************************************************************************)
EXTENDS ConsulConfig, TLAPS

WorkerRecords == [pc : Calls, read : [Services -> 0..MaxRoutes]]

\* What UserConfigKept says of the entries c.
DefaultsKept(c, s) ==
    original.defaults[s].owner = "user" /\ original.defaults[s].protocol # ""
    => c.defaults[s].owner = "user" /\ c.defaults[s].protocol # ""

ResolverKept(c, s) ==
    original.resolver[s].owner = "user"
    => /\ c.resolver[s].owner = "user"
       /\ original.resolver[s].subsets \subseteq c.resolver[s].subsets

IntentionsKept(c, s) ==
    original.intentions[s].owner = "user"
    => /\ c.intentions[s].owner = "user"
       /\ original.intentions[s].sources \ {"controller"} \subseteq c.intentions[s].sources

\* Users make no subset called "release", so that removing it takes nothing away.
NoReleaseYet == \A s \in Services : "release" \notin original.resolver[s].subsets

Keeps(c) ==
    /\ c \in Configs
    /\ \A s \in Services : DefaultsKept(c, s) /\ ResolverKept(c, s) /\ IntentionsKept(c, s)

\* The inductive invariant.
Inv == TypeOK /\ NoReleaseYet /\ Keeps(config)
-----------------------------------------------------------------------------
\* The routes written are those read, but for one service.
LEMMA RouterKeeps ==
    ASSUME Inv, NEW r \in [Services -> 0..MaxRoutes]
    PROVE  Keeps([config EXCEPT !.router = r])
<1>1. config \in Configs
  BY DEF Inv, Keeps
<1> DEFINE c == [config EXCEPT !.router = r]
<1>2. c \in Configs
  BY <1>1 DEF Configs
<1>3. c.defaults = config.defaults /\ c.resolver = config.resolver
      /\ c.intentions = config.intentions
  BY <1>1 DEF Configs
<1> HIDE DEF c
<1>4. Keeps(c)
  BY <1>2, <1>3 DEF Inv, Keeps, DefaultsKept, ResolverKept, IntentionsKept
<1> QED
  BY <1>4 DEF c

\* Writing a splitter takes nothing of a user's away.
LEMMA SplitterKeeps ==
    ASSUME Inv, NEW s \in Services, NEW b \in BOOLEAN
    PROVE  Keeps([config EXCEPT !.splitter[s] = b])
<1>1. config \in Configs
  BY DEF Inv, Keeps
<1> DEFINE c == [config EXCEPT !.splitter[s] = b]
<1>2. c \in Configs
  BY <1>1 DEF Configs
<1>3. c.defaults = config.defaults /\ c.resolver = config.resolver
      /\ c.intentions = config.intentions
  BY <1>1 DEF Configs
<1> HIDE DEF c
<1>4. Keeps(c)
  BY <1>2, <1>3 DEF Inv, Keeps, DefaultsKept, ResolverKept, IntentionsKept
<1> QED
  BY <1>4 DEF c

\* Service defaults may be written where users have none with a protocol, and
\* else only with their owner and a protocol.
LEMMA DefaultsKeeps ==
    ASSUME Inv, NEW n \in Names, NEW d \in [owner : Owners, protocol : Protocols],
           config.defaults[n].owner = "user" /\ config.defaults[n].protocol # ""
           => d.owner = "user" /\ d.protocol # ""
    PROVE  Keeps([config EXCEPT !.defaults[n] = d])
<1>1. config \in Configs
  BY DEF Inv, Keeps
<1> DEFINE c == [config EXCEPT !.defaults[n] = d]
<1>2. c \in Configs
  BY <1>1 DEF Configs
<1>3. c.defaults = [config.defaults EXCEPT ![n] = d] /\ c.resolver = config.resolver
      /\ c.intentions = config.intentions
  BY <1>1 DEF Configs
<1>4. config.defaults \in [Names -> [owner : Owners, protocol : Protocols]]
  BY <1>1 DEF Configs
<1> HIDE DEF c
<1>5. ASSUME NEW s \in Services
      PROVE  DefaultsKept(c, s) /\ ResolverKept(c, s) /\ IntentionsKept(c, s)
  <2>1. DefaultsKept(config, s) /\ ResolverKept(config, s) /\ IntentionsKept(config, s)
    BY DEF Inv, Keeps
  <2>2. c.defaults[s] = IF s = n THEN d ELSE config.defaults[s]
    BY <1>3, <1>4 DEF Names
  <2> QED
    BY <1>3, <2>1, <2>2 DEF DefaultsKept, ResolverKept, IntentionsKept
<1>6. Keeps(c)
  BY <1>2, <1>5 DEF Keeps
<1> QED
  BY <1>6 DEF c

\* A resolver may be written with a user's subsets, but for "release".
LEMMA ResolverKeeps ==
    ASSUME Inv, NEW t \in Services,
           NEW d \in [owner : Owners, subsets : SUBSET {"release", "user"}],
           config.resolver[t].owner = "user"
           => d.owner = "user" /\ config.resolver[t].subsets \ {"release"} \subseteq d.subsets
    PROVE  Keeps([config EXCEPT !.resolver[t] = d])
<1>1. config \in Configs
  BY DEF Inv, Keeps
<1> DEFINE c == [config EXCEPT !.resolver[t] = d]
<1>2. c \in Configs
  BY <1>1 DEF Configs
<1>3. c.resolver = [config.resolver EXCEPT ![t] = d] /\ c.defaults = config.defaults
      /\ c.intentions = config.intentions
  BY <1>1 DEF Configs
<1>4. config.resolver \in [Services -> [owner : Owners, subsets : SUBSET {"release", "user"}]]
  BY <1>1 DEF Configs
<1> HIDE DEF c
<1>5. ASSUME NEW s \in Services
      PROVE  DefaultsKept(c, s) /\ ResolverKept(c, s) /\ IntentionsKept(c, s)
  <2>1. DefaultsKept(config, s) /\ ResolverKept(config, s) /\ IntentionsKept(config, s)
        /\ "release" \notin original.resolver[s].subsets
    BY DEF Inv, Keeps, NoReleaseYet
  <2>2. c.resolver[s] = IF s = t THEN d ELSE config.resolver[s]
    BY <1>3, <1>4
  <2> QED
    BY <1>3, <2>1, <2>2 DEF DefaultsKept, ResolverKept, IntentionsKept
<1>6. Keeps(c)
  BY <1>2, <1>5 DEF Keeps
<1> QED
  BY <1>6 DEF c

\* Intentions may be written with a user's sources, but for the controller's.
LEMMA IntentionsKeeps ==
    ASSUME Inv, NEW t \in Services,
           NEW d \in [owner : Owners, sources : SUBSET {"controller", "user"}],
           config.intentions[t].owner = "user"
           => d.owner = "user"
              /\ config.intentions[t].sources \ {"controller"} \subseteq d.sources
    PROVE  Keeps([config EXCEPT !.intentions[t] = d])
<1>1. config \in Configs
  BY DEF Inv, Keeps
<1> DEFINE c == [config EXCEPT !.intentions[t] = d]
<1>2. c \in Configs
  BY <1>1 DEF Configs
<1>3. c.intentions = [config.intentions EXCEPT ![t] = d] /\ c.defaults = config.defaults
      /\ c.resolver = config.resolver
  BY <1>1 DEF Configs
<1>4. config.intentions
        \in [Services -> [owner : Owners, sources : SUBSET {"controller", "user"}]]
  BY <1>1 DEF Configs
<1> HIDE DEF c
<1>5. ASSUME NEW s \in Services
      PROVE  DefaultsKept(c, s) /\ ResolverKept(c, s) /\ IntentionsKept(c, s)
  <2>1. DefaultsKept(config, s) /\ ResolverKept(config, s) /\ IntentionsKept(config, s)
    BY DEF Inv, Keeps
  <2>2. c.intentions[s] = IF s = t THEN d ELSE config.intentions[s]
    BY <1>3, <1>4
  <2> QED
    BY <1>3, <2>1, <2>2 DEF DefaultsKept, ResolverKept, IntentionsKept
<1>6. Keeps(c)
  BY <1>2, <1>5 DEF Keeps
<1> QED
  BY <1>6 DEF c
-----------------------------------------------------------------------------
\* What every call leaves typed, whatever it writes.
Rest == /\ worker' \in [Services -> WorkerRecords \cup {None}]
        /\ outcome' \in [Services -> {"new", "setup", "failed", "panicked", "destroyed"}]

\* A call is under way at the service.
Busy(s) == worker[s] \in WorkerRecords

\* A goroutine that is at a call has a record that says so.
LEMMA AtIsBusy ==
    ASSUME Inv, NEW s \in Services, worker[s] # None
    PROVE  Busy(s)
BY DEF Inv, TypeOK, Busy, WorkerRecords

\* The call that follows another is one of the calls.
LEMMA AfterIsCall ==
    ASSUME NEW pc \in DOMAIN After
    PROVE  After[pc] \in Calls
BY DEF After, Calls

\* The empty router is one of the routers.
LEMMA NoRoutesTyped == NoRoutes \in [Services -> 0..MaxRoutes]
BY UserAssumption DEF NoRoutes

\* A call that succeeds leads to another call, or to an outcome.
LEMMA AdvanceTyped ==
    ASSUME Inv, NEW s \in Services, Busy(s), Advance(s)
    PROVE  Rest
<1>1. /\ worker \in [Services -> WorkerRecords \cup {None}]
      /\ outcome \in [Services -> {"new", "setup", "failed", "panicked", "destroyed"}]
  BY DEF Inv, TypeOK, WorkerRecords
<1>2. CASE worker[s].pc \in DOMAIN After
  <2>1. [pc |-> After[worker[s].pc], read |-> NoRoutes] \in WorkerRecords
    BY <1>2, AfterIsCall, NoRoutesTyped DEF WorkerRecords
  <2>2. /\ worker' = [worker EXCEPT ![s] = [pc |-> After[worker[s].pc], read |-> NoRoutes]]
        /\ outcome' = outcome
    BY <1>2 DEF Advance
  <2> QED
    BY <1>1, <2>1, <2>2 DEF Rest
<1>3. CASE worker[s].pc \notin DOMAIN After
  <2>1. worker' = [worker EXCEPT ![s] = None]
    BY <1>3 DEF Advance
  <2>2. \E o \in {"new", "setup", "failed", "panicked", "destroyed"} :
           outcome' = [outcome EXCEPT ![s] = o]
    BY <1>1, <1>3 DEF Advance
  <2> QED
    BY <1>1, <2>1, <2>2 DEF Rest
<1> QED
  BY <1>2, <1>3

\* A call that fails ends the operation.
LEMMA FailTyped ==
    ASSUME Inv, NEW s \in Services, Fail(s)
    PROVE  Rest
BY DEF Inv, TypeOK, WorkerRecords, Fail, Rest

\* A call that writes entries which keep what users had, keeps it, and so does
\* a call that writes none.
LEMMA WriteKeeps ==
    ASSUME Inv, NEW s \in Services, Busy(s), NEW new, Keeps(new), Write(s, new)
    PROVE  Rest /\ Keeps(config')
<1>1. config' = new \/ config' = config
  BY DEF Write, Reject
<1>2. Rest
  BY AdvanceTyped, FailTyped DEF Write, Reject
<1> QED
  BY <1>1, <1>2 DEF Inv

\* A call with nothing to change keeps what users had.
LEMMA SkipKeeps ==
    ASSUME Inv, NEW s \in Services, Busy(s), Skip(s)
    PROVE  Rest /\ Keeps(config')
BY AdvanceTyped DEF Skip, Inv

\* A call that is refused keeps what users had.
LEMMA RejectKeeps ==
    ASSUME Inv, NEW s \in Services, Reject(s)
    PROVE  Rest /\ Keeps(config')
BY FailTyped DEF Reject, Inv

\* Entries that are kept, and variables of their types, are the invariant.
LEMMA KeptIsInv ==
    ASSUME Inv, Rest, Keeps(config'), UNCHANGED original, raced' \in BOOLEAN
    PROVE  Inv'
<1>1. TypeOK'
  BY DEF Inv, TypeOK, Rest, WorkerRecords, Keeps
<1>2. NoReleaseYet'
  BY DEF Inv, NoReleaseYet
<1>3. Keeps(config)'
  BY DEF Keeps, DefaultsKept, ResolverKept, IntentionsKept
<1> QED
  BY <1>1, <1>2, <1>3 DEF Inv
-----------------------------------------------------------------------------
\* The entries a service can have, and the variables at their types.
LEMMA Entries ==
    ASSUME Inv, NEW s \in Services
    PROVE  /\ s \in Names /\ "controller" \in Names /\ "upstreams" \in Names
           /\ \A n \in Names : config.defaults[n] \in [owner : Owners, protocol : Protocols]
           /\ config.resolver[s] \in [owner : Owners, subsets : SUBSET {"release", "user"}]
           /\ config.intentions[s] \in [owner : Owners, sources : SUBSET {"controller", "user"}]
           /\ config.router \in [Services -> 0..MaxRoutes]
           /\ raced \in BOOLEAN /\ Keeps(config)
BY DEF Inv, TypeOK, Configs, Names

\* The defaults written are the controller's where users have none with a
\* protocol, and else the user's own, with another protocol.
LEMMA CreateServiceDefaultsKeeps ==
    ASSUME Inv, NEW s \in Services, Busy(s), NEW n \in Names, CreateServiceDefaults(s, n)
    PROVE  Rest /\ Keeps(config')
<1> DEFINE d == config.defaults[n]
           own == [owner |-> "controller", protocol |-> "http"]
<1>1. d \in [owner : Owners, protocol : Protocols]
  BY Entries
<1>2. own \in [owner : Owners, protocol : Protocols]
  BY DEF Owners, Protocols
<1>3. CASE Skip(s)
  BY <1>3, SkipKeeps
<1>4. CASE Reject(s)
  BY <1>4, RejectKeeps
<1>5. CASE /\ d.owner # "none" /\ d.protocol = "tcp"
           /\ Write(s, [config EXCEPT !.defaults[n].protocol = "http"])
  <2> DEFINE e == [d EXCEPT !.protocol = "http"]
  <2>1. e \in [owner : Owners, protocol : Protocols] /\ e.owner = d.owner
        /\ e.protocol = "http"
    BY <1>1 DEF Protocols
  <2>2. Write(s, [config EXCEPT !.defaults[n] = e])
    BY <1>5 DEF Inv, Keeps, Configs
  <2> HIDE DEF e
  <2>3. Keeps([config EXCEPT !.defaults[n] = e])
    BY <2>1, DefaultsKeeps
  <2> QED
    BY <2>2, <2>3, WriteKeeps
<1>6. CASE /\ d.owner = "none" \/ d.protocol = ""
           /\ Write(s, [config EXCEPT !.defaults[n] = own])
  <2>1. Keeps([config EXCEPT !.defaults[n] = own])
    BY <1>2, <1>6, DefaultsKeeps
  <2> QED
    BY <1>6, <2>1, WriteKeeps
<1> QED
  BY <1>3, <1>4, <1>5, <1>6 DEF CreateServiceDefaults

\* The calls that create entries.
LEMMA CreatingKeepsInv ==
    ASSUME Inv, NEW s \in Services, Creating(s)
    PROVE  Inv'
<1>0. s \in Names /\ "controller" \in Names /\ "upstreams" \in Names /\ raced \in BOOLEAN
  BY Entries
<1>1. Busy(s)
  <2>1. worker[s] # None
    BY DEF Creating, CreateDefaults, CreateServiceResolver, ReadRoutes,
           CreateUpstreamRouter, CreateServiceIntention, CreateServiceSplitter, At
  <2> QED
    BY <2>1, AtIsBusy
<1>2. CASE CreateDefaults(s)
  <2>1. Rest /\ Keeps(config')
    BY <1>0, <1>1, <1>2, CreateServiceDefaultsKeeps DEF CreateDefaults
  <2> QED
    BY <1>0, <1>2, <2>1, KeptIsInv DEF CreateDefaults, history
<1>3. CASE CreateServiceResolver(s)
  <2> DEFINE r == config.resolver[s]
             d == [owner   |-> IF r.owner = "none" THEN "controller" ELSE r.owner,
                   subsets |-> r.subsets \cup {"release"}]
  <2>1. r \in [owner : Owners, subsets : SUBSET {"release", "user"}]
    BY Entries
  <2>2. d \in [owner : Owners, subsets : SUBSET {"release", "user"}]
        /\ (r.owner = "user" => d.owner = "user" /\ r.subsets \ {"release"} \subseteq d.subsets)
    BY <2>1 DEF Owners
  <2>3. WithSubsets(s) = [config EXCEPT !.resolver[s] = d]
    BY DEF WithSubsets, Inv, Keeps, Configs
  <2>4. Keeps(WithSubsets(s))
    <3> HIDE DEF d
    <3> QED
      BY <2>2, <2>3, ResolverKeeps
  <2>5. ASSUME Write(s, WithSubsets(s))
        PROVE  Rest /\ Keeps(config')
    BY <1>1, <2>4, <2>5, WriteKeeps
  <2> DEFINE panics == /\ config' = config
                       /\ worker' = [t \in Services |-> None]
                       /\ outcome' = [t \in Services |->
                                         IF worker[t] # None THEN "panicked" ELSE outcome[t]]
  <2>6. ASSUME panics
        PROVE  Rest /\ Keeps(config')
    <3>1. worker' \in [Services -> WorkerRecords \cup {None}]
      BY <2>6
    <3>2. outcome' \in [Services -> {"new", "setup", "failed", "panicked", "destroyed"}]
      BY <2>6 DEF Inv, TypeOK
    <3> QED
      BY <2>6, <3>1, <3>2 DEF Rest, Inv
  <2>7. Write(s, WithSubsets(s)) \/ panics
    BY <1>3, Zenon DEF CreateServiceResolver
  <2>8. Rest /\ Keeps(config')
    <3> HIDE DEF panics
    <3> QED
      BY <2>5, <2>6, <2>7
  <2> QED
    BY <1>0, <1>3, <2>8, KeptIsInv DEF CreateServiceResolver, history
<1>4. CASE ReadRoutes(s)
  <2>1. [pc |-> "addRoute", read |-> config.router] \in WorkerRecords
    BY Entries DEF WorkerRecords, Calls
  <2>2. Rest
    BY <1>4, <2>1 DEF ReadRoutes, Rest, Inv, TypeOK, WorkerRecords
  <2> QED
    BY <1>0, <1>4, <2>2, KeptIsInv DEF ReadRoutes, history, Inv
<1>5. CASE CreateUpstreamRouter(s)
  <2> DEFINE read == worker[s].read
             r == [read EXCEPT ![s] = IF @ < MaxRoutes THEN @ + 1 ELSE @]
  <2>1. r \in [Services -> 0..MaxRoutes]
    BY <1>1, UserAssumption DEF Busy, WorkerRecords
  <2>2. Keeps(WithRoute(s))
    BY <2>1, RouterKeeps DEF WithRoute
  <2>3. Rest /\ Keeps(config')
    BY <1>1, <1>5, <2>2, WriteKeeps DEF CreateUpstreamRouter
  <2> QED
    BY <1>0, <1>5, <2>3, KeptIsInv DEF CreateUpstreamRouter, WritesCopy
<1>6. CASE CreateServiceIntention(s)
  <2> DEFINE r == config.intentions[s]
             d == [owner   |-> IF r.owner = "none" THEN "controller" ELSE r.owner,
                   sources |-> r.sources \cup {"controller"}]
             new == [config EXCEPT !.intentions[s] =
                        [owner   |-> IF @.owner = "none" THEN "controller" ELSE @.owner,
                         sources |-> @.sources \cup {"controller"}]]
  <2>1. r \in [owner : Owners, sources : SUBSET {"controller", "user"}]
    BY Entries
  <2>2. d \in [owner : Owners, sources : SUBSET {"controller", "user"}]
        /\ (r.owner = "user" => d.owner = "user" /\ r.sources \ {"controller"} \subseteq d.sources)
    BY <2>1 DEF Owners
  <2>3. new = [config EXCEPT !.intentions[s] = d]
    BY DEF Inv, Keeps, Configs
  <2>4. Keeps(new)
    <3> HIDE DEF d, new
    <3> QED
      BY <2>2, <2>3, IntentionsKeeps
  <2>5. Skip(s) \/ Write(s, new)
    BY <1>6 DEF CreateServiceIntention
  <2> HIDE DEF new
  <2>6. Rest /\ Keeps(config')
    BY <1>1, <2>4, <2>5, SkipKeeps, WriteKeeps
  <2> QED
    BY <1>0, <1>6, <2>6, KeptIsInv DEF CreateServiceIntention, history
<1>7. CASE CreateServiceSplitter(s)
  <2>1. Keeps([config EXCEPT !.splitter[s] = TRUE])
    BY SplitterKeeps
  <2>2. Rest /\ Keeps(config')
    BY <1>1, <1>7, <2>1, WriteKeeps DEF CreateServiceSplitter
  <2> QED
    BY <1>0, <1>7, <2>2, KeptIsInv DEF CreateServiceSplitter, history
<1> QED
  BY <1>2, <1>3, <1>4, <1>5, <1>6, <1>7 DEF Creating

\* The calls that delete entries.
LEMMA DeletingKeepsInv ==
    ASSUME Inv, NEW s \in Services, Deleting(s)
    PROVE  Inv'
<1>0. s \in Names /\ raced \in BOOLEAN
  BY Entries
<1>1. Busy(s)
  <2>1. worker[s] # None
    BY DEF Deleting, DeleteServiceSplitter, FindRoutes, DeleteUpstreamRouter,
           DeleteServiceResolver, DeleteServiceIntention, DeleteServiceDefaults, At
  <2> QED
    BY <2>1, AtIsBusy
<1>2. CASE DeleteServiceSplitter(s)
  <2>1. Keeps([config EXCEPT !.splitter[s] = FALSE])
    BY SplitterKeeps
  <2>2. Rest /\ Keeps(config')
    BY <1>1, <1>2, <2>1, WriteKeeps DEF DeleteServiceSplitter
  <2> QED
    BY <1>0, <1>2, <2>2, KeptIsInv DEF DeleteServiceSplitter, history
<1>3. CASE FindRoutes(s)
  <2>1. [pc |-> "removeRoute", read |-> config.router] \in WorkerRecords
    BY Entries DEF WorkerRecords, Calls
  <2>2. CASE Fail(s)
    BY <1>0, <1>3, <2>2, FailTyped, KeptIsInv DEF FindRoutes, history, Inv
  <2>3. CASE /\ worker' = [worker EXCEPT ![s] = [pc |-> "removeRoute", read |-> config.router]]
             /\ outcome' = outcome
    <3>1. Rest
      BY <2>1, <2>3 DEF Rest, Inv, TypeOK, WorkerRecords
    <3> QED
      BY <1>0, <1>3, <3>1, KeptIsInv DEF FindRoutes, history, Inv
  <2> QED
    BY <1>3, <2>2, <2>3 DEF FindRoutes
<1>4. CASE DeleteUpstreamRouter(s)
  <2> DEFINE r == [worker[s].read EXCEPT ![s] = 0]
  <2>1. r \in [Services -> 0..MaxRoutes]
    BY <1>1, UserAssumption DEF Busy, WorkerRecords
  <2>2. Keeps([config EXCEPT !.router = r])
    BY <2>1, RouterKeeps
  <2>3. Rest /\ Keeps(config')
    BY <1>1, <1>4, <2>2, WriteKeeps DEF DeleteUpstreamRouter
  <2> QED
    BY <1>0, <1>4, <2>3, KeptIsInv DEF DeleteUpstreamRouter, WritesCopy
<1>5. CASE DeleteServiceResolver(s)
  <2> DEFINE r == config.resolver[s]
             d == IF r.owner = "controller" THEN NoResolver
                  ELSE [owner |-> r.owner, subsets |-> r.subsets \ {"release"}]
  <2>1. r \in [owner : Owners, subsets : SUBSET {"release", "user"}]
    BY Entries
  <2>2. d \in [owner : Owners, subsets : SUBSET {"release", "user"}]
        /\ (r.owner = "user" => d.owner = "user" /\ r.subsets \ {"release"} \subseteq d.subsets)
    BY <2>1 DEF Owners, NoResolver
  <2>3. WithoutSubsets(s) = [config EXCEPT !.resolver[s] = d]
    BY DEF WithoutSubsets, Inv, Keeps, Configs
  <2>4. Keeps(WithoutSubsets(s))
    <3> HIDE DEF d
    <3> QED
      BY <2>2, <2>3, ResolverKeeps
  <2>5. Rest /\ Keeps(config')
    BY <1>1, <1>5, <2>4, RejectKeeps, WriteKeeps DEF DeleteServiceResolver
  <2> QED
    BY <1>0, <1>5, <2>5, KeptIsInv DEF DeleteServiceResolver, history
<1>6. CASE DeleteServiceIntention(s)
  <2> DEFINE r == config.intentions[s]
             d == [r EXCEPT !.sources = @ \ {"controller"}]
             new == [config EXCEPT !.intentions[s].sources = @ \ {"controller"}]
             none == [config EXCEPT !.intentions[s] = NoIntentions]
  <2>1. r \in [owner : Owners, sources : SUBSET {"controller", "user"}]
    BY Entries
  <2>2. d \in [owner : Owners, sources : SUBSET {"controller", "user"}]
        /\ d.owner = r.owner /\ d.sources = r.sources \ {"controller"}
        /\ NoIntentions \in [owner : Owners, sources : SUBSET {"controller", "user"}]
    BY <2>1 DEF Owners, NoIntentions
  <2>3. new = [config EXCEPT !.intentions[s] = d]
    BY DEF Inv, Keeps, Configs
  <2>4. Keeps(new)
    <3> HIDE DEF d, new
    <3> QED
      BY <2>2, <2>3, IntentionsKeeps
  <2>5. r.owner = "controller" => Keeps(none)
    BY <2>2, IntentionsKeeps
  <2>6. Reject(s) \/ Write(s, new) \/ (r.owner = "controller" /\ Write(s, none))
    BY <1>6 DEF DeleteServiceIntention
  <2> HIDE DEF new, none
  <2>7. Rest /\ Keeps(config')
    BY <1>1, <2>4, <2>5, <2>6, RejectKeeps, WriteKeeps
  <2> QED
    BY <1>0, <1>6, <2>7, KeptIsInv DEF DeleteServiceIntention, history
<1>7. CASE DeleteServiceDefaults(s)
  <2> DEFINE e == config.defaults[s]
             none == [config EXCEPT !.defaults[s] = NoDefaults]
  <2>1. NoDefaults \in [owner : Owners, protocol : Protocols]
    BY DEF NoDefaults, Owners, Protocols
  <2>2. e.owner = "controller" => WithoutDefaults(s) = none
    BY <1>0 DEF WithoutDefaults, Inv, Keeps, Configs
  <2>3. ASSUME e.owner = "controller"
        PROVE  Keeps(none)
    <3>1. config.defaults[s].owner # "user"
      BY <2>3
    <3> QED
      BY <1>0, <2>1, <3>1, DefaultsKeeps
  <2>4. Reject(s) \/ Skip(s) \/ (e.owner = "controller" /\ Write(s, WithoutDefaults(s)))
    BY <1>7 DEF DeleteServiceDefaults
  <2> HIDE DEF none
  <2>5. Rest /\ Keeps(config')
    BY <1>1, <2>2, <2>3, <2>4, RejectKeeps, SkipKeeps, WriteKeeps
  <2> QED
    BY <1>0, <1>7, <2>5, KeptIsInv DEF DeleteServiceDefaults, history
<1> QED
  BY <1>2, <1>3, <1>4, <1>5, <1>6, <1>7 DEF Deleting

\* The entries found at the start are those users had.
LEMMA InitInv ==
    ASSUME Init
    PROVE  Inv
<1>1. PICK user \in [Services -> UserEntries] :
         config = [ defaults   |-> [n \in Names |-> IF n \in Services THEN user[n].defaults
                                                                      ELSE NoDefaults],
                    resolver   |-> [s \in Services |-> user[s].resolver],
                    splitter   |-> [s \in Services |-> FALSE],
                    intentions |-> [s \in Services |-> user[s].intentions],
                    router     |-> NoRoutes ]
  BY DEF Init
<1>2. ASSUME NEW s \in Services
      PROVE  /\ user[s].defaults \in [owner : Owners, protocol : Protocols]
             /\ user[s].resolver \in [owner : Owners, subsets : SUBSET {"release", "user"}]
             /\ user[s].intentions \in [owner : Owners, sources : SUBSET {"controller", "user"}]
             /\ "release" \notin user[s].resolver.subsets
  <2> DEFINE u == user[s]
  <2>1. /\ u.defaults \in {NoDefaults} \cup [owner : {"user"}, protocol : Protocols]
        /\ u.resolver \in {NoResolver} \cup [owner : {"user"}, subsets : SUBSET {"user"}]
        /\ u.intentions \in {NoIntentions} \cup
                 [owner : {"user"}, sources : {{"user"}, {"controller", "user"}}]
    BY UserAssumption
  <2> HIDE DEF u
  <2>2. u.defaults \in [owner : Owners, protocol : Protocols]
    <3>1. NoDefaults \in [owner : Owners, protocol : Protocols]
      BY DEF NoDefaults, Owners, Protocols
    <3>2. "user" \in Owners
      BY DEF Owners
    <3> QED
      BY <2>1, <3>1, <3>2
  <2>3. u.resolver \in [owner : Owners, subsets : SUBSET {"release", "user"}]
        /\ "release" \notin u.resolver.subsets
    BY <2>1 DEF NoResolver, Owners
  <2>4. u.intentions \in [owner : Owners, sources : SUBSET {"controller", "user"}]
    BY <2>1 DEF NoIntentions, Owners
  <2> QED
    BY <2>2, <2>3, <2>4 DEF u
<1>3. NoDefaults \in [owner : Owners, protocol : Protocols]
  BY DEF NoDefaults, Owners, Protocols
<1>4. config \in Configs
  BY <1>1, <1>2, <1>3, NoRoutesTyped DEF Configs
<1>5. original = config
  BY DEF Init
<1>6. NoReleaseYet
  BY <1>1, <1>2, <1>5 DEF NoReleaseYet
<1>7. Keeps(config)
  BY <1>4, <1>5 DEF Keeps, DefaultsKept, ResolverKept, IntentionsKept
<1>8. TypeOK
  BY <1>4, <1>5 DEF Init, TypeOK
<1> QED
  BY <1>6, <1>7, <1>8 DEF Inv

\* Every step keeps the invariant.
LEMMA NextKeepsInv ==
    ASSUME Inv, [Next]_vars
    PROVE  Inv'
<1>1. CASE UNCHANGED vars
  <2>1. Rest /\ Keeps(config') /\ raced' \in BOOLEAN
    BY <1>1 DEF vars, Rest, Inv, TypeOK, WorkerRecords
  <2> QED
    BY <1>1, <2>1, KeptIsInv DEF vars
<1>2. ASSUME NEW s \in Services, NEW call \in Calls, Start(s, call)
      PROVE  Inv'
  <2>1. [pc |-> call, read |-> NoRoutes] \in WorkerRecords
    BY NoRoutesTyped DEF WorkerRecords
  <2>2. Rest
    BY <1>2, <2>1 DEF Start, Rest, Inv, TypeOK, WorkerRecords
  <2>3. Keeps(config') /\ raced' \in BOOLEAN /\ UNCHANGED original
    BY <1>2 DEF Start, history, Inv, TypeOK
  <2> QED
    BY <2>2, <2>3, KeptIsInv
<1>3. ASSUME NEW s \in Services, CallFails(s)
      PROVE  Inv'
  <2>1. Rest /\ Keeps(config')
    BY <1>3, RejectKeeps DEF CallFails
  <2>2. raced' \in BOOLEAN /\ UNCHANGED original
    BY <1>3 DEF CallFails, history, Inv, TypeOK
  <2> QED
    BY <2>1, <2>2, KeptIsInv
<1>4. ASSUME NEW s \in Services, Setup(s) \/ Scale(s) \/ Destroy(s)
      PROVE  Inv'
  <2>1. {"defaults", "createSplitter", "deleteSplitter"} \subseteq Calls
    BY DEF Calls
  <2> QED
    BY <1>2, <1>4, <2>1 DEF Setup, Scale, Destroy
<1> QED
  BY <1>1, <1>3, <1>4, CreatingKeepsInv, DeletingKeepsInv DEF Next

\* The invariant holds in every reachable state.
THEOREM ConsulInvariance == Spec => []Inv
<1>1. Init => Inv
  BY InitInv
<1>2. Inv /\ [Next]_vars => Inv'
  BY NextKeepsInv
<1> QED
  BY <1>1, <1>2, PTL DEF Spec

\* Whatever Setup, Scale and Destroy do, fail at, or do to one another, the
\* entries a user had made stay the user's with all that they had in them.
THEOREM UsersKeepEntries == Spec => []UserConfigKept
<1>1. Inv => UserConfigKept
  BY DEF Inv, Keeps, DefaultsKept, ResolverKept, IntentionsKept, UserConfigKept
<1> QED
  BY <1>1, ConsulInvariance, PTL

\* Entries, calls and outcomes keep their types: every call of Setup and Destroy
\* is followed by another or by an outcome, whatever the entries are.
THEOREM ConsulTypeCorrect == Spec => []TypeOK
<1>1. Inv => TypeOK
  BY DEF Inv
<1> QED
  BY <1>1, ConsulInvariance, PTL
-----------------------------------------------------------------------------
(* The order of the calls: what each has established when the next one is  *)
(* made (Established), so that Consul never has to refuse a write, a       *)
(* service that was set up has its route, and Destroy leaves nothing.      *)

\* The service's releaser is at one of the calls.
AtAny(s, calls) == worker[s] # None /\ worker[s].pc \in calls

\* What the calls of Setup have established when the next one is made.
SetUp(s) ==
    /\ AtAny(s, {"controllerDefaults", "upstreamDefaults", "createResolver",
                 "readRoutes", "addRoute", "createIntention"})
       => config.defaults[s].protocol = "http"
    /\ AtAny(s, {"createResolver", "readRoutes", "addRoute", "createIntention"})
       => config.defaults["upstreams"].protocol = "http"
    /\ AtAny(s, {"readRoutes", "addRoute", "createIntention"})
       => "release" \in config.resolver[s].subsets

NoResolverLeft(s) ==
    "release" \notin config.resolver[s].subsets /\ config.resolver[s].owner # "controller"

NoIntentionLeft(s) ==
    /\ "controller" \notin config.intentions[s].sources
    /\ config.intentions[s].owner # "controller"

\* What the calls of Destroy have removed when the next one is made.
TornDown(s) ==
    /\ AtAny(s, {"findRoutes", "removeRoute", "deleteResolver"}) => ~config.splitter[s]
    /\ AtAny(s, {"deleteIntention", "deleteDefaults"}) => NoResolverLeft(s)
    /\ AtAny(s, {"deleteDefaults"}) => NoIntentionLeft(s)
    /\ AtAny(s, {"createSplitter"}) => outcome[s] # "destroyed"
    /\ worker[s] = None /\ outcome[s] = "destroyed" =>
          NoResolverLeft(s) /\ NoIntentionLeft(s) /\ config.defaults[s].owner # "controller"

\* Where the service's routes are, while no old copy of the router is written.
SureRoutes(s) ==
    ~raced =>
        /\ AtAny(s, {"createIntention"}) => config.router[s] > 0
        /\ outcome[s] = "setup" /\ (worker[s] = None \/ AtAny(s, {"createSplitter"}))
           => config.router[s] > 0
        /\ AtAny(s, {"deleteResolver"}) => config.router[s] = 0

Established(s) == SetUp(s) /\ TornDown(s) /\ SureRoutes(s)

\* The inductive invariant of the order of the calls.
Safe == Consistent(config) /\ \A s \in Services : Established(s)
-----------------------------------------------------------------------------
\* What a call for t leaves alone: the entries, the calls and, unless it writes
\* an old copy of the router, the routes of the other services.
OthersWait(t) ==
    \A s \in Services \ {t} : worker'[s] = worker[s] /\ outcome'[s] = outcome[s]

OthersEntries(t) ==
    /\ \A s \in Services \ {t} :
          /\ config'.defaults[s] = config.defaults[s]
          /\ config'.resolver[s] = config.resolver[s]
          /\ config'.splitter[s] = config.splitter[s]
          /\ config'.intentions[s] = config.intentions[s]
    /\ config.defaults["upstreams"].protocol = "http"
       => config'.defaults["upstreams"].protocol = "http"

OthersRoutes(t) ==
    \A s \in Services \ {t} : ~raced' => ~raced /\ config'.router[s] = config.router[s]

\* What is established for the other services stays so.
LEMMA OthersKeepEstablished ==
    ASSUME Inv, Safe, NEW t \in Services, OthersWait(t), OthersEntries(t), OthersRoutes(t),
           NEW s \in Services \ {t}
    PROVE  Established(s)'
<1>1. Established(s)
  BY DEF Safe
<1>2. /\ worker'[s] = worker[s] /\ outcome'[s] = outcome[s]
      /\ \A calls : AtAny(s, calls)' <=> AtAny(s, calls)
  BY DEF OthersWait, AtAny
<1>3. /\ config'.defaults[s] = config.defaults[s]
      /\ config'.resolver[s] = config.resolver[s]
      /\ config'.splitter[s] = config.splitter[s]
      /\ config'.intentions[s] = config.intentions[s]
      /\ config.defaults["upstreams"].protocol = "http"
         => config'.defaults["upstreams"].protocol = "http"
  BY DEF OthersEntries
<1>4. ~raced' => ~raced /\ config'.router[s] = config.router[s]
  BY DEF OthersRoutes
<1>5. SetUp(s)'
  BY <1>1, <1>2, <1>3 DEF Established, SetUp
<1>6. TornDown(s)'
  BY <1>1, <1>2, <1>3 DEF Established, TornDown, NoResolverLeft, NoIntentionLeft
<1>7. SureRoutes(s)'
  BY <1>1, <1>2, <1>4 DEF Established, SureRoutes
<1> QED
  BY <1>5, <1>6, <1>7 DEF Established

\* So a call has only to establish what it is for.
LEMMA CallKeepsSafe ==
    ASSUME Inv, Safe, NEW t \in Services, Consistent(config'), Established(t)',
           OthersWait(t), OthersEntries(t), OthersRoutes(t)
    PROVE  Safe'
<1>1. ASSUME NEW s \in Services
      PROVE  Established(s)'
  <2>1. CASE s = t
    BY <2>1
  <2>2. CASE s # t
    BY <2>2, OthersKeepEstablished
  <2> QED
    BY <2>1, <2>2
<1> QED
  BY <1>1 DEF Safe, Consistent

\* An operation that fails establishes nothing, and has nothing to.
LEMMA FailEstablishes ==
    ASSUME Inv, NEW t \in Services, Fail(t)
    PROVE  Established(t)' /\ OthersWait(t)
<1>1. worker'[t] = None /\ outcome'[t] = "failed"
  BY DEF Fail, Inv, TypeOK
<1>2. OthersWait(t)
  BY DEF Fail, Inv, TypeOK, OthersWait
<1> QED
  BY <1>1, <1>2 DEF Established, SetUp, TornDown, SureRoutes, AtAny

\* Where a call that succeeds leads to.
LEMMA AdvanceLeads ==
    ASSUME Inv, NEW t \in Services, Busy(t), Advance(t)
    PROVE  /\ OthersWait(t)
           /\ worker[t].pc \in DOMAIN After
              => /\ worker'[t] # None /\ worker'[t].pc = After[worker[t].pc]
                 /\ outcome'[t] = outcome[t]
           /\ worker[t].pc = "createIntention" => worker'[t] = None /\ outcome'[t] = "setup"
           /\ worker[t].pc = "createSplitter" => worker'[t] = None /\ outcome'[t] = outcome[t]
           /\ worker[t].pc = "deleteDefaults"
              => worker'[t] = None /\ outcome'[t] = "destroyed"
<1>1. worker[t].pc \notin DOMAIN After
      => worker' = [worker EXCEPT ![t] = None]
  BY DEF Advance
<1>2. worker[t].pc \in DOMAIN After
      => /\ worker' = [worker EXCEPT ![t] = [pc |-> After[worker[t].pc], read |-> NoRoutes]]
         /\ outcome' = outcome
  BY DEF Advance
<1>3. worker[t].pc \notin DOMAIN After
      => /\ \E o : outcome' = [outcome EXCEPT ![t] = o]
         /\ worker[t].pc = "createIntention" => outcome' = [outcome EXCEPT ![t] = "setup"]
         /\ worker[t].pc = "deleteDefaults" => outcome' = [outcome EXCEPT ![t] = "destroyed"]
         /\ worker[t].pc = "createSplitter" => outcome' = [outcome EXCEPT ![t] = @]
  BY DEF Advance
<1>4. worker \in [Services -> WorkerRecords \cup {None}] /\ outcome \in [Services ->
         {"new", "setup", "failed", "panicked", "destroyed"}]
  BY DEF Inv, TypeOK, WorkerRecords
<1>5. worker[t].pc \in DOMAIN After
      => [pc |-> After[worker[t].pc], read |-> NoRoutes] # None
  BY AfterIsCall, NoRoutesTyped, NoneAssumption
<1>6. \A pc \in {"createIntention", "createSplitter", "deleteDefaults"} : pc \notin DOMAIN After
  BY DEF After
<1>7. OthersWait(t)
  BY <1>1, <1>2, <1>3, <1>4 DEF OthersWait
<1> QED
  BY <1>1, <1>2, <1>3, <1>4, <1>5, <1>6, <1>7

\* A write does what it is for, or the call fails; what Consul holds after it
\* Consul has accepted.
LEMMA WriteLeads ==
    ASSUME Safe, NEW t \in Services, NEW new, Write(t, new)
    PROVE  /\ Consistent(config')
           /\ config' = new \/ config' = config
           /\ Fail(t) \/ (config' = new /\ Advance(t))
BY DEF Safe, Write, Reject, Consistent
-----------------------------------------------------------------------------
\* A releaser that is at a call has established what is needed there.
LEMMA AtCall ==
    ASSUME Inv, Safe, NEW t \in Services, NEW call, At(t, call)
    PROVE  /\ Busy(t) /\ worker[t].pc = call /\ Established(t) /\ Consistent(config)
           /\ \A calls : AtAny(t, calls) <=> call \in calls
BY AtIsBusy DEF At, AtAny, Safe

\* Entries of the same names: what a write to one field leaves alone.
LEMMA Unwritten ==
    ASSUME Inv, NEW v
    PROVE  /\ LET c == [config EXCEPT !.defaults = v]
              IN  /\ c.defaults = v /\ c.resolver = config.resolver
                  /\ c.splitter = config.splitter /\ c.intentions = config.intentions
                  /\ c.router = config.router
           /\ LET c == [config EXCEPT !.resolver = v]
              IN  /\ c.resolver = v /\ c.defaults = config.defaults
                  /\ c.splitter = config.splitter /\ c.intentions = config.intentions
                  /\ c.router = config.router
           /\ LET c == [config EXCEPT !.splitter = v]
              IN  /\ c.splitter = v /\ c.defaults = config.defaults
                  /\ c.resolver = config.resolver /\ c.intentions = config.intentions
                  /\ c.router = config.router
           /\ LET c == [config EXCEPT !.intentions = v]
              IN  /\ c.intentions = v /\ c.defaults = config.defaults
                  /\ c.resolver = config.resolver /\ c.splitter = config.splitter
                  /\ c.router = config.router
           /\ LET c == [config EXCEPT !.router = v]
              IN  /\ c.router = v /\ c.defaults = config.defaults
                  /\ c.resolver = config.resolver /\ c.splitter = config.splitter
                  /\ c.intentions = config.intentions
BY DEF Inv, TypeOK, Configs

\* Service defaults are HTTP once their call has succeeded.
LEMMA CreateServiceDefaultsLeads ==
    ASSUME Inv, Safe, NEW t \in Services, Busy(t), NEW n \in Names,
           CreateServiceDefaults(t, n)
    PROVE  /\ Consistent(config')
           /\ \A m \in Names \ {n} : config'.defaults[m] = config.defaults[m]
           /\ config.defaults[n].protocol = "http" => config'.defaults[n].protocol = "http"
           /\ config'.resolver = config.resolver /\ config'.splitter = config.splitter
           /\ config'.intentions = config.intentions /\ config'.router = config.router
           /\ Fail(t) \/ (config'.defaults[n].protocol = "http" /\ Advance(t))
<1> DEFINE d == config.defaults[n]
           changed == [config EXCEPT !.defaults = [config.defaults EXCEPT ![n].protocol = "http"]]
           own == [owner |-> "controller", protocol |-> "http"]
           created == [config EXCEPT !.defaults = [config.defaults EXCEPT ![n] = own]]
<1>1. config.defaults \in [Names -> [owner : Owners, protocol : Protocols]]
  BY DEF Inv, TypeOK, Configs
<1>2. /\ changed = [config EXCEPT !.defaults[n].protocol = "http"]
      /\ created = [config EXCEPT !.defaults[n] = own]
  BY DEF Inv, TypeOK, Configs
<1>3. \/ Reject(t)
      \/ d.protocol = "http" /\ Skip(t)
      \/ Write(t, changed)
      \/ Write(t, created)
  BY <1>2 DEF CreateServiceDefaults
<1> DEFINE Leads(c) == /\ \A m \in Names \ {n} : c.defaults[m] = config.defaults[m]
                       /\ c.defaults[n].protocol = "http"
                       /\ c.resolver = config.resolver /\ c.splitter = config.splitter
                       /\ c.intentions = config.intentions /\ c.router = config.router
<1>4. Leads(changed)
  BY <1>1, Unwritten
<1>5. Leads(created)
  BY <1>1, Unwritten
<1>6. Consistent(config)
  BY DEF Safe
<1> HIDE DEF changed, created
<1>7. CASE Reject(t)
  BY <1>6, <1>7 DEF Reject, Consistent
<1>8. CASE d.protocol = "http" /\ Skip(t)
  BY <1>6, <1>8 DEF Skip, Consistent
<1>9. CASE Write(t, changed)
  BY <1>4, <1>9, WriteLeads
<1>10. CASE Write(t, created)
  BY <1>5, <1>10, WriteLeads
<1> QED
  BY <1>3, <1>7, <1>8, <1>9, <1>10

\* The service's own defaults come first, those of the router before the router.
LEMMA CreateDefaultsSafe ==
    ASSUME Inv, Safe, NEW t \in Services, CreateDefaults(t)
    PROVE  Safe'
<1>0. /\ t \in Names /\ "controller" \in Names /\ "upstreams" \in Names
      /\ Services \subseteq Names
      /\ "controller" \notin Services /\ "upstreams" \notin Services
  BY UserAssumption DEF Names
<1>1. PICK call \in {"defaults", "controllerDefaults", "upstreamDefaults"} :
        At(t, call) /\ CreateServiceDefaults(t, CASE call = "defaults" -> t
                                                  [] call = "controllerDefaults" -> "controller"
                                                  [] OTHER -> "upstreams")
  BY DEF CreateDefaults
<1> DEFINE n == CASE call = "defaults" -> t
                  [] call = "controllerDefaults" -> "controller"
                  [] OTHER -> "upstreams"
<1>2. /\ Busy(t) /\ worker[t].pc = call /\ Established(t)
      /\ \A calls : AtAny(t, calls) <=> call \in calls
  BY <1>1, AtCall
<1>3. n \in Names /\ CreateServiceDefaults(t, n)
  BY <1>0, <1>1
<1>4. n = t \/ n \notin Services
  BY <1>0
<1>n. /\ call = "defaults" => n = t
      /\ call = "controllerDefaults" => n = "controller"
      /\ call = "upstreamDefaults" => n = "upstreams"
  OBVIOUS
<1> HIDE DEF n
<1>5. /\ Consistent(config')
      /\ \A m \in Names \ {n} : config'.defaults[m] = config.defaults[m]
      /\ config.defaults[n].protocol = "http" => config'.defaults[n].protocol = "http"
      /\ config'.resolver = config.resolver /\ config'.splitter = config.splitter
      /\ config'.intentions = config.intentions /\ config'.router = config.router
      /\ Fail(t) \/ (config'.defaults[n].protocol = "http" /\ Advance(t))
  BY <1>2, <1>3, CreateServiceDefaultsLeads
<1>6. raced' = raced
  BY DEF CreateDefaults, history
<1>7. OthersEntries(t) /\ OthersRoutes(t)
  BY <1>0, <1>4, <1>5, <1>6 DEF OthersEntries, OthersRoutes
<1>8. CASE Fail(t)
  BY <1>5, <1>7, <1>8, FailEstablishes, CallKeepsSafe
<1>9. CASE config'.defaults[n].protocol = "http" /\ Advance(t)
  <2>1. /\ OthersWait(t) /\ worker'[t] # None /\ worker'[t].pc = After[call]
        /\ outcome'[t] = outcome[t]
    BY <1>2, <1>9, AdvanceLeads DEF After
  <2>2. \A calls : AtAny(t, calls)' <=> After[call] \in calls
    BY <2>1 DEF AtAny
  <2>3. SetUp(t)'
    <3>1. CASE call = "defaults"
      BY <1>n, <1>9, <2>2, <3>1 DEF SetUp, After
    <3>2. CASE call = "controllerDefaults"
      BY <1>0, <1>n, <1>2, <1>5, <2>2, <3>2 DEF SetUp, Established, After
    <3>3. CASE call = "upstreamDefaults"
      BY <1>0, <1>n, <1>2, <1>5, <1>9, <2>2, <3>3 DEF SetUp, Established, After
    <3> QED
      BY <3>1, <3>2, <3>3
  <2>4. TornDown(t)' /\ SureRoutes(t)'
    BY <2>1, <2>2 DEF TornDown, SureRoutes, After
  <2> QED
    BY <1>5, <1>7, <2>1, <2>3, <2>4, CallKeepsSafe DEF Established
<1> QED
  BY <1>5, <1>8, <1>9

\* What a write of one service's entry leaves of the others'.
LEMMA OthersKeepEntries ==
    ASSUME Inv, Safe, NEW t \in Services,
           \/ config' = config
           \/ \E v : config' = [config EXCEPT !.resolver = [config.resolver EXCEPT ![t] = v]]
           \/ \E v : config' = [config EXCEPT !.splitter = [config.splitter EXCEPT ![t] = v]]
           \/ \E v : config' = [config EXCEPT !.intentions = [config.intentions EXCEPT ![t] = v]]
           \/ \E v : config' = [config EXCEPT !.defaults = [config.defaults EXCEPT ![t] = v]],
           raced' = raced
    PROVE  OthersEntries(t) /\ OthersRoutes(t)
<1>1. /\ config.defaults \in [Names -> [owner : Owners, protocol : Protocols]]
      /\ config.resolver \in [Services -> [owner : Owners, subsets : SUBSET {"release", "user"}]]
      /\ config.splitter \in [Services -> BOOLEAN]
      /\ config.intentions
           \in [Services -> [owner : Owners, sources : SUBSET {"controller", "user"}]]
      /\ Services \subseteq Names /\ "upstreams" \in Names /\ "upstreams" # t
  BY UserAssumption DEF Inv, TypeOK, Configs, Names
<1>2. CASE config' = config
  BY <1>2 DEF OthersEntries, OthersRoutes
<1>3. CASE \E v : config' = [config EXCEPT !.resolver = [config.resolver EXCEPT ![t] = v]]
  BY <1>1, <1>3, Unwritten DEF OthersEntries, OthersRoutes
<1>4. CASE \E v : config' = [config EXCEPT !.splitter = [config.splitter EXCEPT ![t] = v]]
  BY <1>1, <1>4, Unwritten DEF OthersEntries, OthersRoutes
<1>5. CASE \E v : config' = [config EXCEPT !.intentions = [config.intentions EXCEPT ![t] = v]]
  BY <1>1, <1>5, Unwritten DEF OthersEntries, OthersRoutes
<1>6. CASE \E v : config' = [config EXCEPT !.defaults = [config.defaults EXCEPT ![t] = v]]
  BY <1>1, <1>6, Unwritten DEF OthersEntries, OthersRoutes
<1> QED
  BY <1>2, <1>3, <1>4, <1>5, <1>6

\* The subset is there when the route to it is written.  A panic ends every
\* operation, and with it what it still had to establish.
LEMMA CreateServiceResolverSafe ==
    ASSUME Inv, Safe, NEW t \in Services, CreateServiceResolver(t)
    PROVE  Safe'
<1> DEFINE r == config.resolver[t]
           d == [owner   |-> IF r.owner = "none" THEN "controller" ELSE r.owner,
                 subsets |-> r.subsets \cup {"release"}]
           new == [config EXCEPT !.resolver = [config.resolver EXCEPT ![t] = d]]
<1>1. /\ Busy(t) /\ worker[t].pc = "createResolver" /\ Established(t) /\ Consistent(config)
      /\ \A calls : AtAny(t, calls) <=> "createResolver" \in calls
  BY AtCall DEF CreateServiceResolver
<1>2. WithSubsets(t) = new
  BY DEF WithSubsets, Inv, TypeOK, Configs
<1>3. config.resolver \in [Services -> [owner : Owners, subsets : SUBSET {"release", "user"}]]
  BY DEF Inv, TypeOK, Configs
<1>4. /\ new.resolver[t] = d /\ new.defaults = config.defaults
  BY <1>3, Unwritten
<1>5. "release" \in d.subsets
  OBVIOUS
<1>6. raced' = raced /\ original' = original
  BY DEF CreateServiceResolver, history
<1>7. CASE Write(t, new)
  <2> HIDE DEF d
  <2>1. /\ Consistent(config') /\ (config' = new \/ config' = config)
        /\ Fail(t) \/ (config' = new /\ Advance(t))
    BY <1>7, WriteLeads
  <2>2. OthersEntries(t) /\ OthersRoutes(t)
    BY <1>6, <2>1, OthersKeepEntries
  <2>3. CASE Fail(t)
    BY <2>1, <2>2, <2>3, FailEstablishes, CallKeepsSafe
  <2>4. CASE config' = new /\ Advance(t)
    <3> HIDE DEF new
    <3>1. /\ OthersWait(t) /\ worker'[t] # None /\ worker'[t].pc = "readRoutes"
      BY <1>1, <2>4, AdvanceLeads DEF After
    <3>2. \A calls : AtAny(t, calls)' <=> "readRoutes" \in calls
      BY <3>1 DEF AtAny
    <3>3. SetUp(t)'
      BY <1>1, <1>4, <1>5, <2>4, <3>2 DEF SetUp, Established
    <3>4. TornDown(t)' /\ SureRoutes(t)'
      BY <3>1, <3>2 DEF TornDown, SureRoutes
    <3> QED
      BY <2>1, <2>2, <3>1, <3>3, <3>4, CallKeepsSafe DEF Established
  <2> QED
    BY <2>1, <2>3, <2>4
<1> DEFINE panics == /\ config' = config
                     /\ worker' = [s \in Services |-> None]
                     /\ outcome' = [s \in Services |->
                                       IF worker[s] # None THEN "panicked" ELSE outcome[s]]
<1>8. CASE panics
  <2>1. Consistent(config')
    BY <1>1, <1>8 DEF Consistent
  <2>2. ASSUME NEW s \in Services
        PROVE  Established(s)'
    <3>1. worker'[s] = None /\ \A calls : ~AtAny(s, calls)'
      BY <1>8 DEF AtAny
    <3>2. outcome'[s] \in {"setup", "destroyed"}
          => worker[s] = None /\ outcome'[s] = outcome[s]
      BY <1>8
    <3>3. Established(s)
      BY DEF Safe
    <3>4. config' = config
      BY <1>8
    <3> HIDE DEF panics
    <3>5. SetUp(s)' /\ TornDown(s)'
      BY <3>1, <3>2, <3>3, <3>4 DEF Established, SetUp, TornDown, NoResolverLeft, NoIntentionLeft
    <3>6. SureRoutes(s)'
      BY <1>6, <3>1, <3>2, <3>3, <3>4 DEF Established, SureRoutes
    <3> QED
      BY <3>5, <3>6 DEF Established
  <2> QED
    BY <2>1, <2>2 DEF Safe, Consistent
<1>9. Write(t, new) \/ panics
  <2>1. Write(t, WithSubsets(t)) \/ panics
    BY Zenon DEF CreateServiceResolver
  <2> HIDE DEF new, panics
  <2> QED
    BY <1>2, <2>1
<1> QED
  BY <1>7, <1>8, <1>9

\* Reading the router, for a route to be added or to be removed.
LEMMA ReadingSafe ==
    ASSUME Inv, Safe, NEW t \in Services, ReadRoutes(t) \/ FindRoutes(t)
    PROVE  Safe'
<1>1. config' = config /\ raced' = raced /\ Consistent(config)
  BY DEF ReadRoutes, FindRoutes, history, Safe
<1>2. OthersEntries(t) /\ OthersRoutes(t) /\ Consistent(config')
  BY <1>1, OthersKeepEntries DEF Consistent
<1>3. CASE Fail(t)
  BY <1>2, <1>3, FailEstablishes, CallKeepsSafe
<1>4. ASSUME NEW call, NEW next \in Calls, At(t, call),
             worker' = [worker EXCEPT ![t] = [pc |-> next, read |-> config.router]],
             outcome' = outcome,
             (call = "readRoutes" /\ next = "addRoute")
               \/ (call = "findRoutes" /\ next = "removeRoute")
      PROVE  Safe'
  <2>1. Established(t) /\ \A calls : AtAny(t, calls) <=> call \in calls
    BY <1>4, AtCall
  <2>2. [pc |-> next, read |-> config.router] # None
    BY NoneAssumption DEF Inv, TypeOK, Configs
  <2>3. worker \in [Services -> WorkerRecords \cup {None}]
    BY DEF Inv, TypeOK, WorkerRecords
  <2>4. worker'[t] # None /\ worker'[t].pc = next /\ OthersWait(t)
    BY <1>4, <2>2, <2>3 DEF OthersWait
  <2>5. \A calls : AtAny(t, calls)' <=> next \in calls
    BY <2>4 DEF AtAny
  <2>6. SetUp(t)' /\ TornDown(t)' /\ SureRoutes(t)'
    BY <1>1, <1>4, <2>1, <2>4, <2>5 DEF Established, SetUp, TornDown, SureRoutes
  <2> QED
    BY <1>2, <2>4, <2>6, CallKeepsSafe DEF Established
<1>5. {"addRoute", "removeRoute"} \subseteq Calls
  BY DEF Calls
<1>6. CASE ReadRoutes(t)
  BY <1>4, <1>5, <1>6 DEF ReadRoutes
<1>7. CASE FindRoutes(t)
  BY <1>3, <1>4, <1>5, <1>7 DEF FindRoutes
<1> QED
  BY <1>6, <1>7

\* Routes written from the copy read last are those of the others, and the
\* service's own.
LEMMA WritesCopyLeads ==
    ASSUME Inv, Safe, NEW t \in Services, Busy(t), NEW k \in 0..MaxRoutes, WritesCopy(t),
           \/ config' = config
           \/ config' = [config EXCEPT !.router = [worker[t].read EXCEPT ![t] = k]]
    PROVE  /\ OthersEntries(t) /\ OthersRoutes(t)
           /\ config'.defaults = config.defaults /\ config'.resolver = config.resolver
           /\ config'.splitter = config.splitter
           /\ config' # config => config'.router[t] = k
<1> DEFINE new == [config EXCEPT !.router = [worker[t].read EXCEPT ![t] = k]]
<1>1. worker[t].read \in [Services -> 0..MaxRoutes]
  BY DEF Busy, WorkerRecords
<1>2. /\ new.defaults = config.defaults /\ new.resolver = config.resolver
      /\ new.splitter = config.splitter /\ new.intentions = config.intentions
      /\ new.router = [worker[t].read EXCEPT ![t] = k]
  BY Unwritten
<1>3. ~raced' => ~raced /\ worker[t].read = config.router
  BY DEF WritesCopy
<1> HIDE DEF new
<1>4. config' = config \/ config' = new
  BY DEF new
<1>5. OthersEntries(t)
  BY <1>2, <1>4 DEF OthersEntries
<1>6. OthersRoutes(t)
  BY <1>1, <1>2, <1>3, <1>4 DEF OthersRoutes
<1> QED
  BY <1>1, <1>2, <1>4, <1>5, <1>6

\* The route is there, if no other write is lost for it.
LEMMA CreateUpstreamRouterSafe ==
    ASSUME Inv, Safe, NEW t \in Services, CreateUpstreamRouter(t)
    PROVE  Safe'
<1> DEFINE k == IF worker[t].read[t] < MaxRoutes THEN worker[t].read[t] + 1
                ELSE worker[t].read[t]
           new == [config EXCEPT !.router = [worker[t].read EXCEPT ![t] = k]]
<1>1. /\ Busy(t) /\ worker[t].pc = "addRoute" /\ Established(t) /\ Consistent(config)
      /\ \A calls : AtAny(t, calls) <=> "addRoute" \in calls
  BY AtCall DEF CreateUpstreamRouter
<1>2. worker[t].read \in [Services -> 0..MaxRoutes]
  BY <1>1 DEF Busy, WorkerRecords
<1>3. k \in 0..MaxRoutes /\ k > 0
  BY <1>2, UserAssumption
<1>4. WithRoute(t) = new
  BY <1>2 DEF WithRoute
<1> HIDE DEF k
<1>5. WritesCopy(t) /\ Write(t, new)
  BY <1>4 DEF CreateUpstreamRouter
<1>6. /\ Consistent(config') /\ (config' = new \/ config' = config)
      /\ Fail(t) \/ (config' = new /\ Advance(t))
  BY <1>5, WriteLeads
<1>7. /\ OthersEntries(t) /\ OthersRoutes(t)
      /\ config'.defaults = config.defaults /\ config'.resolver = config.resolver
  BY <1>1, <1>3, <1>5, <1>6, WritesCopyLeads
<1>8. new.router[t] = k
  BY <1>2, Unwritten
<1> HIDE DEF new
<1>9. CASE Fail(t)
  BY <1>6, <1>7, <1>9, FailEstablishes, CallKeepsSafe
<1>10. CASE config' = new /\ Advance(t)
  <2>1. /\ OthersWait(t) /\ worker'[t] # None /\ worker'[t].pc = "createIntention"
    BY <1>1, <1>10, AdvanceLeads DEF After
  <2>2. \A calls : AtAny(t, calls)' <=> "createIntention" \in calls
    BY <2>1 DEF AtAny
  <2>3. SetUp(t)'
    BY <1>1, <1>7, <2>2 DEF SetUp, Established
  <2>4. TornDown(t)' /\ SureRoutes(t)'
    BY <1>3, <1>8, <1>10, <2>1, <2>2 DEF TornDown, SureRoutes
  <2> QED
    BY <1>6, <1>7, <2>1, <2>3, <2>4, CallKeepsSafe DEF Established
<1> QED
  BY <1>6, <1>9, <1>10

\* The route is gone, if no other write brings it back.
LEMMA DeleteUpstreamRouterSafe ==
    ASSUME Inv, Safe, NEW t \in Services, DeleteUpstreamRouter(t)
    PROVE  Safe'
<1> DEFINE new == [config EXCEPT !.router = [worker[t].read EXCEPT ![t] = 0]]
<1>1. /\ Busy(t) /\ worker[t].pc = "removeRoute" /\ Established(t) /\ Consistent(config)
      /\ \A calls : AtAny(t, calls) <=> "removeRoute" \in calls
  BY AtCall DEF DeleteUpstreamRouter
<1>2. worker[t].read \in [Services -> 0..MaxRoutes]
  BY <1>1 DEF Busy, WorkerRecords
<1>3. 0 \in 0..MaxRoutes
  BY UserAssumption
<1>5. WritesCopy(t) /\ Write(t, new)
  BY DEF DeleteUpstreamRouter
<1>6. /\ Consistent(config') /\ (config' = new \/ config' = config)
      /\ Fail(t) \/ (config' = new /\ Advance(t))
  BY <1>5, WriteLeads
<1>7. OthersEntries(t) /\ OthersRoutes(t) /\ config'.splitter = config.splitter
  BY <1>1, <1>3, <1>5, <1>6, WritesCopyLeads
<1>8. new.router[t] = 0
  BY <1>2, Unwritten
<1> HIDE DEF new
<1>9. CASE Fail(t)
  BY <1>6, <1>7, <1>9, FailEstablishes, CallKeepsSafe
<1>10. CASE config' = new /\ Advance(t)
  <2>1. /\ OthersWait(t) /\ worker'[t] # None /\ worker'[t].pc = "deleteResolver"
    BY <1>1, <1>10, AdvanceLeads DEF After
  <2>2. \A calls : AtAny(t, calls)' <=> "deleteResolver" \in calls
    BY <2>1 DEF AtAny
  <2>3. SetUp(t)' /\ TornDown(t)'
    BY <1>1, <1>7, <2>1, <2>2 DEF SetUp, TornDown, Established
  <2>4. SureRoutes(t)'
    BY <1>8, <1>10, <2>1, <2>2 DEF SureRoutes
  <2> QED
    BY <1>6, <1>7, <2>1, <2>3, <2>4, CallKeepsSafe DEF Established
<1> QED
  BY <1>6, <1>9, <1>10

\* The intention is the last call of Setup.
LEMMA CreateServiceIntentionSafe ==
    ASSUME Inv, Safe, NEW t \in Services, CreateServiceIntention(t)
    PROVE  Safe'
<1> DEFINE r == config.intentions[t]
           d == [owner   |-> IF r.owner = "none" THEN "controller" ELSE r.owner,
                 sources |-> r.sources \cup {"controller"}]
           new == [config EXCEPT !.intentions = [config.intentions EXCEPT ![t] = d]]
<1>1. /\ Busy(t) /\ worker[t].pc = "createIntention" /\ Established(t) /\ Consistent(config)
      /\ \A calls : AtAny(t, calls) <=> "createIntention" \in calls
  BY AtCall DEF CreateServiceIntention
<1>2. Skip(t) \/ Write(t, new)
  <2>1. new = [config EXCEPT !.intentions[t] =
                    [owner   |-> IF @.owner = "none" THEN "controller" ELSE @.owner,
                     sources |-> @.sources \cup {"controller"}]]
    BY DEF Inv, TypeOK, Configs
  <2> HIDE DEF new
  <2> QED
    BY <2>1 DEF CreateServiceIntention
<1>3. raced' = raced
  BY DEF CreateServiceIntention, history
<1>r. new.router = config.router
  BY Unwritten
<1> HIDE DEF d
<1>4. /\ Consistent(config') /\ (config' = new \/ config' = config)
      /\ Fail(t) \/ Advance(t)
  <2>1. CASE Skip(t)
    BY <1>1, <2>1 DEF Skip, Consistent
  <2>2. CASE Write(t, new)
    <3> HIDE DEF new
    <3> QED
      BY <2>2, WriteLeads
  <2> QED
    BY <1>2, <2>1, <2>2
<1>5. OthersEntries(t) /\ OthersRoutes(t)
  BY <1>3, <1>4, OthersKeepEntries
<1> HIDE DEF new
<1>6. config'.router = config.router
  BY <1>4, <1>r
<1>7. CASE Fail(t)
  BY <1>4, <1>5, <1>7, FailEstablishes, CallKeepsSafe
<1>8. CASE Advance(t)
  <2>1. OthersWait(t) /\ worker'[t] = None /\ outcome'[t] = "setup"
    BY <1>1, <1>8, AdvanceLeads
  <2>2. \A calls : ~AtAny(t, calls)'
    BY <2>1 DEF AtAny
  <2>3. SetUp(t)' /\ TornDown(t)'
    BY <2>1, <2>2 DEF SetUp, TornDown
  <2>4. SureRoutes(t)'
    BY <1>1, <1>3, <1>6, <2>1, <2>2 DEF SureRoutes, Established
  <2> QED
    BY <1>4, <1>5, <2>1, <2>3, <2>4, CallKeepsSafe DEF Established
<1> QED
  BY <1>4, <1>7, <1>8

\* Scaling changes the splitter of a service only.
LEMMA CreateServiceSplitterSafe ==
    ASSUME Inv, Safe, NEW t \in Services, CreateServiceSplitter(t)
    PROVE  Safe'
<1> DEFINE new == [config EXCEPT !.splitter = [config.splitter EXCEPT ![t] = TRUE]]
<1>1. /\ Busy(t) /\ worker[t].pc = "createSplitter" /\ Established(t)
      /\ \A calls : AtAny(t, calls) <=> "createSplitter" \in calls
  BY AtCall DEF CreateServiceSplitter
<1>2. Write(t, new)
  BY DEF CreateServiceSplitter
<1>3. raced' = raced
  BY DEF CreateServiceSplitter, history
<1>4. /\ Consistent(config') /\ (config' = new \/ config' = config)
      /\ Fail(t) \/ (config' = new /\ Advance(t))
  BY <1>2, WriteLeads
<1>5. OthersEntries(t) /\ OthersRoutes(t)
  BY <1>3, <1>4, OthersKeepEntries
<1>6. /\ new.router = config.router /\ new.resolver = config.resolver
      /\ new.intentions = config.intentions /\ new.defaults = config.defaults
  BY Unwritten
<1> HIDE DEF new
<1>7. CASE Fail(t)
  BY <1>4, <1>5, <1>7, FailEstablishes, CallKeepsSafe
<1>8. CASE config' = new /\ Advance(t)
  <2>1. OthersWait(t) /\ worker'[t] = None /\ outcome'[t] = outcome[t]
    BY <1>1, <1>8, AdvanceLeads
  <2>2. \A calls : ~AtAny(t, calls)'
    BY <2>1 DEF AtAny
  <2>3. outcome[t] # "destroyed"
    BY <1>1 DEF Established, TornDown
  <2>4. SetUp(t)' /\ TornDown(t)'
    BY <2>1, <2>2, <2>3 DEF SetUp, TornDown
  <2>5. SureRoutes(t)'
    BY <1>1, <1>3, <1>6, <1>8, <2>1, <2>2 DEF SureRoutes, Established
  <2> QED
    BY <1>4, <1>5, <2>1, <2>4, <2>5, CallKeepsSafe DEF Established
<1> QED
  BY <1>4, <1>7, <1>8

\* The splitter goes first: what it splits between is still there.
LEMMA DeleteServiceSplitterSafe ==
    ASSUME Inv, Safe, NEW t \in Services, DeleteServiceSplitter(t)
    PROVE  Safe'
<1> DEFINE new == [config EXCEPT !.splitter = [config.splitter EXCEPT ![t] = FALSE]]
<1>1. /\ Busy(t) /\ worker[t].pc = "deleteSplitter" /\ Established(t)
      /\ \A calls : AtAny(t, calls) <=> "deleteSplitter" \in calls
  BY AtCall DEF DeleteServiceSplitter
<1>2. Write(t, new)
  BY DEF DeleteServiceSplitter
<1>3. raced' = raced
  BY DEF DeleteServiceSplitter, history
<1>4. /\ Consistent(config') /\ (config' = new \/ config' = config)
      /\ Fail(t) \/ (config' = new /\ Advance(t))
  BY <1>2, WriteLeads
<1>5. OthersEntries(t) /\ OthersRoutes(t)
  BY <1>3, <1>4, OthersKeepEntries
<1>6. ~new.splitter[t]
  BY Unwritten DEF Inv, TypeOK, Configs
<1> HIDE DEF new
<1>7. CASE Fail(t)
  BY <1>4, <1>5, <1>7, FailEstablishes, CallKeepsSafe
<1>8. CASE config' = new /\ Advance(t)
  <2>1. OthersWait(t) /\ worker'[t] # None /\ worker'[t].pc = "findRoutes"
    BY <1>1, <1>8, AdvanceLeads DEF After
  <2>2. \A calls : AtAny(t, calls)' <=> "findRoutes" \in calls
    BY <2>1 DEF AtAny
  <2>3. SetUp(t)' /\ TornDown(t)'
    BY <1>6, <1>8, <2>1, <2>2 DEF SetUp, TornDown
  <2>4. SureRoutes(t)'
    BY <2>1, <2>2 DEF SureRoutes
  <2> QED
    BY <1>4, <1>5, <2>1, <2>3, <2>4, CallKeepsSafe DEF Established
<1> QED
  BY <1>4, <1>7, <1>8

\* Of the resolver nothing of the controller's is left.
LEMMA DeleteServiceResolverSafe ==
    ASSUME Inv, Safe, NEW t \in Services, DeleteServiceResolver(t)
    PROVE  Safe'
<1> DEFINE r == config.resolver[t]
           d == IF r.owner = "controller" THEN NoResolver
                ELSE [owner |-> r.owner, subsets |-> r.subsets \ {"release"}]
           new == [config EXCEPT !.resolver = [config.resolver EXCEPT ![t] = d]]
<1>1. /\ Busy(t) /\ worker[t].pc = "deleteResolver" /\ Established(t) /\ Consistent(config)
      /\ \A calls : AtAny(t, calls) <=> "deleteResolver" \in calls
  BY AtCall DEF DeleteServiceResolver
<1>2. WithoutSubsets(t) = new
  BY DEF WithoutSubsets, Inv, TypeOK, Configs
<1>3. Reject(t) \/ Write(t, new)
  BY <1>2 DEF DeleteServiceResolver
<1>4. raced' = raced
  BY DEF DeleteServiceResolver, history
<1>5. config.resolver \in [Services -> [owner : Owners, subsets : SUBSET {"release", "user"}]]
  BY DEF Inv, TypeOK, Configs
<1>6. "release" \notin d.subsets /\ d.owner # "controller"
  BY DEF NoResolver
<1> HIDE DEF d
<1>7. new.resolver[t] = d
  BY <1>5, Unwritten
<1>8. /\ Consistent(config') /\ (config' = new \/ config' = config)
      /\ Fail(t) \/ (config' = new /\ Advance(t))
  <2>1. CASE Reject(t)
    BY <1>1, <2>1 DEF Reject, Consistent
  <2>2. CASE Write(t, new)
    <3> HIDE DEF new
    <3> QED
      BY <2>2, WriteLeads
  <2> QED
    BY <1>3, <2>1, <2>2
<1>9. OthersEntries(t) /\ OthersRoutes(t)
  BY <1>4, <1>8, OthersKeepEntries
<1> HIDE DEF new
<1>10. CASE Fail(t)
  BY <1>8, <1>9, <1>10, FailEstablishes, CallKeepsSafe
<1>11. CASE config' = new /\ Advance(t)
  <2>1. OthersWait(t) /\ worker'[t] # None /\ worker'[t].pc = "deleteIntention"
    BY <1>1, <1>11, AdvanceLeads DEF After
  <2>2. \A calls : AtAny(t, calls)' <=> "deleteIntention" \in calls
    BY <2>1 DEF AtAny
  <2>3. SetUp(t)' /\ SureRoutes(t)'
    BY <2>1, <2>2 DEF SetUp, SureRoutes
  <2>4. TornDown(t)'
    BY <1>6, <1>7, <1>11, <2>1, <2>2 DEF TornDown, NoResolverLeft
  <2> QED
    BY <1>8, <1>9, <2>1, <2>3, <2>4, CallKeepsSafe DEF Established
<1> QED
  BY <1>8, <1>10, <1>11

\* Of the intentions nothing of the controller's is left.
LEMMA DeleteServiceIntentionSafe ==
    ASSUME Inv, Safe, NEW t \in Services, DeleteServiceIntention(t)
    PROVE  Safe'
<1> DEFINE r == config.intentions[t]
           d == [r EXCEPT !.sources = @ \ {"controller"}]
           new(v) == [config EXCEPT !.intentions = [config.intentions EXCEPT ![t] = v]]
<1>1. /\ Busy(t) /\ worker[t].pc = "deleteIntention" /\ Established(t) /\ Consistent(config)
      /\ \A calls : AtAny(t, calls) <=> "deleteIntention" \in calls
  BY AtCall DEF DeleteServiceIntention
<1>2. config.intentions
        \in [Services -> [owner : Owners, sources : SUBSET {"controller", "user"}]]
  BY DEF Inv, TypeOK, Configs
<1>3. /\ new(d) = [config EXCEPT !.intentions[t].sources = @ \ {"controller"}]
      /\ new(NoIntentions) = [config EXCEPT !.intentions[t] = NoIntentions]
  BY DEF Inv, TypeOK, Configs
<1>4. r.owner = "user" => "controller" \notin d.sources /\ d.owner # "controller"
  BY <1>2
<1>5. "controller" \notin NoIntentions.sources /\ NoIntentions.owner # "controller"
  BY DEF NoIntentions
<1>6. \/ Reject(t)
      \/ r.owner = "user" /\ Write(t, new(d))
      \/ Write(t, new(NoIntentions))
  <2> HIDE DEF new, d
  <2> QED
    BY <1>3 DEF DeleteServiceIntention
<1>7. raced' = raced
  BY DEF DeleteServiceIntention, history
<1>8. \A v : /\ new(v).intentions[t] = v /\ new(v).resolver = config.resolver
  BY <1>2, Unwritten
<1> DEFINE gone(v) == "controller" \notin v.sources /\ v.owner # "controller"
<1>9. /\ Consistent(config')
      /\ config' = config \/ \E v : config' = new(v)
      /\ Fail(t) \/ (Advance(t) /\ \E v : gone(v) /\ config' = new(v))
  <2>1. CASE Reject(t)
    BY <1>1, <2>1 DEF Reject, Consistent
  <2>2. ASSUME NEW v, gone(v), Write(t, new(v))
        PROVE  <1>9
    <3> HIDE DEF new, gone
    <3> QED
      BY <2>2, WriteLeads
  <2> HIDE DEF d, new
  <2> QED
    BY <1>4, <1>5, <1>6, <2>1, <2>2
<1>10. OthersEntries(t) /\ OthersRoutes(t)
  BY <1>7, <1>9, OthersKeepEntries
<1>11. CASE Fail(t)
  BY <1>9, <1>10, <1>11, FailEstablishes, CallKeepsSafe
<1>12. ASSUME Advance(t), NEW v, gone(v), config' = new(v)
       PROVE  Safe'
  <2> HIDE DEF new
  <2>1. OthersWait(t) /\ worker'[t] # None /\ worker'[t].pc = "deleteDefaults"
    BY <1>1, <1>12, AdvanceLeads DEF After
  <2>2. \A calls : AtAny(t, calls)' <=> "deleteDefaults" \in calls
    BY <2>1 DEF AtAny
  <2>3. SetUp(t)' /\ SureRoutes(t)'
    BY <2>1, <2>2 DEF SetUp, SureRoutes
  <2>4. config'.intentions[t] = v /\ config'.resolver = config.resolver
    BY <1>8, <1>12
  <2>5. TornDown(t)'
    BY <1>1, <1>12, <2>1, <2>2, <2>4
       DEF TornDown, Established, NoResolverLeft, NoIntentionLeft
  <2> QED
    BY <1>9, <1>10, <2>1, <2>3, <2>5, CallKeepsSafe DEF Established
<1> QED
  <2> HIDE DEF new, gone
  <2> QED
    BY <1>9, <1>11, <1>12

\* Of the defaults nothing of the controller's is left: Destroy is done.
LEMMA DeleteServiceDefaultsSafe ==
    ASSUME Inv, Safe, NEW t \in Services, DeleteServiceDefaults(t)
    PROVE  Safe'
<1> DEFINE e == config.defaults[t]
           new == [config EXCEPT !.defaults = [config.defaults EXCEPT ![t] = NoDefaults]]
<1>1. /\ Busy(t) /\ worker[t].pc = "deleteDefaults" /\ Established(t) /\ Consistent(config)
      /\ \A calls : AtAny(t, calls) <=> "deleteDefaults" \in calls
  BY AtCall DEF DeleteServiceDefaults
<1>2. config.defaults \in [Names -> [owner : Owners, protocol : Protocols]] /\ t \in Names
  BY DEF Inv, TypeOK, Configs, Names
<1>3. e.owner = "controller" => WithoutDefaults(t) = new
  BY <1>2 DEF WithoutDefaults, Inv, TypeOK, Configs
<1>4. \/ Reject(t)
      \/ e.owner = "user" /\ Skip(t)
      \/ Write(t, new)
  <2> HIDE DEF new
  <2> QED
    BY <1>3 DEF DeleteServiceDefaults
<1>5. raced' = raced
  BY DEF DeleteServiceDefaults, history
<1>6. /\ new.defaults[t] = NoDefaults /\ new.resolver = config.resolver
      /\ new.intentions = config.intentions
  BY <1>2, Unwritten
<1>7. /\ Consistent(config') /\ (config' = new \/ config' = config)
      /\ Fail(t) \/ (Advance(t) /\ config'.defaults[t].owner # "controller")
  <2>1. CASE Reject(t)
    BY <1>1, <2>1 DEF Reject, Consistent
  <2>2. CASE e.owner = "user" /\ Skip(t)
    BY <1>1, <2>2 DEF Skip, Consistent
  <2>3. CASE Write(t, new)
    <3>1. NoDefaults.owner # "controller"
      BY DEF NoDefaults
    <3> HIDE DEF new
    <3> QED
      BY <1>6, <2>3, <3>1, WriteLeads
  <2> QED
    BY <1>4, <2>1, <2>2, <2>3
<1>8. OthersEntries(t) /\ OthersRoutes(t)
  BY <1>5, <1>7, OthersKeepEntries
<1> HIDE DEF new
<1>9. CASE Fail(t)
  BY <1>7, <1>8, <1>9, FailEstablishes, CallKeepsSafe
<1>10. CASE Advance(t) /\ config'.defaults[t].owner # "controller"
  <2>1. OthersWait(t) /\ worker'[t] = None /\ outcome'[t] = "destroyed"
    BY <1>1, <1>10, AdvanceLeads
  <2>2. \A calls : ~AtAny(t, calls)'
    BY <2>1 DEF AtAny
  <2>3. SetUp(t)' /\ SureRoutes(t)'
    BY <2>1, <2>2 DEF SetUp, SureRoutes
  <2>4. config'.resolver = config.resolver /\ config'.intentions = config.intentions
    BY <1>6, <1>7
  <2>5. TornDown(t)'
    BY <1>1, <1>10, <2>2, <2>4 DEF TornDown, Established, NoResolverLeft, NoIntentionLeft
  <2> QED
    BY <1>7, <1>8, <2>1, <2>3, <2>5, CallKeepsSafe DEF Established
<1> QED
  BY <1>7, <1>9, <1>10
-----------------------------------------------------------------------------
\* An operation that begins has established nothing yet.
LEMMA StartSafe ==
    ASSUME Inv, Safe, NEW t \in Services, Setup(t) \/ Scale(t) \/ Destroy(t)
    PROVE  Safe'
<1>1. PICK call \in {"defaults", "createSplitter", "deleteSplitter"} :
        Start(t, call) /\ (call = "createSplitter" => outcome[t] \in {"setup", "failed"})
  BY DEF Setup, Scale, Destroy
<1>2. config' = config /\ raced' = raced /\ outcome' = outcome /\ worker[t] = None
  BY <1>1 DEF Start, history
<1>3. /\ OthersEntries(t) /\ OthersRoutes(t) /\ Consistent(config')
  BY <1>2, OthersKeepEntries DEF Safe, Consistent
<1>4. [pc |-> call, read |-> NoRoutes] # None
  BY NoRoutesTyped, NoneAssumption DEF Calls
<1>5. worker'[t] # None /\ worker'[t].pc = call /\ OthersWait(t)
  BY <1>1, <1>2, <1>4 DEF Start, OthersWait, Inv, TypeOK
<1>6. \A calls : AtAny(t, calls)' <=> call \in calls
  BY <1>5 DEF AtAny
<1>7. Established(t)
  BY DEF Safe
<1>8. SetUp(t)' /\ TornDown(t)'
  BY <1>1, <1>2, <1>5, <1>6 DEF SetUp, TornDown
<1>9. SureRoutes(t)'
  BY <1>2, <1>5, <1>6, <1>7 DEF SureRoutes, Established
<1> QED
  BY <1>3, <1>5, <1>8, <1>9, CallKeepsSafe DEF Established

\* Every step keeps what Consul accepts and what the calls have established.
LEMMA NextKeepsSafe ==
    ASSUME Inv, Safe, [Next]_vars
    PROVE  Safe'
<1>1. CASE UNCHANGED vars
  <2>1. ASSUME NEW s \in Services
        PROVE  Established(s)'
    BY <1>1, <2>1 DEF vars, Safe, Established, SetUp, TornDown, SureRoutes,
                      NoResolverLeft, NoIntentionLeft, AtAny
  <2> QED
    BY <1>1, <2>1 DEF vars, Safe, Consistent
<1>2. ASSUME NEW t \in Services, CallFails(t)
      PROVE  Safe'
  <2>1. config' = config /\ raced' = raced /\ Fail(t)
    BY <1>2 DEF CallFails, Reject, history
  <2>2. OthersEntries(t) /\ OthersRoutes(t) /\ Consistent(config')
    BY <2>1, OthersKeepEntries DEF Safe, Consistent
  <2> QED
    BY <2>1, <2>2, FailEstablishes, CallKeepsSafe
<1>3. ASSUME NEW t \in Services, Creating(t)
      PROVE  Safe'
  BY <1>3, CreateDefaultsSafe, CreateServiceResolverSafe, ReadingSafe,
     CreateUpstreamRouterSafe, CreateServiceIntentionSafe, CreateServiceSplitterSafe
     DEF Creating
<1>4. ASSUME NEW t \in Services, Deleting(t)
      PROVE  Safe'
  BY <1>4, DeleteServiceSplitterSafe, ReadingSafe, DeleteUpstreamRouterSafe,
     DeleteServiceResolverSafe, DeleteServiceIntentionSafe, DeleteServiceDefaultsSafe
     DEF Deleting
<1> QED
  BY <1>1, <1>2, <1>3, <1>4, StartSafe DEF Next

\* Nothing refers to anything before the controller comes.
LEMMA InitSafe ==
    ASSUME Init
    PROVE  Safe
<1>1. /\ config.splitter = [s \in Services |-> FALSE] /\ config.router = NoRoutes
      /\ worker = [s \in Services |-> None] /\ outcome = [s \in Services |-> "new"]
  BY DEF Init
<1>2. Consistent(config)
  BY <1>1 DEF Consistent, NoRoutes
<1>3. ASSUME NEW s \in Services
      PROVE  Established(s)
  BY <1>1 DEF Established, SetUp, TornDown, SureRoutes, AtAny
<1> QED
  BY <1>2, <1>3 DEF Safe

\* The invariant of the calls holds in every reachable state.
THEOREM ConsulOrderInvariance == Spec => []Safe
<1>1. Init => Safe
  BY InitSafe
<1>2. Inv /\ Safe /\ [Next]_vars => Safe'
  BY NextKeepsSafe
<1> QED
  BY <1>1, <1>2, ConsulInvariance, PTL DEF Spec

\* Setup adds its route when the subsets and protocols it needs are there,
\* Destroy removes subsets and defaults when nothing refers to them, whatever an
\* earlier operation has left: no call asks Consul for what it must refuse.
THEOREM CallsAccepted == Spec => []OrderAccepted
<1>1. ASSUME Inv, Safe
      PROVE  OrderAccepted
  <2>1. SUFFICES ASSUME ~raced, NEW s \in Services
                 PROVE  /\ At(s, "addRoute") /\ worker[s].read = config.router
                           => Consistent(WithRoute(s))
                        /\ At(s, "deleteResolver") => Consistent(WithoutSubsets(s))
                        /\ At(s, "deleteDefaults") => Consistent(WithoutDefaults(s))
    BY DEF OrderAccepted
  <2>2. /\ config.router \in [Services -> 0..MaxRoutes]
        /\ config.defaults \in [Names -> [owner : Owners, protocol : Protocols]]
        /\ config.resolver
             \in [Services -> [owner : Owners, subsets : SUBSET {"release", "user"}]]
        /\ Services \subseteq Names /\ "upstreams" \notin Services
    BY <1>1, UserAssumption DEF Inv, TypeOK, Configs, Names
  <2>3. Consistent(config) /\ Established(s)
    BY <1>1 DEF Safe
  <2>4. ASSUME At(s, "addRoute"), worker[s].read = config.router
        PROVE  Consistent(WithRoute(s))
    <3> DEFINE k == IF config.router[s] < MaxRoutes THEN config.router[s] + 1
                    ELSE config.router[s]
               c == [config EXCEPT !.router = [config.router EXCEPT ![s] = k]]
    <3>1. WithRoute(s) = c
      BY <2>2, <2>4 DEF WithRoute
    <3>2. /\ config.defaults[s].protocol = "http"
          /\ config.defaults["upstreams"].protocol = "http"
          /\ "release" \in config.resolver[s].subsets
      BY <1>1, <2>3, <2>4, AtCall DEF Established, SetUp
    <3>3. /\ c.router = [config.router EXCEPT ![s] = k] /\ c.defaults = config.defaults
          /\ c.resolver = config.resolver /\ c.splitter = config.splitter
      BY <1>1, Unwritten
    <3> HIDE DEF c, k
    <3>4. Consistent(c)
      BY <2>2, <2>3, <3>2, <3>3 DEF Consistent
    <3> QED
      BY <3>1, <3>4
  <2>5. At(s, "deleteResolver") \/ At(s, "deleteDefaults")
        => ~config.splitter[s] /\ ~(config.router[s] > 0)
    <3>1. CASE At(s, "deleteResolver")
      <4>1. ~config.splitter[s] /\ config.router[s] = 0
        BY <1>1, <2>1, <2>3, <3>1, AtCall DEF Established, TornDown, SureRoutes
      <4> QED
        BY <4>1
    <3>2. CASE At(s, "deleteDefaults")
      <4>1. "release" \notin config.resolver[s].subsets
        BY <1>1, <2>3, <3>2, AtCall DEF Established, TornDown, NoResolverLeft
      <4> QED
        BY <2>3, <4>1 DEF Consistent
    <3> QED
      BY <3>1, <3>2
  <2>6. ASSUME At(s, "deleteResolver")
        PROVE  Consistent(WithoutSubsets(s))
    <3>1. PICK v : WithoutSubsets(s)
                      = [config EXCEPT !.resolver = [config.resolver EXCEPT ![s] = v]]
      BY <1>1 DEF WithoutSubsets, Inv, TypeOK, Configs
    <3> DEFINE c == WithoutSubsets(s)
    <3>2. /\ c.resolver = [config.resolver EXCEPT ![s] = v] /\ c.defaults = config.defaults
          /\ c.router = config.router /\ c.splitter = config.splitter
      BY <1>1, <3>1, Unwritten
    <3> HIDE DEF c
    <3>3. Consistent(c)
      BY <2>2, <2>3, <2>5, <2>6, <3>2 DEF Consistent
    <3> QED
      BY <3>3 DEF c
  <2>7. ASSUME At(s, "deleteDefaults")
        PROVE  Consistent(WithoutDefaults(s))
    <3>1. PICK v : WithoutDefaults(s)
                      = [config EXCEPT !.defaults = [config.defaults EXCEPT ![s] = v]]
      BY <1>1 DEF WithoutDefaults, Inv, TypeOK, Configs
    <3> DEFINE c == WithoutDefaults(s)
    <3>2. /\ c.defaults = [config.defaults EXCEPT ![s] = v] /\ c.resolver = config.resolver
          /\ c.router = config.router /\ c.splitter = config.splitter
      BY <1>1, <3>1, Unwritten
    <3> HIDE DEF c
    <3>3. Consistent(c)
      BY <2>2, <2>3, <2>5, <2>7, <3>2 DEF Consistent, Names
    <3> QED
      BY <3>3 DEF c
  <2> QED
    BY <2>4, <2>6, <2>7
<1> QED
  BY <1>1, ConsulInvariance, ConsulOrderInvariance, PTL

\* A service that was set up, by calls any of which might have failed before,
\* and that nothing has destroyed since, has a route in the router all releases
\* share: only the write of an old copy of that router takes it away.
THEOREM SetUpIsRouted == Spec => []RoutedUnlessRaced
<1>1. Safe => RoutedUnlessRaced
  BY DEF Safe, Established, SureRoutes, RoutedUnlessRaced, Routed
<1> QED
  BY <1>1, ConsulOrderInvariance, PTL

\* A Destroy that succeeds leaves nothing behind: no old copy of the router that
\* another release writes brings the route back, for Consul refuses a route to a
\* subset that is gone.
THEOREM DestroyedLeavesNothing == Spec => []NothingLeft
<1>1. ASSUME Inv, Safe
      PROVE  NothingLeft
  <2>1. SUFFICES ASSUME NEW s \in Services, outcome[s] = "destroyed", worker[s] = None
                 PROVE  /\ ~config.splitter[s] /\ config.router[s] = 0
                        /\ "release" \notin config.resolver[s].subsets
                        /\ "controller" \notin config.intentions[s].sources
                        /\ "controller" \notin {config.defaults[s].owner,
                              config.resolver[s].owner, config.intentions[s].owner}
    BY DEF NothingLeft
  <2>2. NoResolverLeft(s) /\ NoIntentionLeft(s) /\ config.defaults[s].owner # "controller"
    BY <1>1, <2>1 DEF Safe, Established, TornDown
  <2>3. ~config.splitter[s] /\ ~(config.router[s] > 0)
    BY <1>1, <2>2 DEF Safe, Consistent, NoResolverLeft
  <2>4. config.router[s] = 0
    BY <1>1, <2>3, UserAssumption DEF Inv, TypeOK, Configs
  <2> QED
    BY <2>2, <2>3, <2>4 DEF NoResolverLeft, NoIntentionLeft
<1> QED
  BY <1>1, ConsulInvariance, ConsulOrderInvariance, PTL
=============================================================================
