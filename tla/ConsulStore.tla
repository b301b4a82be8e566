---------------------------- MODULE ConsulStore -----------------------------
(***************************************************************************)
(* The release store in Consul's KV: a key for each release and one for    *)
(* the state of each of its plugins, deletion by prefix, and a listing     *)
(* that fetches the keys first and the releases one by one.  It implements *)
(* ReleaseStore as long as no release's name begins with another's.        *)
(***************************************************************************)
EXTENDS FiniteSets

CONSTANTS
    Names, Plugins, Runtimes, Versions, Readers, None,
    StartingWith        \* for each name, the names that begin with it

ASSUME NameAssumption ==
    /\ StartingWith \in [Names -> SUBSET Names]
    /\ \A n \in Names : n \in StartingWith[n]

VARIABLES
    kv,         \* the keys under consul-release-controller/releases
    call,       \* for each reader, the listing it is in
    window,     \* history: what the releases were since the listing began
    answer

vars == <<kv, call, window, answer>>

\* Its actions on the windows of listings serve both modules.
Store == INSTANCE ReleaseStore WITH
    releases <- [n \in Names |-> kv[n].config],
    states <- [n \in Names |-> kv[n].states]

\* The keys of a name: releaseConfigPath's and, for each plugin, stateConfigPath's.
Keys == [ config : Store!Releases \cup {None},
          states : [Plugins -> Versions \cup {None}] ]

NoKeys == [config |-> None, states |-> [p \in Plugins |-> None]]

Calls == [ filter : Store!Filters,
           pending : SUBSET Names,          \* keys still to fetch
           found : SUBSET Store!Entries ]

ASSUME NoneAssumption == None \notin Store!Releases \cup Store!Windows \cup Calls

TypeOK ==
    /\ kv \in [Names -> Keys]
    /\ call \in [Readers -> Calls \cup {None}]
    /\ window \in [Readers -> Store!Windows \cup {None}]
    /\ answer \in [Readers -> Store!Answers \cup {None}]

Init ==
    /\ kv = [n \in Names |-> NoKeys]
    /\ call = [c \in Readers |-> None]
    /\ window = [c \in Readers |-> None]
    /\ answer = [c \in Readers |-> None]
-----------------------------------------------------------------------------
(* Writes: one request to the KV each.                                     *)

SetKV(keys) ==
    /\ kv' = keys
    /\ window' = Store!Observed([m \in Names |-> keys[m].config])
    /\ UNCHANGED <<call, answer>>

UpsertRelease(n, rel) == SetKV([kv EXCEPT ![n].config = rel])

UpsertState(n, p, v) == SetKV([kv EXCEPT ![n].states[p] = v])

\* Consul's DeleteTree removes every key that begins with releasePath, which
\* does not end in a separator.
DeleteTree(n) ==
    [m \in Names |-> IF m \in StartingWith[n] THEN NoKeys ELSE kv[m]]

DeleteRelease(n) == SetKV(DeleteTree(n))
-----------------------------------------------------------------------------
(* A listing: a request for the names of the keys, and one for each value. *)

\* The releases whose configuration has a key.
ListKV == {n \in Names : kv[n].config # None}

\* A key that does not exist reads as empty.
GetKV(n) == kv[n].config

Reply(c, error, found) ==
    /\ answer' = [answer EXCEPT ![c] = [error |-> error, found |-> found]]
    /\ call' = [call EXCEPT ![c] = None]
    /\ window' = [window EXCEPT ![c] = None]

ListReleases(c, filter) ==
    /\ call[c] = None
    /\ call' = [call EXCEPT ![c] =
           [filter |-> filter, pending |-> ListKV, found |-> {}]]
    /\ LET now == Store!Matching([n \in Names |-> kv[n].config], filter)
       IN  window' = [window EXCEPT ![c] =
               [filter |-> filter, steady |-> now, seen |-> now, removed |-> FALSE]]
    /\ answer' = [answer EXCEPT ![c] = None]
    /\ kv' = kv

\* The key of n has been fetched, and the listing takes these entries from it.
Fetched(c, n, entries) ==
    [call EXCEPT ![c] = [ filter |-> call[c].filter,
                          pending |-> call[c].pending \ {n},
                          found |-> call[c].found \cup entries ]]

Wanted(c, rel) == call[c].filter \in {None, rel.runtime}

\* Mutant: a key whose release has been removed is skipped, and the listing
\* stops there.
SkipRelease(c, n) ==
    /\ call[c] # None /\ n \in call[c].pending
    /\ LET rel == GetKV(n)
       IN  call' = IF rel = None THEN [call EXCEPT ![c].pending = {}]
                   ELSE Fetched(c, n, IF Wanted(c, rel) THEN {<<n, rel>>} ELSE {})
    /\ UNCHANGED <<kv, window, answer>>

\* Mutant: an empty value is taken for a release.
FetchUnchecked(c, n) ==
    /\ call[c] # None /\ n \in call[c].pending
    /\ call' = Fetched(c, n, {<<n, GetKV(n)>>})
    /\ UNCHANGED <<kv, window, answer>>

\* getRelease: a release that has been removed since fails the whole listing.
FetchRelease(c, n) ==
    /\ call[c] # None /\ n \in call[c].pending
    /\ LET rel == GetKV(n)
       IN  IF rel = None THEN Reply(c, "notFound", {})
           ELSE /\ call' = Fetched(c, n, IF Wanted(c, rel) THEN {<<n, rel>>} ELSE {})
                /\ UNCHANGED <<window, answer>>
    /\ kv' = kv

EndList(c) ==
    /\ call[c] # None /\ call[c].pending = {}
    /\ Reply(c, "none", call[c].found)
    /\ kv' = kv

\* A request to the KV fails.
FailList(c) ==
    /\ call[c] # None
    /\ Reply(c, "failed", {})
    /\ kv' = kv
-----------------------------------------------------------------------------
Write ==
    \E n \in Names :
       \/ \E rel \in Store!Releases : UpsertRelease(n, rel)
       \/ \E p \in Plugins, v \in Versions : UpsertState(n, p, v)
       \/ DeleteRelease(n)

Read(c) ==
    \/ \E filter \in Store!Filters : ListReleases(c, filter)
    \/ \E n \in Names : FetchRelease(c, n)
    \/ EndList(c) \/ FailList(c)

Next == Write \/ \E c \in Readers : Read(c)

Spec == Init /\ [][Next]_vars
-----------------------------------------------------------------------------
(* Properties.                                                             *)

\* The store keeps the promise of interfaces/store.go: releases and plugin
\* states live and go as they are told to, and a listing that takes several
\* requests misses no release that was there all along, returns none that never
\* was, and is spoilt only by a removal or by Consul.
Contract == Store!Spec
=============================================================================
