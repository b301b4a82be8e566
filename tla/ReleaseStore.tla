---------------------------- MODULE ReleaseStore ----------------------------
(***************************************************************************)
(* What interfaces/store.go promises to the rest of the controller: a map  *)
(* of releases by name, each with the states its plugins keep, and a       *)
(* listing of the releases of a runtime.  The writes are atomic; a listing *)
(* takes time, and answers with what was there all along, perhaps with     *)
(* what was there for a while.                                             *)
(***************************************************************************)
EXTENDS FiniteSets

CONSTANTS
    Names,      \* of releases
    Plugins,    \* the kinds of plugin that keep a state
    Runtimes,
    Versions,
    Readers,    \* callers that list (a bound)
    None

\* What of a release and of a plugin's state the promise tells apart.
Releases == [runtime : Runtimes, version : Versions]

Entries == Names \X Releases

\* A listing without options is one of all runtimes.
Filters == Runtimes \cup {None}

VARIABLES
    releases,
    states,
    window,     \* for each reader, what its listing may and must return
    answer

vars == <<releases, states, window, answer>>

Windows == [ filter : Filters,
             steady : SUBSET Entries,    \* there since the listing began
             seen : SUBSET Entries,      \* there at some time since then
             removed : BOOLEAN ]         \* some release has been removed since then

Answers == [error : {"none", "notFound", "failed"}, found : SUBSET Entries]

TypeOK ==
    /\ releases \in [Names -> Releases \cup {None}]
    /\ states \in [Names -> [Plugins -> Versions \cup {None}]]
    /\ window \in [Readers -> Windows \cup {None}]
    /\ answer \in [Readers -> Answers \cup {None}]

Init ==
    /\ releases = [n \in Names |-> None]
    /\ states = [n \in Names |-> [p \in Plugins |-> None]]
    /\ window = [c \in Readers |-> None]
    /\ answer = [c \in Readers |-> None]
-----------------------------------------------------------------------------
Matching(rels, filter) ==
    {e \in Entries : rels[e[1]] = e[2] /\ filter \in {None, e[2].runtime}}

\* The open listings, when the releases become rels.
Observed(rels) ==
    [c \in Readers |->
        IF window[c] = None THEN None
        ELSE LET now == Matching(rels, window[c].filter)
             IN  [ filter  |-> window[c].filter,
                   steady  |-> window[c].steady \cap now,
                   seen    |-> window[c].seen \cup now,
                   removed |-> \/ window[c].removed
                               \/ \E n \in Names : releases[n] # None /\ rels[n] = None ]]

UpsertRelease(n, rel) ==
    /\ releases' = [releases EXCEPT ![n] = rel]
    /\ window' = Observed(releases')
    /\ UNCHANGED <<states, answer>>

\* A release goes with the states of its plugins, and nothing else goes.
DeleteRelease(n) ==
    /\ releases' = [releases EXCEPT ![n] = None]
    /\ states' = [states EXCEPT ![n] = [p \in Plugins |-> None]]
    /\ window' = Observed(releases')
    /\ UNCHANGED answer

UpsertState(n, p, v) ==
    /\ states' = [states EXCEPT ![n][p] = v]
    /\ UNCHANGED <<releases, window, answer>>

BeginList(c, filter) ==
    /\ window[c] = None
    /\ LET now == Matching(releases, filter)
       IN  window' = [window EXCEPT ![c] =
               [filter |-> filter, steady |-> now, seen |-> now, removed |-> FALSE]]
    /\ answer' = [answer EXCEPT ![c] = None]
    /\ UNCHANGED <<releases, states>>

\* A listing fails when the store does, or when it was disturbed by a removal.
EndList(c) ==
    /\ window[c] # None
    /\ \E result \in Answers :
          /\ \/ result.error = "failed"
             \/ result.error = "notFound" /\ window[c].removed
             \/ /\ result.error = "none"
                /\ window[c].steady \subseteq result.found
                /\ result.found \subseteq window[c].seen
          /\ answer' = [answer EXCEPT ![c] = result]
    /\ window' = [window EXCEPT ![c] = None]
    /\ UNCHANGED <<releases, states>>

Next ==
    \/ \E n \in Names :
          \/ \E rel \in Releases : UpsertRelease(n, rel)
          \/ DeleteRelease(n)
          \/ \E p \in Plugins, v \in Versions : UpsertState(n, p, v)
    \/ \E c \in Readers : EndList(c) \/ \E filter \in Filters : BeginList(c, filter)

Spec == Init /\ [][Next]_vars
=============================================================================
