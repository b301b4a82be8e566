------------------------- MODULE ConsulStoreProofs -------------------------
(***************************************************************************)
(* The store in Consul keeps the contract of ReleaseStore, for any number  *)
(* of releases, plugins and listings at once, as long as no release's name *)
(* begins with another's.  What a listing has found and still has to fetch *)
(* is related to its window by ListInv; a write keeps that (WriteKeeps),   *)
(* and every step of a listing is one of the contract or changes nothing   *)
(* of it.                                                                  *)
(***************************************************************************)
EXTENDS ConsulStore, TLAPS

\* The releases under the keys k.
Rels(k) == [n \in Names |-> k[n].config]

Now(c) == Store!Matching(Rels(kv), call[c].filter)

\* A listing in progress and its window.
ListInv(c) ==
    IF call[c] = None THEN window[c] = None
    ELSE /\ window[c] # None
         /\ window[c].filter = call[c].filter
         /\ call[c].found \subseteq window[c].seen
         /\ Now(c) \subseteq window[c].seen
         /\ window[c].steady \subseteq Now(c)
         /\ \A e \in window[c].steady : e[1] \in call[c].pending \/ e \in call[c].found
         /\ \A n \in call[c].pending : kv[n].config = None => window[c].removed

Inv == TypeOK /\ \A c \in Readers : ListInv(c)
-----------------------------------------------------------------------------
\* What Observed makes of a window.
LEMMA ObservedWindow ==
    ASSUME NEW r, NEW c \in Readers, window[c] # None
    PROVE  LET now == Store!Matching(r, window[c].filter)
           IN  Store!Observed(r)[c] =
                  [ filter  |-> window[c].filter,
                    steady  |-> window[c].steady \cap now,
                    seen    |-> window[c].seen \cup now,
                    removed |-> \/ window[c].removed
                                \/ \E n \in Names : Rels(kv)[n] # None /\ r[n] = None ]
  BY DEF Store!Observed, Rels

\* A closed window stays closed.
LEMMA ObservedNone ==
    ASSUME NEW r, NEW c \in Readers, window[c] = None
    PROVE  Store!Observed(r)[c] = None
  BY DEF Store!Observed

\* An open window stays open.
LEMMA ObservedOpen ==
    ASSUME TypeOK, NEW r, NEW c \in Readers, window[c] # None
    PROVE  Store!Observed(r)[c] \in Store!Windows
<1>1. window[c] \in Store!Windows
  BY DEF TypeOK
<1> DEFINE now == Store!Matching(r, window[c].filter)
<1>2. now \in SUBSET Store!Entries
  BY DEF Store!Matching
<1> HIDE DEF now
<1>3. Store!Observed(r)[c] =
         [ filter  |-> window[c].filter,
           steady  |-> window[c].steady \cap now,
           seen    |-> window[c].seen \cup now,
           removed |-> \/ window[c].removed
                       \/ \E n \in Names : Rels(kv)[n] # None /\ r[n] = None ]
  BY ObservedWindow DEF now
<1>4. \A b \in BOOLEAN :
         [ filter |-> window[c].filter, steady |-> window[c].steady \cap now,
           seen |-> window[c].seen \cup now, removed |-> b ] \in Store!Windows
  BY <1>1, <1>2 DEF Store!Windows
<1> QED
  BY <1>1, <1>3, <1>4 DEF Store!Windows

\* Windows stay typed.
LEMMA ObservedTyped ==
    ASSUME TypeOK, NEW r
    PROVE  Store!Observed(r) \in [Readers -> Store!Windows \cup {None}]
<1>1. \A c \in Readers : Store!Observed(r)[c] \in Store!Windows \cup {None}
  BY ObservedOpen, ObservedNone
<1> QED
  BY <1>1 DEF Store!Observed
-----------------------------------------------------------------------------
\* A write that leaves the releases as they were leaves the windows.
LEMMA ObservedSame ==
    ASSUME Inv
    PROVE  Store!Observed(Rels(kv)) = window
<1>1. ASSUME NEW c \in Readers
      PROVE  Store!Observed(Rels(kv))[c] = window[c]
  <2>1. CASE window[c] = None
    BY <2>1, ObservedNone
  <2>2. CASE window[c] # None
    <3> DEFINE now == Store!Matching(Rels(kv), window[c].filter)
    <3>1. window[c] \in Store!Windows
      BY <2>2 DEF Inv, TypeOK
    <3>2. window[c].steady \subseteq now /\ now \subseteq window[c].seen
      BY <2>2 DEF Inv, ListInv, Now
    <3>3. Store!Observed(Rels(kv))[c] =
             [ filter  |-> window[c].filter,
               steady  |-> window[c].steady \cap now,
               seen    |-> window[c].seen \cup now,
               removed |-> \/ window[c].removed
                           \/ \E n \in Names : Rels(kv)[n] # None /\ Rels(kv)[n] = None ]
      BY <2>2, ObservedWindow
    <3> HIDE DEF now
    <3>4. window[c].steady \cap now = window[c].steady
          /\ window[c].seen \cup now = window[c].seen
      BY <3>2
    <3>5. window[c].removed \in BOOLEAN
      BY <3>1 DEF Store!Windows
    <3>6. window[c] = [ filter |-> window[c].filter, steady |-> window[c].steady,
                        seen |-> window[c].seen, removed |-> window[c].removed ]
      BY <3>1 DEF Store!Windows
    <3> QED
      BY <3>3, <3>4, <3>5, <3>6
  <2> QED
    BY <2>1, <2>2
<1>2. window \in [Readers -> Store!Windows \cup {None}]
  BY DEF Inv, TypeOK
<1> QED
  BY <1>1, <1>2 DEF Store!Observed

\* Whatever a write makes of the keys, open listings keep to their windows.
LEMMA WriteKeeps ==
    ASSUME Inv, NEW k \in [Names -> Keys],
           kv' = k, window' = Store!Observed(Rels(k)), UNCHANGED <<call, answer>>
    PROVE  Inv'
<1>1. TypeOK'
  BY ObservedTyped DEF Inv, TypeOK
<1>2. SUFFICES ASSUME NEW c \in Readers PROVE ListInv(c)'
  BY <1>1 DEF Inv
<1>3. ListInv(c)
  BY DEF Inv
<1>4. CASE call[c] = None
  BY <1>3, <1>4, ObservedNone DEF ListInv
<1>5. CASE call[c] # None
  <2> DEFINE now == Store!Matching(Rels(k), call[c].filter)
  <2>1. window[c] # None /\ window[c].filter = call[c].filter
    BY <1>3, <1>5 DEF ListInv
  <2>2. window'[c] =
           [ filter  |-> window[c].filter,
             steady  |-> window[c].steady \cap now,
             seen    |-> window[c].seen \cup now,
             removed |-> \/ window[c].removed
                         \/ \E n \in Names : Rels(kv)[n] # None /\ Rels(k)[n] = None ]
    BY <2>1, ObservedWindow
  <2>3. Now(c)' = now
    BY DEF Now, Rels, Store!Matching
  <2> HIDE DEF now
  <2>4. window'[c] # None
    BY <2>1, ObservedOpen, NoneAssumption DEF Inv
  <2>5. \A e \in window'[c].steady : e[1] \in call[c].pending \/ e \in call[c].found
    BY <1>3, <1>5, <2>2 DEF ListInv
  <2>6. \A n \in call[c].pending : k[n].config = None => window'[c].removed
    <3>1. SUFFICES ASSUME NEW n \in call[c].pending, k[n].config = None
                   PROVE  window'[c].removed
      OBVIOUS
    <3>2. n \in Names
      BY <1>5 DEF Inv, TypeOK, Calls
    <3>3. CASE kv[n].config = None
      BY <1>3, <1>5, <2>2, <3>3 DEF ListInv
    <3>4. CASE kv[n].config # None
      BY <2>2, <3>1, <3>2, <3>4 DEF Rels
    <3> QED
      BY <3>3, <3>4
  <2> QED
    BY <1>3, <1>5, <2>1, <2>2, <2>3, <2>4, <2>5, <2>6 DEF ListInv
<1> QED
  BY <1>4, <1>5

\* SetKV writes keys.
LEMMA SetKVKeeps ==
    ASSUME Inv, NEW k \in [Names -> Keys], SetKV(k)
    PROVE  Inv'
  BY WriteKeeps DEF SetKV, Rels

\* What the writes write are keys.
LEMMA KeysTyped ==
    ASSUME TypeOK, NEW n \in Names
    PROVE  /\ \A rel \in Store!Releases : [kv EXCEPT ![n].config = rel] \in [Names -> Keys]
           /\ \A p \in Plugins, v \in Versions :
                 [kv EXCEPT ![n].states[p] = v] \in [Names -> Keys]
           /\ DeleteTree(n) \in [Names -> Keys]
<1>1. kv \in [Names -> Keys] /\ kv[n] \in Keys
  BY DEF TypeOK
<1>2. ASSUME NEW rel \in Store!Releases
      PROVE  [kv EXCEPT ![n].config = rel] \in [Names -> Keys]
  <2>1. [kv[n] EXCEPT !.config = rel] \in Keys
    BY <1>1 DEF Keys
  <2> QED
    BY <1>1, <2>1
<1>3. ASSUME NEW p \in Plugins, NEW v \in Versions
      PROVE  [kv EXCEPT ![n].states[p] = v] \in [Names -> Keys]
  <2>1. [kv[n].states EXCEPT ![p] = v] \in [Plugins -> Versions \cup {None}]
    BY <1>1 DEF Keys
  <2>2. [kv[n] EXCEPT !.states = [kv[n].states EXCEPT ![p] = v]] \in Keys
    BY <1>1, <2>1 DEF Keys
  <2> QED
    BY <1>1, <2>2
<1>4. DeleteTree(n) \in [Names -> Keys]
  BY <1>1 DEF DeleteTree, NoKeys, Keys
<1> QED
  BY <1>2, <1>3, <1>4

\* What the keys say of a matching release.
LEMMA NowEntry ==
    ASSUME TypeOK, NEW c \in Readers, NEW e \in Now(c)
    PROVE  /\ e \in Store!Entries /\ e[1] \in Names
           /\ kv[e[1]].config = e[2] /\ kv[e[1]].config # None
           /\ Wanted(c, e[2])
<1>1. e \in Names \X Store!Releases
  BY DEF Now, Store!Matching, Store!Entries
<1>2. Rels(kv)[e[1]] = e[2] /\ call[c].filter \in {None, e[2].runtime}
  BY DEF Now, Store!Matching
<1> QED
  BY <1>1, <1>2, NoneAssumption DEF Rels, Wanted, Store!Entries

\* A release that is wanted is a matching one.
LEMMA WantedNow ==
    ASSUME TypeOK, NEW c \in Readers, NEW n \in Names, kv[n].config # None,
           Wanted(c, kv[n].config)
    PROVE  <<n, kv[n].config>> \in Now(c)
<1>1. kv[n].config \in Store!Releases
  BY DEF TypeOK, Keys
<1> QED
  BY <1>1 DEF Now, Rels, Wanted, Store!Matching, Store!Entries
-----------------------------------------------------------------------------
\* The listings of the other readers are none of c's business.
LEMMA OthersKeep ==
    ASSUME Inv, NEW c \in Readers, NEW d \in Readers, d # c, kv' = kv,
           call'[d] = call[d], window'[d] = window[d]
    PROVE  ListInv(d)'
<1>1. ListInv(d)
  BY DEF Inv
<1>2. Now(d)' = Now(d)
  BY DEF Now, Rels, Store!Matching
<1> QED
  BY <1>1, <1>2 DEF ListInv

\* ListReleases opens a listing and its window.
LEMMA ListReleasesKeeps ==
    ASSUME Inv, NEW c \in Readers, NEW filter \in Store!Filters, ListReleases(c, filter)
    PROVE  Inv' /\ Store!BeginList(c, filter)
<1> DEFINE now == Store!Matching(Rels(kv), filter)
           opened == [filter |-> filter, steady |-> now, seen |-> now, removed |-> FALSE]
           fetch == {n \in Names : kv[n].config # None}
           begun == [filter |-> filter, pending |-> fetch, found |-> {}]
<1>1. /\ call[c] = None /\ kv' = kv
      /\ window' = [window EXCEPT ![c] = opened]
      /\ call' = [call EXCEPT ![c] = begun]
      /\ answer' = [answer EXCEPT ![c] = None]
  BY DEF ListReleases, ListKV, Rels
<1>2. now \subseteq Store!Entries
  BY DEF Store!Matching
<1>3. opened \in Store!Windows
  BY <1>2 DEF Store!Windows
<1>4. begun \in Calls
  BY DEF Calls
<1>5. TypeOK
  BY DEF Inv
<1>6. window[c] = None
  BY <1>1 DEF Inv, ListInv
<1>7. Store!BeginList(c, filter)
  BY <1>1, <1>6 DEF Store!BeginList, Rels
<1>8. TypeOK'
  BY <1>1, <1>3, <1>4, <1>5 DEF TypeOK
<1>9. call'[c] = begun /\ window'[c] = opened
  BY <1>1, <1>5 DEF TypeOK
<1>10. Now(c)' = now
  BY <1>1, <1>9 DEF Now, Rels, Store!Matching
<1>11. begun # None /\ opened # None
  BY <1>3, <1>4, NoneAssumption
<1>12. \A e \in now : e[1] \in fetch
  <2>1. ASSUME NEW e \in now PROVE e[1] \in fetch
    <3>1. e \in Names \X Store!Releases /\ Rels(kv)[e[1]] = e[2]
      BY DEF Store!Matching, Store!Entries
    <3> QED
      BY <3>1, NoneAssumption DEF Rels
  <2> QED
    BY <2>1
<1>13. ListInv(c)'
  <2> HIDE DEF now
  <2> QED
    BY <1>1, <1>9, <1>10, <1>11, <1>12 DEF ListInv
<1>14. \A d \in Readers \ {c} : ListInv(d)'
  BY <1>1, <1>5, OthersKeep DEF TypeOK
<1> QED
  BY <1>7, <1>8, <1>13, <1>14 DEF Inv

\* A listing that replies is closed.
LEMMA ReplyKeeps ==
    ASSUME Inv, NEW c \in Readers, NEW error, NEW found,
           [error |-> error, found |-> found] \in Store!Answers,
           Reply(c, error, found), kv' = kv
    PROVE  Inv'
<1>1. /\ answer' = [answer EXCEPT ![c] = [error |-> error, found |-> found]]
      /\ call' = [call EXCEPT ![c] = None]
      /\ window' = [window EXCEPT ![c] = None]
  BY DEF Reply
<1>2. TypeOK
  BY DEF Inv
<1>3. TypeOK'
  BY <1>1, <1>2 DEF TypeOK
<1>4. ListInv(c)'
  BY <1>1, <1>2 DEF TypeOK, ListInv
<1>5. \A d \in Readers \ {c} : ListInv(d)'
  BY <1>1, <1>2, OthersKeep DEF TypeOK
<1> QED
  BY <1>3, <1>4, <1>5 DEF Inv

\* A reply that the contract allows ends a listing of the contract's.
LEMMA ReplyEnds ==
    ASSUME NEW c \in Readers, NEW error, NEW found, window[c] # None,
           [error |-> error, found |-> found] \in Store!Answers,
           \/ error = "failed"
           \/ error = "notFound" /\ window[c].removed
           \/ /\ error = "none"
              /\ window[c].steady \subseteq found /\ found \subseteq window[c].seen,
           Reply(c, error, found), kv' = kv
    PROVE  Store!EndList(c)
<1> DEFINE result == [error |-> error, found |-> found]
<1>1. /\ \/ result.error = "failed"
         \/ result.error = "notFound" /\ window[c].removed
         \/ /\ result.error = "none"
            /\ window[c].steady \subseteq result.found
            /\ result.found \subseteq window[c].seen
      /\ answer' = [answer EXCEPT ![c] = result]
  BY DEF Reply
<1>2. window' = [window EXCEPT ![c] = None]
  BY DEF Reply
<1> HIDE DEF result
<1> QED
  BY <1>1, <1>2 DEF Store!EndList, result

\* FetchRelease adds the release to what the listing found, or fails it.
LEMMA FetchReleaseKeeps ==
    ASSUME Inv, NEW c \in Readers, NEW n \in Names, FetchRelease(c, n)
    PROVE  Inv' /\ (Store!EndList(c) \/ UNCHANGED Store!vars)
<1> DEFINE rel == kv[n].config
           more == IF Wanted(c, rel) THEN {<<n, rel>>} ELSE {}
           next == [ filter |-> call[c].filter, pending |-> call[c].pending \ {n},
                     found |-> call[c].found \cup more ]
<1>1. call[c] # None /\ n \in call[c].pending /\ kv' = kv
  BY DEF FetchRelease
<1>2. TypeOK /\ ListInv(c) /\ window[c] # None
  BY <1>1 DEF Inv, ListInv
<1>3. CASE rel = None
  <2>1. Reply(c, "notFound", {})
    BY <1>3 DEF FetchRelease, GetKV
  <2>2. [error |-> "notFound", found |-> {}] \in Store!Answers
    BY DEF Store!Answers
  <2>3. window[c].removed
    BY <1>1, <1>2, <1>3 DEF ListInv
  <2> QED
    BY <1>1, <1>2, <2>1, <2>2, <2>3, ReplyKeeps, ReplyEnds
<1>4. CASE rel # None
  <2>1. call' = [call EXCEPT ![c] = next] /\ UNCHANGED <<window, answer>>
    BY <1>4 DEF FetchRelease, Fetched, GetKV
  <2>2. rel \in Store!Releases
    BY <1>2, <1>4 DEF TypeOK, Keys
  <2>3. more \subseteq Store!Entries
    BY <2>2 DEF Store!Entries
  <2>4. call[c] \in Calls
    BY <1>1, <1>2 DEF TypeOK
  <2>5. next \in Calls
    BY <2>3, <2>4 DEF Calls
  <2>6. TypeOK'
    BY <1>1, <1>2, <2>1, <2>5 DEF TypeOK
  <2>7. call'[c] = next /\ next # None
    BY <1>2, <2>1, <2>5, NoneAssumption DEF TypeOK
  <2>8. more \subseteq Now(c)
    BY <1>2, <1>4, WantedNow
  <2>9. Now(c)' = Now(c)
    BY <1>1, <2>7 DEF Now, Rels, Store!Matching
  <2>10. \A e \in window[c].steady : e[1] \in next.pending \/ e \in next.found
    <3>1. SUFFICES ASSUME NEW e \in window[c].steady
                   PROVE  e[1] \in next.pending \/ e \in next.found
      OBVIOUS
    <3>2. e \in Now(c)
      BY <1>1, <1>2 DEF ListInv
    <3>3. e \in Names \X Store!Releases /\ kv[e[1]].config = e[2] /\ Wanted(c, e[2])
      BY <1>2, <3>2, NowEntry DEF Store!Entries
    <3>4. e[1] \in call[c].pending \/ e \in call[c].found
      BY <1>1, <1>2 DEF ListInv
    <3>5. CASE e[1] = n
      <4>1. e = <<n, rel>> /\ Wanted(c, rel)
        BY <3>3, <3>5
      <4> QED
        BY <4>1
    <3>6. CASE e[1] # n
      BY <3>4, <3>6
    <3> QED
      BY <3>5, <3>6
  <2>11. ListInv(c)'
    <3>1. next.found \subseteq window[c].seen
      BY <1>1, <1>2, <2>8 DEF ListInv
    <3>2. \A m \in next.pending : kv[m].config = None => window[c].removed
      BY <1>1, <1>2 DEF ListInv
    <3>3. next.filter = window[c].filter
      BY <1>1, <1>2 DEF ListInv
    <3> HIDE DEF next
    <3> QED
      BY <1>1, <1>2, <2>1, <2>7, <2>9, <2>10, <3>1, <3>2, <3>3 DEF ListInv
  <2>12. \A d \in Readers \ {c} : ListInv(d)'
    BY <1>1, <1>2, <2>1, OthersKeep DEF TypeOK
  <2>13. UNCHANGED Store!vars
    BY <1>1, <2>1 DEF Store!vars
  <2> QED
    BY <2>6, <2>11, <2>12, <2>13 DEF Inv
<1> QED
  BY <1>3, <1>4

\* EndList returns what was there all along, and nothing that never was.
LEMMA EndListKeeps ==
    ASSUME Inv, NEW c \in Readers, EndList(c)
    PROVE  Inv' /\ Store!EndList(c)
<1>1. call[c] # None /\ call[c].pending = {} /\ kv' = kv /\ Reply(c, "none", call[c].found)
  BY DEF EndList
<1>2. TypeOK /\ ListInv(c)
  BY DEF Inv
<1>3. window[c] # None /\ call[c].found \subseteq window[c].seen
  BY <1>1, <1>2 DEF ListInv
<1>4. window[c].steady \subseteq call[c].found
  BY <1>1, <1>2 DEF ListInv
<1>5. [error |-> "none", found |-> call[c].found] \in Store!Answers
  BY <1>1, <1>2 DEF TypeOK, Calls, Store!Answers
<1> QED
  BY <1>1, <1>3, <1>4, <1>5, ReplyKeeps, ReplyEnds

\* A failed listing returns nothing.
LEMMA FailListKeeps ==
    ASSUME Inv, NEW c \in Readers, FailList(c)
    PROVE  Inv' /\ Store!EndList(c)
<1>1. call[c] # None /\ kv' = kv /\ Reply(c, "failed", {})
  BY DEF FailList
<1>2. window[c] # None
  BY <1>1 DEF Inv, ListInv
<1>3. [error |-> "failed", found |-> {}] \in Store!Answers
  BY DEF Store!Answers
<1> QED
  BY <1>1, <1>2, <1>3, ReplyKeeps, ReplyEnds
-----------------------------------------------------------------------------
LEMMA InitInv == Init => Inv
<1> SUFFICES ASSUME Init PROVE Inv
  OBVIOUS
<1>1. NoKeys \in Keys
  BY DEF NoKeys, Keys
<1>2. TypeOK
  BY <1>1 DEF Init, TypeOK
<1>3. \A c \in Readers : ListInv(c)
  BY DEF Init, ListInv
<1> QED
  BY <1>2, <1>3 DEF Inv

LEMMA NextInv == Inv /\ [Next]_vars => Inv'
<1> SUFFICES ASSUME Inv, [Next]_vars PROVE Inv'
  OBVIOUS
<1>1. CASE Write
  <2>1. ASSUME NEW n \in Names, NEW rel \in Store!Releases, UpsertRelease(n, rel)
        PROVE  Inv'
    BY <2>1, KeysTyped, SetKVKeeps DEF UpsertRelease, Inv
  <2>2. ASSUME NEW n \in Names, NEW p \in Plugins, NEW v \in Versions, UpsertState(n, p, v)
        PROVE  Inv'
    BY <2>2, KeysTyped, SetKVKeeps DEF UpsertState, Inv
  <2>3. ASSUME NEW n \in Names, DeleteRelease(n)
        PROVE  Inv'
    BY <2>3, KeysTyped, SetKVKeeps DEF DeleteRelease, Inv
  <2> QED
    BY <1>1, <2>1, <2>2, <2>3 DEF Write
<1>2. ASSUME NEW c \in Readers, Read(c)
      PROVE  Inv'
  BY <1>2, ListReleasesKeeps, FetchReleaseKeeps, EndListKeeps, FailListKeeps DEF Read
<1>3. CASE UNCHANGED vars
  <2>1. TypeOK'
    BY <1>3 DEF Inv, TypeOK, vars
  <2>2. \A c \in Readers : ListInv(c)'
    BY <1>3 DEF Inv, ListInv, Now, Rels, Store!Matching, vars
  <2> QED
    BY <2>1, <2>2 DEF Inv
<1> QED
  BY <1>1, <1>2, <1>3 DEF Next

\* The keys, the listings and their windows are what TypeOK says, and every
\* listing keeps to its window.
THEOREM Invariance == Spec => []Inv
<1> QED
  BY InitInv, NextInv, PTL DEF Spec

\* storage.go and clients/consul.go: types of the keys and of listings.
THEOREM TypeCorrectness == Spec => []TypeOK
<1>1. Inv => TypeOK
  BY DEF Inv
<1> QED
  BY <1>1, Invariance, PTL

\* The writes are the contract's when no name begins with another.
LEMMA WriteImplements ==
    ASSUME \A n \in Names : StartingWith[n] = {n}, Inv, Write
    PROVE  Store!Next
<1>1. kv \in [Names -> Keys] /\ \A n \in Names : kv[n] \in Keys
  BY DEF Inv, TypeOK
<1>2. ASSUME NEW n \in Names, NEW rel \in Store!Releases, UpsertRelease(n, rel)
      PROVE  Store!UpsertRelease(n, rel)
  <2>1. kv' = [kv EXCEPT ![n].config = rel]
    BY <1>2 DEF UpsertRelease, SetKV
  <2>2. \A m \in Names : /\ kv'[m].config = IF m = n THEN rel ELSE kv[m].config
                         /\ kv'[m].states = kv[m].states
    BY <1>1, <2>1 DEF Keys
  <2>3. Rels(kv') = [Rels(kv) EXCEPT ![n] = rel]
    BY <2>2 DEF Rels
  <2>4. [m \in Names |-> kv'[m].states] = [m \in Names |-> kv[m].states]
    BY <2>2
  <2>5. window' = Store!Observed(Rels(kv')) /\ answer' = answer
    BY <1>2 DEF UpsertRelease, SetKV, Rels
  <2> QED
    BY <2>3, <2>4, <2>5 DEF Store!UpsertRelease, Rels
<1>3. ASSUME NEW n \in Names, NEW p \in Plugins, NEW v \in Versions, UpsertState(n, p, v)
      PROVE  Store!UpsertState(n, p, v)
  <2>1. kv' = [kv EXCEPT ![n].states[p] = v]
    BY <1>3 DEF UpsertState, SetKV
  <2>2. kv[n].states \in [Plugins -> Versions \cup {None}]
    BY <1>1 DEF Keys
  <2>3. kv'[n] = [kv[n] EXCEPT !.states[p] = v] /\ \A m \in Names \ {n} : kv'[m] = kv[m]
    BY <1>1, <2>1
  <2>4. kv'[n].config = kv[n].config /\ kv'[n].states = [kv[n].states EXCEPT ![p] = v]
    BY <1>1, <2>3 DEF Keys
  <2>5. Rels(kv') = Rels(kv)
    BY <2>3, <2>4 DEF Rels
  <2>6. [m \in Names |-> kv'[m].states] =
           [[m \in Names |-> kv[m].states] EXCEPT ![n][p] = v]
    <3> DEFINE states == [m \in Names |-> kv[m].states]
    <3>1. [m \in Names |-> kv'[m].states] =
             [states EXCEPT ![n] = [kv[n].states EXCEPT ![p] = v]]
      BY <2>3, <2>4
    <3>2. states[n] = kv[n].states
      OBVIOUS
    <3> QED
      BY <3>1, <3>2
  <2>7. window' = Store!Observed(Rels(kv)) /\ answer' = answer
    BY <1>3, <2>1, <2>5 DEF UpsertState, SetKV, Rels
  <2>8. window' = window
    BY <2>7, ObservedSame
  <2> QED
    BY <2>5, <2>6, <2>7, <2>8 DEF Store!UpsertState, Rels
<1>4. ASSUME NEW n \in Names, DeleteRelease(n)
      PROVE  Store!DeleteRelease(n)
  <2>1. kv' = DeleteTree(n)
    BY <1>4 DEF DeleteRelease, SetKV
  <2>2. kv'[n] = NoKeys /\ \A m \in Names \ {n} : kv'[m] = kv[m]
    BY <2>1 DEF DeleteTree
  <2>3. NoKeys.config = None /\ NoKeys.states = [p \in Plugins |-> None]
    BY DEF NoKeys
  <2>4. Rels(kv') = [Rels(kv) EXCEPT ![n] = None]
    BY <2>2, <2>3 DEF Rels
  <2>6. [m \in Names |-> kv'[m].states] =
           [[m \in Names |-> kv[m].states] EXCEPT ![n] = [p \in Plugins |-> None]]
    BY <2>2, <2>3
  <2>5. window' = Store!Observed(Rels(kv')) /\ answer' = answer
    BY <1>4, <2>1 DEF DeleteRelease, SetKV, Rels
  <2> QED
    BY <2>4, <2>5, <2>6 DEF Store!DeleteRelease, Rels
<1> QED
  BY <1>2, <1>3, <1>4 DEF Write, Store!Next

\* interfaces/store.go, as implemented by storage.go and clients/consul.go: as
\* long as no release's name begins with another's, the store in Consul does
\* what ReleaseStore promises.
THEOREM KeepsContract ==
    ASSUME \A n \in Names : StartingWith[n] = {n}
    PROVE  Spec => Contract
<1>1. Init => Store!Init
  BY DEF Init, NoKeys, Store!Init
<1>2. Inv /\ [Next]_vars => [Store!Next]_(Store!vars)
  <2> SUFFICES ASSUME Inv, [Next]_vars PROVE [Store!Next]_(Store!vars)
    OBVIOUS
  <2>1. CASE Write
    BY <2>1, WriteImplements
  <2>2. ASSUME NEW c \in Readers, Read(c)
        PROVE  [Store!Next]_(Store!vars)
    <3>1. ASSUME NEW filter \in Store!Filters, ListReleases(c, filter)
          PROVE  Store!Next
      BY <3>1, ListReleasesKeeps DEF Store!Next
    <3>2. ASSUME NEW n \in Names, FetchRelease(c, n)
          PROVE  Store!Next \/ UNCHANGED Store!vars
      BY <3>2, FetchReleaseKeeps DEF Store!Next
    <3>3. CASE EndList(c)
      BY <3>3, EndListKeeps DEF Store!Next
    <3>4. CASE FailList(c)
      BY <3>4, FailListKeeps DEF Store!Next
    <3> QED
      BY <2>2, <3>1, <3>2, <3>3, <3>4 DEF Read
  <2>3. CASE UNCHANGED vars
    BY <2>3 DEF vars, Store!vars
  <2> QED
    BY <2>1, <2>2, <2>3 DEF Next
<1> QED
  BY <1>1, <1>2, Invariance, PTL DEF Spec, Contract, Store!Spec
=============================================================================
