-------------------------- MODULE ReleaseLifecycle --------------------------
(***************************************************************************)
(* What the controller promises of one release to somebody who submits,    *)
(* deploys and deletes it and looks at what is stored of it: one release,  *)
(* at most one piece of work on it, each piece begun from what is stored   *)
(* and recorded before the next.  There are no handlers here, no map, and  *)
(* no machine objects that replace one another.                            *)
(***************************************************************************)
EXTENDS Naturals

CONSTANTS
    Configs,
    None

VARIABLES
    stored,     \* the release as the KV has it
    work,       \* what is being done
    restarts    \* of the controller

vars == <<stored, work, restarts>>

\* The states that a piece of work may lead to.
Follows ==
    [ configure |-> {"idle", "fail"},
      deploy    |-> {"monitor", "idle", "fail"},
      monitor   |-> {"scale", "promote", "rollback", "fail"},
      scale     |-> {"monitor", "fail"},
      promote   |-> {"idle", "fail"},
      rollback  |-> {"idle", "fail"},
      destroy   |-> {"idle", "fail"} ]

\* The stored states in which a piece of work may be begun from outside.
StartsFrom ==
    [ configure |-> {"new"}, deploy |-> {"idle", "fail"}, destroy |-> {"idle", "fail"} ]

Init ==
    /\ stored = None
    /\ work = None
    /\ restarts = 0

\* A new release, or a change of one that is not being worked on.
Submit(config) ==
    /\ work = None
    /\ stored # None => stored.state \in {"idle", "fail"} /\ stored.config # config
    /\ stored' = [state |-> "new", config |-> config]
    /\ UNCHANGED <<work, restarts>>

Start(kind) ==
    /\ work = None
    /\ stored # None /\ stored.state \in StartsFrom[kind]
    /\ work' = [state |-> kind, config |-> stored.config, recorded |-> FALSE]
    /\ UNCHANGED <<stored, restarts>>

Continue ==
    /\ work # None /\ work.recorded
    /\ \E state \in Follows[work.state] :
          work' = [state |-> state, config |-> work.config, recorded |-> FALSE]
    /\ UNCHANGED <<stored, restarts>>

\* The work is over when it is recorded that it led to a state at rest.
Record ==
    /\ work # None /\ ~work.recorded
    /\ stored' = [state |-> work.state, config |-> work.config]
    /\ work' = IF work.state \in DOMAIN Follows
               THEN [state |-> work.state, config |-> work.config, recorded |-> TRUE]
               ELSE None
    /\ UNCHANGED restarts

\* What has been deleted is idle by then.  It may be removed before that is
\* recorded, and is stored again then.
Remove ==
    /\ stored # None
    /\ \/ work = None /\ stored.state = "idle"
       \/ work # None /\ work.state = "idle"
    /\ stored' = None
    /\ UNCHANGED <<work, restarts>>

\* Work does not survive a restart, what is stored does.
Restart ==
    /\ restarts' = restarts + 1
    /\ work' = None
    /\ UNCHANGED stored

Next ==
    \/ \E config \in Configs : Submit(config)
    \/ \E kind \in DOMAIN StartsFrom : Start(kind)
    \/ Continue \/ Record \/ Remove \/ Restart

Spec == Init /\ [][Next]_vars
=============================================================================
