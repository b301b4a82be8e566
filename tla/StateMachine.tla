---------------------------- MODULE StateMachine ----------------------------
(***************************************************************************)
(* The finite state machine of a release: its states, its events and the   *)
(* transition table handed to fsm.NewFSM in                                *)
(* pkg/plugins/statemachine/statemachine.go.  States and events drop the   *)
(* "state_" and "event_" prefixes of pkg/plugins/interfaces/statemachine.go*)
(***************************************************************************)

\* States whose enter_ callback starts a goroutine: the release is being
\* worked on while it is in one of them.
Active == {"configure", "deploy", "monitor", "scale",
           "promote", "rollback", "destroy"}

\* States without a callback: nothing runs until an event comes from outside.
Rest == {"start", "idle", "fail"}

States == Active \cup Rest

Events == {"configure", "configured", "deploy", "deployed", "healthy", "scaled",
           "complete", "promoted", "unhealthy", "fail", "destroy"}

\* Mutant: event_complete is not accepted in state rollback.
SourcesNoRollback ==
    [ configure  |-> {"start", "idle", "fail"},
      configured |-> {"configure"},
      deploy     |-> {"idle", "fail"},
      deployed   |-> {"deploy"},
      healthy    |-> {"monitor"},
      scaled     |-> {"scale"},
      complete   |-> {"monitor", "deploy", "destroy"},
      promoted   |-> {"promote"},
      unhealthy  |-> {"monitor"},
      fail       |-> States \ {"fail"},
      destroy    |-> States \ {"start", "destroy"} ]

\* The Src column of the table, the four rows of event_complete taken together.
Sources ==
    [ configure  |-> {"start", "idle", "fail"},
      configured |-> {"configure"},
      deploy     |-> {"idle", "fail"},
      deployed   |-> {"deploy"},
      healthy    |-> {"monitor"},
      scaled     |-> {"scale"},
      complete   |-> {"monitor", "deploy", "rollback", "destroy"},
      promoted   |-> {"promote"},
      unhealthy  |-> {"monitor"},
      fail       |-> States \ {"fail"},
      destroy    |-> States \ {"start", "destroy"} ]

\* The Dst column, for every event but event_complete.
Destination ==
    [ configure  |-> "configure",
      configured |-> "idle",
      deploy     |-> "deploy",
      deployed   |-> "monitor",
      healthy    |-> "scale",
      scaled     |-> "monitor",
      promoted   |-> "idle",
      unhealthy  |-> "rollback",
      fail       |-> "fail",
      destroy    |-> "destroy" ]

\* FSM.Event returns InvalidEventError, and changes nothing, for an event that
\* the table does not list for the current state.
Accepts(state, event) == state \in Sources[event]

Target(state, event) ==
    IF event = "complete"
    THEN IF state = "monitor" THEN "promote" ELSE "idle"
    ELSE Destination[event]
=============================================================================
