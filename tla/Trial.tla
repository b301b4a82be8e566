------------------------------- MODULE Trial -------------------------------
(***************************************************************************)
(* Deployments and the judgement of their candidates together: the trial   *)
(* of Judgement is what an operation of Platform waits for.                *)
(***************************************************************************)
EXTENDS Platform, Judgement

vars == <<platformVars, judgementVars>>

Init == PlatformInit /\ JudgementInit

TypeOK == PlatformTypeOK /\ JudgementTypeOK

\* The rollout of a deployment goes from one check to the next.
Try == At("judge") /\ JudgementStep /\ UNCHANGED platformVars

\* event_complete promotes the candidate, event_unhealthy removes it.
Act ==
    /\ Judged(IF stage = "complete" THEN "promote" ELSE "rollback")
    /\ Acted

Next ==
    \/ (Environment \/ Operate) /\ UNCHANGED judgementVars
    \/ Try
    \/ Act

Spec == Init /\ [][Next]_vars

\* The goroutine of a trial goes on, and time passes.
FairSpec == Spec /\ WF_vars(Try) /\ WF_vars(At("judge") /\ TimeoutPasses /\ UNCHANGED platformVars)

=============================================================================
