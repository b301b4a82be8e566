----------------------------- MODULE MCRollout -----------------------------
\* Rollout on small instances: two versions, one or two goroutines, a canary
\* that starts at 20 and reaches its maximum in two steps of 40.
EXTENDS Rollout, TLC

Symmetry == Permutations(Workers) \cup Permutations(Machines) \cup Permutations(Versions)
=============================================================================
