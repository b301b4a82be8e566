---------------------------- MODULE MCController ----------------------------
\* Controller on small instances: one or two clients at a time, two
\* configurations of the release, as many machines as the clients can hold.
EXTENDS Controller, TLC

Symmetry == Permutations(Clients) \cup Permutations(Machines) \cup Permutations(Configs)
=============================================================================
