--------------------------- MODULE MCConsulConfig ---------------------------
(* ConsulConfig for TLC: services are interchangeable, and a user's entries *)
(* are chosen so that every branch of Setup and Destroy is taken.           *)
EXTENDS ConsulConfig, TLC

Symmetry == Permutations(Services)

Entries(defaults, resolver, intentions) ==
    [defaults |-> defaults, resolver |-> resolver, intentions |-> intentions]

Made(protocol) == [owner |-> "user", protocol |-> protocol]

MCUserEntries ==
    { Entries(NoDefaults, NoResolver, NoIntentions),
      Entries(Made("grpc"), NoResolver, NoIntentions),
      Entries(Made("tcp"), [owner |-> "user", subsets |-> {"user"}],
              [owner |-> "user", sources |-> {"user"}]),
      Entries(Made("http"), [owner |-> "user", subsets |-> {"user"}],
              [owner |-> "user", sources |-> {"controller", "user"}]),
      Entries(Made(""), [owner |-> "user", subsets |-> {}], NoIntentions) }
=============================================================================
