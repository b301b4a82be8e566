------------------------------ MODULE MCTrial ------------------------------
(* Trial for TLC. *)
EXTENDS Trial

Query(text, min, max) == [text |-> text, min |-> min, max |-> max]

\* A rate with a minimum and a duration with a maximum; with an unknown preset;
\* and with a query that is empty.
SomeConfigurations ==
    LET rate == Query("preset", 99, NoLimit)
    IN  { <<rate, Query("custom", NoLimit, 200)>>,
          <<rate, Query("unknown", NoLimit, 200)>>,
          <<rate, Query("empty", NoLimit, 200)>> }

\* int(NaN): on amd64 the smallest integer, on arm64 zero.
NaNOnBuilds == {-2147483647, 0}

=============================================================================
