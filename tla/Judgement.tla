----------------------------- MODULE Judgement -----------------------------
(***************************************************************************)
(* The trial of a candidate: the HTTP test that is made before every step  *)
(* of a rollout, the canary strategy's checks, and the check of Prometheus *)
(* metrics both of them ask, one query at a time.                          *)
(***************************************************************************)
EXTENDS Integers, Sequences

CONSTANTS
    Configurations,     \* sequences of queries a release may configure
    Values,             \* what a query may return, in halves
    NoLimit,            \* a minimum or maximum that is not set
    NaNAsInt,           \* what the build makes of int(NaN)
    HasTest,            \* whether a post deployment test is configured
    RequiredTestPasses,
    ErrorThreshold,
    InitialTraffic, TrafficStep, MaxTraffic

\* A query is given as a preset, known or not, or as a text, which may be empty.
Queries == [ text : {"preset", "unknown", "custom", "empty"},
             min : Int \cup {NoLimit}, max : Int \cup {NoLimit} ]

ASSUME JudgementAssumption ==
    /\ Configurations \subseteq Seq(Queries)
    /\ Values \subseteq Int /\ NaNAsInt \subseteq Int
    /\ HasTest \in BOOLEAN
    /\ RequiredTestPasses \in Nat \ {0}
    /\ ErrorThreshold \in Nat /\ InitialTraffic \in 0..100
    /\ TrafficStep \in 1..100 /\ MaxTraffic \in 1..100

VARIABLES
    config,     \* the queries of the release
    stage,      \* where the goroutine of state monitor is
    asked,      \* queries of the check in progress that were within limits
    passes,     \* successCount
    fails,      \* failCount
    traffic,    \* CandidateTraffic
    late,       \* the test's timeout has passed
    hung,       \* the service accepts the test's request and never answers
    clean,      \* history: every answer of the check in progress was tolerable
    streak      \* history: the tolerable checks in a row, up to RequiredTestPasses

judgementVars == <<config, stage, asked, passes, fails, traffic, late, hung, clean, streak>>

Stages ==
    {"off", "request", "test", "execute", "sleep", "check", "complete", "unhealthy"}

JudgementTypeOK ==
    /\ config \in Configurations
    /\ stage \in Stages
    /\ asked \in 0..Len(config)
    /\ passes \in 0..(RequiredTestPasses - 1)
    /\ fails \in Nat
    /\ traffic \in -1..100
    /\ late \in BOOLEAN /\ hung \in BOOLEAN /\ clean \in BOOLEAN
    /\ streak \in 0..RequiredTestPasses

JudgementInit ==
    /\ config \in Configurations
    /\ stage = "off" /\ asked = 0 /\ passes = 0 /\ fails = 0 /\ traffic = -1
    /\ late = FALSE /\ hung = FALSE /\ clean = TRUE /\ streak = 0
-----------------------------------------------------------------------------
(* Check: the queries of the monitor plugin.                               *)

\* A vector's first sample, an empty vector, something else, or an error, also
\* for a Prometheus that has not answered in time.
Answers == [kind : {"vector"}, value : Values] \cup [kind : {"NaN", "empty", "other", "error"}]

\* int(v[0].Value), of a value in halves, goes towards zero.
Truncated(value) == IF value >= 0 THEN value \div 2 ELSE -((-value) \div 2)

AsInts(answer) ==
    IF answer.kind = "NaN" THEN NaNAsInt ELSE {Truncated(answer.value)}

Within(query, n) ==
    /\ query.min # NoLimit => n >= query.min
    /\ query.max # NoLimit => n <= query.max

\* Mutant: an empty vector is not a failure.
ResultsIfAny(query, answer) ==
    IF query.text = "empty" \/ answer.kind = "error" THEN {"error"}
    ELSE IF answer.kind = "empty" THEN {"success"}
    ELSE IF answer.kind = "other" THEN {"noMetrics"}
    ELSE { IF Within(query, n) THEN "success" ELSE "failed" : n \in AsInts(answer) }

\* What one query leads to; "success" goes on to the next.
Results(query, answer) ==
    IF query.text = "empty" \/ answer.kind = "error" THEN {"error"}
    ELSE IF answer.kind \in {"empty", "other"} THEN {"noMetrics"}
    ELSE { IF Within(query, n) THEN "success" ELSE "failed" : n \in AsInts(answer) }

\* Presets are looked up before any query is made.
PresetsExist == \A i \in 1..Len(config) : config[i].text # "unknown"

\* What a user who sets a limit may expect of a success: a number less than one
\* beyond it.  That NaN passes a query without a minimum is what the code does.
Tolerable(query, answer) ==
    \/ answer.kind = "NaN" /\ query.min = NoLimit
    \/ /\ answer.kind = "vector"
       /\ query.min # NoLimit => answer.value > 2 * query.min - 2
       /\ query.max # NoLimit => answer.value < 2 * query.max + 2
-----------------------------------------------------------------------------
Begins(next) == stage' = next /\ asked' = 0 /\ clean' = TRUE

\* doMonitor: the test, when there is one, and then the strategy.
Monitor ==
    /\ passes' = 0 /\ fails' = 0 /\ late' = FALSE
    /\ Begins(IF HasTest THEN "request" ELSE "execute")

Begin ==
    /\ stage = "off"
    /\ Monitor
    /\ UNCHANGED <<traffic, hung, streak>>

\* The test's request has neither the context nor a timeout of its own; its
\* status code is ignored.
Request ==
    /\ stage = "request" /\ ~hung
    /\ \/ stage' = "test" /\ UNCHANGED hung
       \/ stage' = "unhealthy" /\ UNCHANGED hung
       \/ hung' = TRUE /\ UNCHANGED stage
    /\ UNCHANGED <<asked, passes, fails, traffic, late, clean, streak>>

TimeoutPasses ==
    /\ stage \in {"request", "test"} /\ ~late
    /\ late' = TRUE
    /\ UNCHANGED <<config, stage, asked, passes, fails, traffic, hung, clean, streak>>

\* Mutant: a failure does not reset the count.
KeepsPasses(result) == IF result = "success" THEN passes + 1 ELSE passes

Counted(result) == IF result = "success" THEN passes + 1 ELSE 0

\* Mutant: the timeout is not looked at.
NeverLate(count) ==
    IF count >= RequiredTestPasses THEN "execute" ELSE "request"

\* Mutant: one check more than required.
OneMore(count) ==
    IF late THEN "unhealthy"
    ELSE IF count > RequiredTestPasses THEN "execute" ELSE "request"

\* Execute of the test, after a check.
AfterTest(count) ==
    IF late THEN "unhealthy"
    ELSE IF count >= RequiredTestPasses THEN "execute" ELSE "request"

TestChecked(result) ==
    LET next == AfterTest(Counted(result))
    IN  /\ Begins(next)
        /\ passes' = IF next = "request" THEN Counted(result) ELSE 0
        /\ late' = (late /\ next = "request")
        /\ UNCHANGED <<fails, traffic, hung>>

\* Execute of the strategy, after a check.
StrategyChecked(result) ==
    IF result = "success"
    THEN IF traffic + TrafficStep >= MaxTraffic
         THEN Begins("complete") /\ traffic' = -1 /\ UNCHANGED <<passes, fails, late, hung>>
         ELSE Monitor /\ traffic' = traffic + TrafficStep /\ UNCHANGED hung
    ELSE /\ fails' = fails + 1
         /\ IF fails + 1 >= ErrorThreshold
            THEN Begins("unhealthy") /\ traffic' = -1
            ELSE Begins("sleep") /\ UNCHANGED traffic
         /\ UNCHANGED <<passes, late, hung>>

Checked(result, wasClean) ==
    /\ streak' = IF ~wasClean THEN 0
                 ELSE IF streak < RequiredTestPasses THEN streak + 1 ELSE streak
    /\ IF stage = "test" THEN TestChecked(result) ELSE StrategyChecked(result)

\* One query; the first that is not a success decides.
Ask ==
    /\ stage \in {"test", "check"}
    /\ IF ~PresetsExist THEN Checked("error", FALSE)
       ELSE IF asked = Len(config) THEN Checked("success", clean)
       ELSE \E answer \in Answers :
               LET query == config[asked + 1]
               IN  \E result \in Results(query, answer) :
                      IF result = "success"
                      THEN /\ asked' = asked + 1
                           /\ clean' = (clean /\ Tolerable(query, answer))
                           /\ UNCHANGED <<stage, passes, fails, traffic, late, hung, streak>>
                      ELSE Checked(result, FALSE)

FirstTraffic == IF InitialTraffic = 0 THEN TrafficStep ELSE InitialTraffic

\* The first Execute of a rollout only sets the initial traffic.
Execute ==
    /\ stage = "execute"
    /\ IF traffic = -1
       THEN Monitor /\ traffic' = FirstTraffic
       ELSE Begins("sleep") /\ UNCHANGED <<passes, fails, traffic, late>>
    /\ UNCHANGED <<hung, streak>>

Sleep ==
    /\ stage = "sleep"
    /\ Begins("check")
    /\ UNCHANGED <<passes, fails, traffic, late, hung, streak>>

JudgementStep ==
    /\ Begin \/ Request \/ TimeoutPasses \/ Ask \/ Execute \/ Sleep
    /\ UNCHANGED config

Verdict == stage \in {"complete", "unhealthy"}

\* The verdict is acted on, and the next release begins anew.
Acted ==
    /\ Verdict
    /\ Begins("off")
    /\ fails' = 0 /\ streak' = 0
    /\ UNCHANGED <<config, passes, traffic, late, hung>>
-----------------------------------------------------------------------------
(* Properties.                                                             *)

\* plugin.go of httptest: "RequiredTestPasses is the number of continuous
\* successful test checks that must be attained": when the test has passed, every
\* query of that many checks in a row had a tolerable answer, whichever of them
\* came late, failed or returned nothing before.
PassesEarned ==
    [][ stage = "test" /\ stage' = "execute" => streak' = RequiredTestPasses ]_judgementVars

\* Traffic is moved to the candidate, and the candidate promoted, only on a check
\* whose every query had a tolerable answer.
StepsEarned ==
    [][ stage = "check" /\ (stage' = "complete" \/ traffic' > traffic)
        => streak' >= 1 ]_judgementVars

\* plugin.go of httptest: "Timeout specifies the maximum duration the tests will
\* run for": a trial comes to a verdict, however checks alternate between success
\* and failure; but not when the service does not answer the test's request.
Decides == stage \notin {"off", "complete", "unhealthy"} ~> Verdict \/ hung

=============================================================================
