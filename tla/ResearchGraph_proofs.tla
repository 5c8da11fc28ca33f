------------------------ MODULE ResearchGraph_proofs ------------------------
(* Proofs about ResearchGraph, for every allowlist, every picker and       *)
(* every number of research rounds.                                        *)
EXTENDS ResearchGraph, WellFoundedInduction, TLAPS

(***************************************************************************)
(* The number of super-steps.                                              *)
(***************************************************************************)

CounterTypes ==
    /\ depth \in Nat /\ depth <= MaxDepth
    /\ revision \in Nat /\ revision <= 2
    /\ steps \in Nat

(* How often the loops can have been taken when a node runs, and how many  *)
(* super-steps that makes: three per round of research, up to four per     *)
(* round of review.                                                        *)
Progress ==
    /\ node = "data_gatherer" => steps = 0 /\ depth = 0 /\ revision = 0
    /\ node = "debate" => steps <= 1 + 3 * depth /\ revision = 0
    /\ node = "arbiter" => steps <= 2 + 3 * depth /\ revision = 0
    /\ node = "deep_research" => steps <= 3 + 3 * depth /\ revision = 0 /\ depth < MaxDepth
    /\ node = "news_scraper" => steps <= 3 + 3 * depth /\ revision = 0
    /\ node = "deep_filing_analysis" => steps <= 4 + 3 * depth /\ revision = 0
    /\ node = "agency_researcher" => steps <= 5 + 3 * depth /\ revision = 0
    /\ node = "trade_picker" => steps <= 6 + 3 * depth + 4 * revision /\ revision <= 1
    /\ node = "market_gate" => steps <= 7 + 3 * depth + 4 * revision /\ revision <= 1
    /\ node = "python_validate" => steps <= 8 + 3 * depth + 4 * revision /\ revision <= 1
    /\ node = "llm_reviewer" => steps <= 9 + 3 * depth + 4 * revision /\ revision <= 1
    /\ node = "degrade" => steps <= 14 + 3 * depth
    /\ node = "final_formatter" => steps <= 15 + 3 * depth
    /\ steps <= 16 + 3 * depth

StepsInv == CounterTypes /\ Progress

(* A step moves on to the node named, unless the executor aborts the run.  *)
LEMMA GotoMoves ==
    ASSUME NEW n, Goto(n), steps \in Nat
    PROVE  steps' = steps + 1 /\ steps' \in Nat /\ (node' = n \/ node' = "aborted")
BY DEF Goto

LEMMA StepsInvStep == StepsInv /\ [Next]_vars => StepsInv'
<1> SUFFICES ASSUME StepsInv, [Next]_vars PROVE StepsInv'
    OBVIOUS
<1> USE GraphConstants
<1>1. CASE DataGatherer
  <2>1. steps' = steps + 1 /\ steps' \in Nat /\ (node' = "debate" \/ node' = "aborted")
    BY <1>1, GotoMoves DEF DataGatherer, StepsInv, CounterTypes
  <2> QED
    BY <1>1, <2>1 DEF DataGatherer, StepsInv, CounterTypes, Progress, research, review
<1>2. CASE Debate
  <2>1. steps' = steps + 1 /\ steps' \in Nat /\ (node' = "arbiter" \/ node' = "aborted")
    BY <1>2, GotoMoves DEF Debate, StepsInv, CounterTypes
  <2> QED
    BY <1>2, <2>1 DEF Debate, StepsInv, CounterTypes, Progress, research, review
<1>3. CASE Arbiter
  <2>1. PICK dive \in BOOLEAN :
          /\ needsDive' = (dive /\ depth < MaxDepth)
          /\ Goto(IF needsDive' THEN "deep_research" ELSE "news_scraper")
    BY <1>3 DEF Arbiter
  <2>2. /\ steps' = steps + 1 /\ steps' \in Nat
        /\ \/ node' = "deep_research" /\ depth < MaxDepth
           \/ node' = "news_scraper"
           \/ node' = "aborted"
    BY <2>1, GotoMoves DEF StepsInv, CounterTypes
  <2> QED
    BY <1>3, <2>2 DEF Arbiter, StepsInv, CounterTypes, Progress, review
<1>4. CASE DeepResearch
  <2>1. steps' = steps + 1 /\ steps' \in Nat /\ (node' = "debate" \/ node' = "aborted")
    BY <1>4, GotoMoves DEF DeepResearch, StepsInv, CounterTypes
  <2> QED
    BY <1>4, <2>1 DEF DeepResearch, StepsInv, CounterTypes, Progress, review
<1>5. CASE Enrich
  <2>1. /\ steps' = steps + 1 /\ steps' \in Nat
        /\ \/ node = "news_scraper" /\ node' \in {"deep_filing_analysis", "aborted"}
           \/ node = "deep_filing_analysis" /\ node' \in {"agency_researcher", "aborted"}
           \/ node = "agency_researcher" /\ node' \in {"trade_picker", "aborted"}
    BY <1>5, GotoMoves DEF Enrich, StepsInv, CounterTypes
  <2> QED
    BY <1>5, <2>1 DEF Enrich, StepsInv, CounterTypes, Progress, research, review
<1>6. CASE TradePicker
  <2>1. steps' = steps + 1 /\ steps' \in Nat /\ (node' = "market_gate" \/ node' = "aborted")
    BY <1>6, GotoMoves DEF TradePicker, StepsInv, CounterTypes
  <2> QED
    BY <1>6, <2>1 DEF TradePicker, StepsInv, CounterTypes, Progress, research
<1>7. CASE MarketGate
  <2>1. steps' = steps + 1 /\ steps' \in Nat /\ (node' = "python_validate" \/ node' = "aborted")
    BY <1>7, GotoMoves DEF MarketGate, StepsInv, CounterTypes
  <2> QED
    BY <1>7, <2>1 DEF MarketGate, StepsInv, CounterTypes, Progress, research
<1>8. CASE PythonValidate
  <2>1. revision' \in {revision, revision + 1} /\ (issues' => revision' = revision + 1)
    BY <1>8 DEF PythonValidate
  <2>2. /\ steps' = steps + 1 /\ steps' \in Nat
        /\ \/ node' = "llm_reviewer" /\ ~ issues'
           \/ node' = "trade_picker" /\ issues' /\ revision' < 2
           \/ node' = "degrade"
           \/ node' = "aborted"
    BY <1>8, GotoMoves DEF PythonValidate, RouteAfterReview, StepsInv, CounterTypes
  <2>3. ~ issues' => revision' = revision
    BY <1>8 DEF PythonValidate
  <2>4. node = "python_validate" /\ depth' = depth
    BY <1>8 DEF PythonValidate, research
  <2>5. /\ depth \in Nat /\ depth <= MaxDepth /\ revision \in Nat /\ revision <= 1
        /\ steps \in Nat /\ steps <= 8 + 3 * depth + 4 * revision
    BY <2>4 DEF StepsInv, CounterTypes, Progress
  <2>6. CounterTypes'
    BY <2>1, <2>2, <2>4, <2>5 DEF CounterTypes
  <2>7. Progress'
    <3>1. CASE node' = "llm_reviewer" /\ ~ issues'
      BY <3>1, <2>2, <2>3, <2>4, <2>5 DEF Progress
    <3>2. CASE node' = "trade_picker" /\ issues' /\ revision' < 2
      BY <3>2, <2>1, <2>2, <2>4, <2>5 DEF Progress
    <3>3. CASE node' = "degrade"
      BY <3>3, <2>2, <2>4, <2>5 DEF Progress
    <3>4. CASE node' = "aborted"
      BY <3>4, <2>2, <2>4, <2>5 DEF Progress
    <3> QED
      BY <2>2, <3>1, <3>2, <3>3, <3>4
  <2> QED
    BY <2>6, <2>7 DEF StepsInv
<1>9. CASE LLMReviewer
  <2>1. revision' \in {revision, revision + 1} /\ (issues' => revision' = revision + 1)
    <3>1. CASE issues' = FALSE /\ UNCHANGED revision
      BY <3>1
    <3>2. CASE \E v \in Verdicts : /\ issues' = SentBack(v)
                                  /\ revision' = IF Counted(v) THEN revision + 1 ELSE revision
      <4>1. PICK v \in Verdicts : /\ issues' = SentBack(v)
                                 /\ revision' = IF Counted(v) THEN revision + 1 ELSE revision
        BY <3>2
      <4>2. SentBack(v) => Counted(v)
        BY DEF Counted
      <4> QED
        BY <4>1, <4>2
    <3> QED
      BY <1>9, <3>1, <3>2 DEF LLMReviewer
  <2>2. /\ steps' = steps + 1 /\ steps' \in Nat
        /\ \/ node' = "final_formatter"
           \/ node' = "trade_picker" /\ issues' /\ revision' < 2
           \/ node' = "degrade" /\ issues'
           \/ node' = "aborted"
    BY <1>9, GotoMoves DEF LLMReviewer, RouteAfterReview, StepsInv, CounterTypes
  <2>3. node = "llm_reviewer" /\ depth' = depth
    BY <1>9 DEF LLMReviewer, research
  <2>4. /\ depth \in Nat /\ depth <= MaxDepth /\ revision \in Nat /\ revision <= 1
        /\ steps \in Nat /\ steps <= 9 + 3 * depth + 4 * revision
    BY <2>3 DEF StepsInv, CounterTypes, Progress
  <2>5. CounterTypes'
    BY <2>1, <2>2, <2>3, <2>4 DEF CounterTypes
  <2>6. Progress'
    <3>1. CASE node' = "final_formatter"
      BY <3>1, <2>2, <2>3, <2>4 DEF Progress
    <3>2. CASE node' = "trade_picker" /\ issues' /\ revision' < 2
      BY <3>2, <2>1, <2>2, <2>3, <2>4 DEF Progress
    <3>3. CASE node' = "degrade"
      BY <3>3, <2>2, <2>3, <2>4 DEF Progress
    <3>4. CASE node' = "aborted"
      BY <3>4, <2>2, <2>3, <2>4 DEF Progress
    <3> QED
      BY <2>2, <3>1, <3>2, <3>3, <3>4
  <2> QED
    BY <2>5, <2>6 DEF StepsInv
<1>10. CASE Degrade
  <2>1. steps' = steps + 1 /\ steps' \in Nat /\ (node' = "final_formatter" \/ node' = "aborted")
    BY <1>10, GotoMoves DEF Degrade, StepsInv, CounterTypes
  <2> QED
    BY <1>10, <2>1 DEF Degrade, StepsInv, CounterTypes, Progress, research
<1>11. CASE FinalFormatter
  <2>1. steps' = steps + 1 /\ steps' \in Nat /\ (node' = "end" \/ node' = "aborted")
    BY <1>11, GotoMoves DEF FinalFormatter, StepsInv, CounterTypes
  <2> QED
    BY <1>11, <2>1 DEF FinalFormatter, StepsInv, CounterTypes, Progress, review
<1>12. CASE NodeRaises
  <2>1. steps' = steps + 1 /\ steps' \in Nat /\ (node' = "failed" \/ node' = "aborted")
    BY <1>12, GotoMoves DEF NodeRaises, StepsInv, CounterTypes
  <2> QED
    BY <1>12, <2>1 DEF NodeRaises, StepsInv, CounterTypes, Progress, research, review
<1>13. CASE UNCHANGED vars
    BY <1>13 DEF vars, StepsInv, CounterTypes, Progress
<1> QED
    BY <1>1, <1>2, <1>3, <1>4, <1>5, <1>6, <1>7, <1>8, <1>9, <1>10, <1>11, <1>12, <1>13
    DEF Next

(* The loops of the graph are bounded: at most three super-steps per round *)
(* of research and sixteen more, whatever the models answer.               *)
THEOREM StepsAreBounded == Spec => []StepsBounded
<1>1. Init => StepsInv
    BY GraphConstants DEF Init, StepsInv, CounterTypes, Progress
<1>2. StepsInv => StepsBounded
    BY GraphConstants DEF StepsInv, CounterTypes, Progress, StepsBounded
<1> QED
    BY <1>1, StepsInvStep, <1>2, PTL DEF Spec

(***************************************************************************)
(* Fail closed.                                                            *)
(***************************************************************************)

(* Verdicts are given about rounds that were played, once per round.       *)
VerdictsInv ==
    /\ round \in Nat
    /\ verdicts \subseteq Nat \X Verdicts
    /\ \A p \in verdicts : p[1] <= round
    /\ node \in {"market_gate", "python_validate", "llm_reviewer"} =>
         \A p \in verdicts : p[1] < round

(* What IntentsWereReviewed says of the stored intents, of any trades.     *)
Reviewed(trades) ==
    /\ WellFormed(trades)
    /\ \E v \in {"passed", "bare_rejection"} \union
                (IF flags.failOpen THEN {"error"} ELSE {}) : <<round, v>> \in verdicts
    /\ <<round, "rejected">> \notin verdicts

(* Only reviewed trades reach the formatter in trade_watch_final.          *)
WatchInv ==
    /\ node = "llm_reviewer" /\ flags.reviewer => WellFormed(proposed) /\ watch = proposed
    /\ node = "final_formatter" /\ flags.reviewer /\ ~ degraded /\ watch # << >>
         => Reviewed(watch)

IntentsInv ==
    /\ intents # << >> => node \in Done
    /\ flags.reviewer /\ intents # << >> => Reviewed(intents)

ReviewInv == VerdictsInv /\ WatchInv /\ IntentsInv

(* The nodes before the reviewer, and those that cannot reach the          *)
(* formatter, leave all of it alone.                                       *)
LEMMA QuietStep ==
    ASSUME ReviewInv, node \notin Done,
           UNCHANGED <<flags, round, verdicts, watch, degraded, intents>>,
           node' \notin {"market_gate", "python_validate", "llm_reviewer", "final_formatter"}
    PROVE  ReviewInv'
<1>1. VerdictsInv'
  BY DEF ReviewInv, VerdictsInv
<1>2. WatchInv'
  BY DEF WatchInv
<1>3. intents' = << >>
  BY DEF ReviewInv, IntentsInv
<1> QED
  BY <1>1, <1>2, <1>3 DEF ReviewInv, IntentsInv

LEMMA ReviewInvStep == ReviewInv /\ [Next]_vars => ReviewInv'
<1> SUFFICES ASSUME ReviewInv, [Next]_vars PROVE ReviewInv'
    OBVIOUS
<1>1. CASE DataGatherer \/ Debate \/ Arbiter \/ DeepResearch \/ Enrich \/ NodeRaises
  <2>1. UNCHANGED <<flags, round, verdicts, watch, degraded, intents>> /\ node \notin Done
    BY <1>1 DEF DataGatherer, Debate, Arbiter, DeepResearch, Enrich, NodeRaises, review,
                output, Done
  <2>2. node' \notin {"market_gate", "python_validate", "llm_reviewer", "final_formatter"}
    BY <1>1 DEF DataGatherer, Debate, Arbiter, DeepResearch, Enrich, NodeRaises, Goto
  <2> QED
    BY <2>1, <2>2, QuietStep
<1>2. CASE TradePicker
  <2>1. /\ node = "trade_picker" /\ node' \in {"market_gate", "aborted"}
        /\ round' = round + 1
        /\ UNCHANGED <<flags, verdicts, watch, degraded, intents>>
    BY <1>2 DEF TradePicker, Goto, output
  <2>2. VerdictsInv'
    <3>1. \A p \in verdicts : p[1] \in Nat /\ p[1] <= round
      BY DEF ReviewInv, VerdictsInv
    <3>2. \A p \in verdicts : p[1] < round + 1
      BY <3>1 DEF ReviewInv, VerdictsInv
    <3> QED
      BY <2>1, <3>1, <3>2 DEF ReviewInv, VerdictsInv
  <2>3. intents' = << >>
    BY <2>1 DEF ReviewInv, IntentsInv, Done
  <2> QED
    BY <2>1, <2>2, <2>3 DEF ReviewInv, WatchInv, IntentsInv
<1>3. CASE MarketGate
  <2>1. /\ node = "market_gate" /\ node' \in {"python_validate", "aborted"}
        /\ UNCHANGED <<flags, round, verdicts, watch, degraded, intents>>
    BY <1>3 DEF MarketGate, Goto, output
  <2>2. VerdictsInv'
    BY <2>1 DEF ReviewInv, VerdictsInv
  <2>3. intents' = << >>
    BY <2>1 DEF ReviewInv, IntentsInv, Done
  <2> QED
    BY <2>1, <2>2, <2>3 DEF ReviewInv, WatchInv, IntentsInv
<1>4. CASE PythonValidate
  <2>1. /\ node = "python_validate"
        /\ node' \in {"llm_reviewer", "trade_picker", "degrade", "aborted"}
        /\ UNCHANGED <<flags, proposed, round, verdicts, degraded, intents>>
    BY <1>4 DEF PythonValidate, RouteAfterReview, Goto, output
  <2>2. VerdictsInv'
    BY <2>1 DEF ReviewInv, VerdictsInv
  <2>3. node' = "llm_reviewer" => ~ issues'
    BY <1>4 DEF PythonValidate, RouteAfterReview, Goto
  <2>4. ~ issues' => watch' = proposed /\ (flags.reviewer => WellFormed(proposed))
    BY <1>4 DEF PythonValidate
  <2>5. WellFormed(proposed)' <=> WellFormed(proposed)
    BY <2>1 DEF WellFormed, NoDuplicates
  <2>6. WatchInv'
    BY <2>1, <2>3, <2>4, <2>5 DEF WatchInv
  <2>7. intents' = << >>
    BY <2>1 DEF ReviewInv, IntentsInv, Done
  <2> QED
    BY <2>2, <2>6, <2>7 DEF ReviewInv, IntentsInv
<1>5. CASE LLMReviewer
  <2>1. /\ node = "llm_reviewer"
        /\ node' \in {"final_formatter", "trade_picker", "degrade", "aborted"}
        /\ UNCHANGED <<flags, proposed, round, degraded, intents>>
        /\ node' = "final_formatter" => ~ issues'
    BY <1>5 DEF LLMReviewer, RouteAfterReview, Goto, output
  <2>2. intents' = << >>
    BY <2>1 DEF ReviewInv, IntentsInv, Done
  <2>3. CASE /\ ~ flags.reviewer \/ proposed = << >>
             /\ watch' = proposed /\ UNCHANGED verdicts
    <3>1. VerdictsInv'
      BY <2>1, <2>3 DEF ReviewInv, VerdictsInv
    <3> QED
      BY <2>1, <2>2, <2>3, <3>1 DEF ReviewInv, WatchInv, IntentsInv
  <2>4. CASE \E v \in Verdicts : /\ verdicts' = verdicts \union {<<round, v>>}
                                 /\ issues' = SentBack(v)
                                 /\ watch' = WatchAfter(v)
    <3>1. PICK v \in Verdicts : /\ verdicts' = verdicts \union {<<round, v>>}
                                /\ issues' = SentBack(v)
                                /\ watch' = WatchAfter(v)
      BY <2>4
    <3>2. VerdictsInv'
      <4>1. \A p \in verdicts' : p[1] <= round
        BY <3>1 DEF ReviewInv, VerdictsInv
      <4>2. verdicts' \subseteq Nat \X Verdicts
        BY <3>1 DEF ReviewInv, VerdictsInv
      <4> QED
        BY <2>1, <4>1, <4>2 DEF ReviewInv, VerdictsInv
    <3>3. ASSUME node' = "final_formatter", flags.reviewer
          PROVE  Reviewed(watch)'
      <4>1. ~ SentBack(v)
        BY <3>3, <3>1, <2>1
      <4>2. v \in {"passed", "bare_rejection"} \union
                  (IF flags.failOpen THEN {"error"} ELSE {})
        BY <4>1 DEF SentBack, Verdicts
      <4>3. watch' = proposed /\ WellFormed(proposed)
        BY <2>1, <3>1, <3>3, <4>1, <4>2 DEF WatchAfter, SentBack, ReviewInv, WatchInv
      <4>4. WellFormed(watch)'
        BY <4>3 DEF WellFormed, NoDuplicates
      <4>5. <<round, "rejected">> \notin verdicts'
        <5>1. <<round, "rejected">> \notin verdicts
          BY <2>1 DEF ReviewInv, VerdictsInv
        <5>2. v # "rejected"
          BY <4>1 DEF SentBack
        <5> QED
          BY <3>1, <5>1, <5>2
      <4> QED
        BY <2>1, <3>1, <4>2, <4>4, <4>5 DEF Reviewed
    <3> QED
      BY <2>1, <2>2, <3>2, <3>3 DEF ReviewInv, WatchInv, IntentsInv
  <2> QED
    BY <1>5, <2>3, <2>4 DEF LLMReviewer
<1>6. CASE Degrade
  <2>1. /\ node = "degrade" /\ node' \in {"final_formatter", "aborted"} /\ degraded'
        /\ UNCHANGED <<flags, round, verdicts, intents>>
    BY <1>6 DEF Degrade, Goto, output
  <2>2. VerdictsInv'
    BY <2>1 DEF ReviewInv, VerdictsInv
  <2>3. intents' = << >>
    BY <2>1 DEF ReviewInv, IntentsInv, Done
  <2> QED
    BY <2>1, <2>2, <2>3 DEF ReviewInv, WatchInv, IntentsInv
<1>7. CASE FinalFormatter
  <2>1. /\ node = "final_formatter" /\ node' = "end" /\ intents' \in Persisted
        /\ UNCHANGED <<flags, round, verdicts, watch, degraded>>
    BY <1>7 DEF FinalFormatter, Goto, review, Done
  <2>2. VerdictsInv'
    BY <2>1 DEF ReviewInv, VerdictsInv
  <2>3. intents' # << >> => ~ degraded /\ intents' = watch
    BY <2>1 DEF Persisted
  <2>4. ASSUME flags.reviewer, intents' # << >>
        PROVE  Reviewed(intents)'
    <3>1. Reviewed(watch)
      BY <2>1, <2>3, <2>4 DEF ReviewInv, WatchInv
    <3>2. WellFormed(intents)'
      BY <3>1, <2>3, <2>4 DEF Reviewed, WellFormed, NoDuplicates
    <3> QED
      BY <2>1, <3>1, <3>2 DEF Reviewed
  <2> QED
    BY <2>1, <2>2, <2>4 DEF ReviewInv, WatchInv, IntentsInv, Done
<1>8. CASE UNCHANGED vars
  BY <1>8 DEF vars, ReviewInv, VerdictsInv, WatchInv, IntentsInv, Reviewed, WellFormed,
              NoDuplicates
<1> QED
    BY <1>1, <1>2, <1>3, <1>4, <1>5, <1>6, <1>7, <1>8 DEF Next

(* With the reviewer on nothing is stored that it has not seen, whatever   *)
(* it answers, in whatever order it fails and recovers.                    *)
THEOREM StoredIntentsWereReviewed == Spec => []IntentsWereReviewed
<1>1. Init => ReviewInv
    BY DEF Init, ReviewInv, VerdictsInv, WatchInv, IntentsInv
<1>2. ReviewInv => IntentsWereReviewed
    BY DEF ReviewInv, IntentsInv, Reviewed, IntentsWereReviewed
<1> QED
    BY <1>1, ReviewInvStep, <1>2, PTL DEF Spec

(***************************************************************************)
(* The gate.                                                               *)
(***************************************************************************)

(* Induction, for a set of numbers: the least number outside of it.        *)
Below == OpToRel(<, Nat)

LEMMA InAllNumbers ==
    ASSUME NEW S, 0 \in S, \A n \in Nat : n \in S => n + 1 \in S
    PROVE  \A n \in Nat : n \in S
<1>1. SUFFICES ASSUME Nat \ S # {} PROVE FALSE
    OBVIOUS
<1>2. IsWellFoundedOn(Below, Nat)
    BY NatLessThanWellFounded, Zenon DEF Below
<1>3. \E x \in Nat \ S : \A y \in Nat \ S : ~ (<<y, x>> \in Below)
  <2>1. Nat \ S \subseteq Nat
    OBVIOUS
  <2> QED
    BY <1>1, <1>2, <2>1, WFMin
<1>4. PICK x \in Nat \ S : \A y \in Nat \ S : ~ (y < x)
  <2>1. \A a, b \in Nat : <<a, b>> \in Below <=> a < b
    BY DEF Below, OpToRel
  <2> QED
    BY <1>3, <2>1
<1>5. x - 1 \in Nat /\ x - 1 < x /\ (x - 1) + 1 = x
    BY <1>4
<1> QED
    BY <1>4, <1>5

(* What Gating is defined by.                                              *)
GatesOf(trades, n, kept) ==
    kept = [i \in 0..n |-> IF i = 0 THEN << >> ELSE Gate(kept[i - 1], trades[i])]

LEMMA GatingDefined ==
    ASSUME NEW trades, Len(trades) \in Nat
    PROVE  GatesOf(trades, Len(trades), Gating(trades))
<1> DEFINE S == {n \in Nat : \E kept : GatesOf(trades, n, kept)}
<1>1. 0 \in S
  <2>1. GatesOf(trades, 0, [i \in 0..0 |-> << >>])
    BY DEF GatesOf
  <2> QED
    BY <2>1
<1>2. ASSUME NEW n \in Nat, n \in S PROVE n + 1 \in S
  <2>1. PICK kept : GatesOf(trades, n, kept)
    BY <1>2
  <2> DEFINE more == [i \in 0..(n + 1) |->
                        IF i = n + 1 THEN Gate(kept[n], trades[n + 1]) ELSE kept[i]]
             next(i) == IF i = 0 THEN << >> ELSE Gate(more[i - 1], trades[i])
  <2>2. ASSUME NEW i \in 0..(n + 1) PROVE more[i] = next(i)
    <3>1. CASE i = n + 1
      <4>1. i - 1 = n /\ n \in 0..(n + 1) /\ n # n + 1 /\ i # 0
        BY <3>1
      <4>2. more[i - 1] = kept[n]
        BY <4>1
      <4> QED
        BY <3>1, <4>1, <4>2
    <3>2. CASE i # n + 1 /\ i # 0
      <4>1. i \in 0..n /\ i - 1 \in 0..(n + 1) /\ i - 1 # n + 1
        BY <3>2
      <4>2. more[i] = kept[i] /\ more[i - 1] = kept[i - 1]
        BY <3>2, <4>1
      <4>3. kept[i] = Gate(kept[i - 1], trades[i])
        BY <2>1, <3>2, <4>1 DEF GatesOf
      <4> QED
        BY <3>2, <4>2, <4>3
    <3>3. CASE i # n + 1 /\ i = 0
      <4>1. 0 \in 0..n
        OBVIOUS
      <4>2. kept[0] = << >>
        BY <2>1, <4>1 DEF GatesOf
      <4> QED
        BY <3>3, <4>2
    <3> QED
      BY <3>1, <3>2, <3>3
  <2>3. more = [i \in 0..(n + 1) |-> next(i)]
    <3>1. DOMAIN more = 0..(n + 1)
      OBVIOUS
    <3>2. more = [i \in 0..(n + 1) |-> more[i]]
      OBVIOUS
    <3> HIDE DEF more, next
    <3> QED
      BY <2>2, <3>2
  <2>4. GatesOf(trades, n + 1, more)
    BY <2>3 DEF GatesOf
  <2> HIDE DEF more
  <2> QED
    BY <2>4
<1>3. \A n \in Nat : n \in S
  <2> HIDE DEF S
  <2> QED
    BY <1>1, <1>2, InAllNumbers
<1>4. \E kept : GatesOf(trades, Len(trades), kept)
    BY <1>3
<1> QED
    BY <1>4, Zenon DEF Gating, GatesOf

(* What is let through is of the same round, listed and normalized.        *)
OfRound(trades, r) == \A i \in 1..Len(trades) : trades[i].round = r
Normalized(trades) == \A i \in 1..Len(trades) : trades[i].asset \in Symbols

LEMMA GatedTrades ==
    ASSUME NEW r \in Nat, NEW trades \in Seq(Trade), OfRound(trades, r)
    PROVE  /\ Gated(trades) \in Seq(Trade)
           /\ OfRound(Gated(trades), r) /\ Normalized(Gated(trades))
<1> DEFINE kept == Gating(trades)
           Good(s) == s \in Seq(Trade) /\ OfRound(s, r) /\ Normalized(s)
           S == {n \in Nat : n <= Len(trades) => Good(kept[n])}
<1>0. Len(trades) \in Nat
    OBVIOUS
<1>1. GatesOf(trades, Len(trades), kept)
    BY <1>0, GatingDefined
<1>2. /\ kept[0] = << >>
      /\ \A i \in 1..Len(trades) : kept[i] = Gate(kept[i - 1], trades[i])
  <2>1. \A i \in 0..Len(trades) : kept[i] = IF i = 0 THEN << >> ELSE Gate(kept[i - 1], trades[i])
    BY <1>1 DEF GatesOf
  <2> QED
    BY <1>0, <2>1
<1> HIDE DEF kept
<1>3. ASSUME NEW s, Good(s), NEW t \in Trade, t.round = r
      PROVE  Good(Gate(s, t))
  <2>1. CASE t.asset \in Listed
    <3> DEFINE u == [t EXCEPT !.asset = Base[t.asset]]
    <3>1. u \in Trade /\ u.round = r /\ u.asset \in Symbols
      <4>1. Base[t.asset] \in Symbols
        BY <2>1 DEF Symbols
      <4>2. Base[t.asset] \in Names
        BY <4>1, GraphConstants
      <4> QED
        BY <1>3, <4>1, <4>2 DEF Trade
    <3>2. Gate(s, t) = Append(s, u)
      BY <2>1 DEF Gate
    <3> HIDE DEF u
    <3>3. Append(s, u) \in Seq(Trade) /\ Len(Append(s, u)) = Len(s) + 1 /\ Len(s) \in Nat
      BY <1>3, <3>1
    <3>4. ASSUME NEW i \in 1..(Len(s) + 1)
          PROVE  Append(s, u)[i].round = r /\ Append(s, u)[i].asset \in Symbols
      <4>1. CASE i = Len(s) + 1
        <5>1. Append(s, u)[i] = u
          BY <1>3, <4>1
        <5> QED
          BY <3>1, <5>1
      <4>2. CASE i # Len(s) + 1
        <5>1. i \in 1..Len(s)
          BY <3>3, <4>2
        <5>2. Append(s, u)[i] = s[i]
          BY <1>3, <5>1
        <5> QED
          BY <1>3, <5>1, <5>2 DEF OfRound, Normalized
      <4> QED
        BY <4>1, <4>2
    <3> QED
      BY <3>2, <3>3, <3>4 DEF OfRound, Normalized
  <2>2. CASE t.asset \notin Listed
    BY <1>3, <2>2 DEF Gate
  <2> QED
    BY <2>1, <2>2
<1>4. Good(<< >>)
    BY DEF OfRound, Normalized
<1> HIDE DEF Good
<1>5. 0 \in S
    BY <1>2, <1>4
<1>6. ASSUME NEW n \in Nat, n \in S PROVE n + 1 \in S
  <2>1. SUFFICES ASSUME n + 1 <= Len(trades) PROVE Good(kept[n + 1])
    OBVIOUS
  <2>2. n <= Len(trades) /\ n + 1 \in 1..Len(trades) /\ (n + 1) - 1 = n
    BY <1>0, <2>1
  <2>3. Good(kept[n])
    BY <1>6, <2>2
  <2>4. trades[n + 1] \in Trade /\ trades[n + 1].round = r
    BY <2>2 DEF OfRound
  <2>5. kept[n + 1] = Gate(kept[n], trades[n + 1])
    BY <1>2, <2>2
  <2> QED
    BY <1>3, <2>3, <2>4, <2>5
<1>7. Len(trades) \in S
  <2> HIDE DEF S
  <2> QED
    BY <1>0, <1>5, <1>6, InAllNumbers
<1>8. Good(kept[Len(trades)])
    BY <1>0, <1>7
<1> QED
    BY <1>8 DEF Good, Gated, kept
(***************************************************************************)
(* What is stored is the last pick.                                        *)
(***************************************************************************)
Current(trades) ==
    trades \in Seq(Trade) /\ OfRound(trades, round) /\ Normalized(trades)

(* The picks are the current round's from the picker on, and listed from   *)
(* the gate on; trade_watch_final may be an earlier round's until the      *)
(* reviewer is reached.                                                    *)
PickInv ==
    /\ round \in Nat
    /\ node = "market_gate" => proposed \in Seq(Trade) /\ OfRound(proposed, round)
    /\ node \in {"python_validate", "llm_reviewer"} => Current(proposed)
    /\ node = "llm_reviewer" => watch = proposed
    /\ node = "final_formatter" /\ ~ degraded => Current(watch)
    /\ intents # << >> => node \in Done /\ Current(intents)

LEMMA PickInvStep == PickInv /\ [Next]_vars => PickInv'
<1> SUFFICES ASSUME PickInv, [Next]_vars PROVE PickInv'
    OBVIOUS
<1> USE DEF Done
<1>1. CASE DataGatherer \/ Debate \/ Arbiter \/ DeepResearch \/ Enrich \/ NodeRaises
  <2>1. UNCHANGED <<round, intents>> /\ node \notin Done
    BY <1>1 DEF DataGatherer, Debate, Arbiter, DeepResearch, Enrich, NodeRaises, review, output
  <2>2. node' \notin {"market_gate", "python_validate", "llm_reviewer", "final_formatter"}
    BY <1>1 DEF DataGatherer, Debate, Arbiter, DeepResearch, Enrich, NodeRaises, Goto
  <2> QED
    BY <2>1, <2>2 DEF PickInv
<1>2. CASE TradePicker
  <2>1. /\ node = "trade_picker" /\ node' \in {"market_gate", "aborted"}
        /\ round' = round + 1 /\ proposed' \in Picks(round + 1) /\ intents' = intents
    BY <1>2 DEF TradePicker, Goto, output
  <2>2. proposed' \in Seq(Trade) /\ OfRound(proposed', round')
    <3>1. PICK n \in 0..MaxPicks :
             proposed' \in [1..n -> [asset : Names, thesis : BOOLEAN, round : {round + 1}]]
      BY <2>1 DEF Picks
    <3>2. round + 1 \in Nat /\ n \in Nat
      BY GraphConstants DEF PickInv
    <3>3. proposed' \in [1..n -> Trade]
      BY <3>1, <3>2 DEF Trade
    <3>4. proposed' \in Seq(Trade) /\ Len(proposed') = n
      BY <3>2, <3>3
    <3> QED
      BY <2>1, <3>1, <3>4 DEF OfRound
  <2>3. round' \in Nat
    BY <2>1 DEF PickInv
  <2> QED
    BY <2>1, <2>2, <2>3 DEF PickInv
<1>3. CASE MarketGate
  <2>1. /\ node = "market_gate" /\ node' \in {"python_validate", "aborted"}
        /\ round' = round /\ proposed' = Gated(proposed) /\ intents' = intents
    BY <1>3 DEF MarketGate, Goto, output
  <2>2. Gated(proposed) \in Seq(Trade) /\ OfRound(Gated(proposed), round)
        /\ Normalized(Gated(proposed))
    BY <2>1, GatedTrades DEF PickInv
  <2> QED
    BY <2>1, <2>2 DEF PickInv, Current
<1>4. CASE PythonValidate
  <2>1. /\ node = "python_validate"
        /\ node' \in {"llm_reviewer", "trade_picker", "degrade", "aborted"}
        /\ UNCHANGED <<proposed, round, intents>>
    BY <1>4 DEF PythonValidate, RouteAfterReview, Goto, output
  <2>2. node' = "llm_reviewer" => watch' = proposed
    BY <1>4 DEF PythonValidate, RouteAfterReview, Goto
  <2> QED
    BY <2>1, <2>2 DEF PickInv, Current
<1>5. CASE LLMReviewer
  <2>1. /\ node = "llm_reviewer"
        /\ node' \in {"final_formatter", "trade_picker", "degrade", "aborted"}
        /\ UNCHANGED <<round, intents>>
        /\ node' = "final_formatter" => ~ issues'
    BY <1>5 DEF LLMReviewer, RouteAfterReview, Goto, output
  <2>2. watch = proposed /\ Current(proposed)
    BY <2>1 DEF PickInv
  <2>3. node' = "final_formatter" => watch' = proposed
    <3>1. CASE watch' = proposed
      BY <3>1
    <3>2. ASSUME NEW v \in Verdicts, issues' = SentBack(v), watch' = WatchAfter(v)
          PROVE  node' = "final_formatter" => watch' = proposed
      BY <2>1, <2>2, <3>2 DEF WatchAfter, SentBack, Verdicts
    <3> QED
      BY <1>5, <3>1, <3>2 DEF LLMReviewer
  <2> QED
    BY <2>1, <2>2, <2>3 DEF PickInv, Current
<1>6. CASE Degrade
  <2>1. /\ node = "degrade" /\ node' \in {"final_formatter", "aborted"} /\ degraded'
        /\ UNCHANGED <<round, intents>>
    BY <1>6 DEF Degrade, Goto, output
  <2> QED
    BY <2>1 DEF PickInv
<1>7. CASE FinalFormatter
  <2>1. /\ node = "final_formatter" /\ node' = "end" /\ intents' \in Persisted
        /\ UNCHANGED <<round, watch, degraded>>
    BY <1>7 DEF FinalFormatter, Goto, review
  <2>2. intents' # << >> => ~ degraded /\ intents' = watch
    BY <2>1 DEF Persisted
  <2> QED
    BY <2>1, <2>2 DEF PickInv, Current
<1>8. CASE UNCHANGED vars
  BY <1>8 DEF vars, PickInv, Current
<1> QED
    BY <1>1, <1>2, <1>3, <1>4, <1>5, <1>6, <1>7, <1>8 DEF Next

(* Whatever the reviewers send back and however often, what is stored is   *)
(* what the picker said last, listed and under its normalized name: a      *)
(* version that an earlier round left in trade_watch_final never is.       *)
THEOREM StoredIntentsAreLastPick == Spec => []IntentsAreLastPick
<1>1. Init => PickInv
    BY DEF Init, PickInv
<1>2. PickInv => IntentsAreLastPick
    BY DEF PickInv, Current, OfRound, Normalized, IntentsAreLastPick
<1> QED
    BY <1>1, PickInvStep, <1>2, PTL DEF Spec
=============================================================================
