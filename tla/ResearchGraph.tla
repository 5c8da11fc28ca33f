---------------------------- MODULE ResearchGraph ----------------------------
(***************************************************************************)
(* The LangGraph research workflow of one category (graph/graph_crew.py,   *)
(* graph/graph_nodes.py): gather data, let a bull and a bear argue, let an *)
(* arbiter ask for more research, pick trades, gate and review them, and   *)
(* assemble the section.  The proposals that come through are appended to  *)
(* the execution-intent store.                                             *)
(*                                                                         *)
(* What language models say is any value of the schema they must answer    *)
(* in.  Nodes that only enrich the data are steps without a choice.  The   *)
(* graph executor runs super-steps: bull and bear are one, and a run that  *)
(* would need more than recursion_limit of them is aborted.                *)
(***************************************************************************)
EXTENDS Integers, Sequences

CONSTANTS Names,           \* what the trade picker may call an asset
          Listed,          \* names the market gate lets through
          Base,            \* [Listed -> symbols]: BTCUSDT is BTC
          MaxPicks,        \* bound on the picker's answer, for model checking
          MaxDepth,        \* max_research_depth
          RecursionLimit   \* recursion_limit of graph.invoke

Symbols == {Base[n] : n \in Listed}

ASSUME GraphConstants ==
    /\ Listed \subseteq Names
    /\ Base \in [Listed -> Symbols]
    /\ Symbols \subseteq Listed              \* a normalized name is a name
    /\ \A s \in Symbols : Base[s] = s
    /\ MaxPicks \in Nat /\ MaxDepth \in Nat \ {0} /\ RecursionLimit \in Nat

VARIABLES node,       \* the node that runs next
          flags,      \* the environment: reviewer, failOpen, native formatter
          depth,      \* research_depth
          needsDive,  \* needs_deep_dive
          proposed,   \* proposed_trades
          issues,     \* is review_issues non-empty
          revision,   \* revision_count
          watch,      \* trade_watch_final
          degraded,
          steps,      \* super-steps so far
          round,      \* how often the trade picker ran
          verdicts,   \* what the LLM reviewer said: pairs of round and verdict
          report,     \* the trades the section shows (native formatter)
          intents     \* what was appended to the execution-intent store

vars == <<node, flags, depth, needsDive, proposed, issues, revision, watch, degraded,
          steps, round, verdicts, report, intents>>

(* A trade intent: an asset, with or without a thesis, of some round. *)
Trade == [asset : Names, thesis : BOOLEAN, round : Nat]

Picks(r) == UNION {[1..n -> [asset : Names, thesis : BOOLEAN, round : {r}]] :
                   n \in 0..MaxPicks}

Verdicts == {"passed", "rejected", "bare_rejection", "error"}

Done == {"end", "failed"}

Init == /\ node = "data_gatherer"
        /\ flags \in [reviewer : BOOLEAN, failOpen : BOOLEAN, native : BOOLEAN]
        /\ depth = 0 /\ needsDive = FALSE
        /\ proposed = << >> /\ issues = FALSE /\ revision = 0
        /\ watch = << >> /\ degraded = FALSE
        /\ steps = 0 /\ round = 0 /\ verdicts = {}
        /\ report = << >> /\ intents = << >>

(* The super-step after the last one allowed is a GraphRecursionError.     *)
Goto(n) ==
    /\ steps' = steps + 1
    /\ node' = IF steps' < RecursionLimit \/ n \in Done THEN n ELSE "aborted"

research == <<depth, needsDive>>
review   == <<proposed, issues, revision, watch, degraded, round, verdicts>>
output   == <<report, intents>>

(***************************************************************************)
(* The debate.                                                             *)
(***************************************************************************)
DataGatherer ==
    /\ node = "data_gatherer"
    /\ Goto("debate")
    /\ UNCHANGED <<flags, research, review, output>>

(* bull_agent and bear_agent, one super-step. *)
Debate ==
    /\ node = "debate"
    /\ Goto("arbiter")
    /\ UNCHANGED <<flags, research, review, output>>

(* The arbiter asks for more research, but never beyond the hard cap. *)
Arbiter ==
    /\ node = "arbiter"
    /\ \E dive \in BOOLEAN :
          /\ needsDive' = (dive /\ depth < MaxDepth)
          /\ Goto(IF needsDive' THEN "deep_research" ELSE "news_scraper")
    /\ UNCHANGED <<flags, depth, review, output>>

DeepResearch ==
    /\ node = "deep_research"
    /\ depth' = depth + 1
    /\ Goto("debate")
    /\ UNCHANGED <<flags, needsDive, review, output>>

(* news_scraper, deep_filing_analysis and agency_researcher in a row. *)
Enrich ==
    /\ \/ node = "news_scraper" /\ Goto("deep_filing_analysis")
       \/ node = "deep_filing_analysis" /\ Goto("agency_researcher")
       \/ node = "agency_researcher" /\ Goto("trade_picker")
    /\ UNCHANGED <<flags, research, review, output>>

(***************************************************************************)
(* Picking and reviewing.                                                  *)
(***************************************************************************)

(* The picker answers with new intents; switched off, in a risk-off regime *)
(* or on any error the answer is empty.  The issues it was told about are  *)
(* cleared.                                                                *)
TradePicker ==
    /\ node = "trade_picker"
    /\ round' = round + 1
    /\ proposed' \in Picks(round + 1)
    /\ issues' = FALSE
    /\ Goto("market_gate")
    /\ UNCHANGED <<flags, research, revision, watch, degraded, verdicts, output>>

(* A trade that is not listed is dropped, the name of another normalized.  *)
Gate(kept, t) ==
    IF t.asset \in Listed THEN Append(kept, [t EXCEPT !.asset = Base[t.asset]]) ELSE kept

(* What the gate lets through of the first i trades, for every i.          *)
Gating(trades) ==
    LET kept[i \in 0..Len(trades)] == IF i = 0 THEN << >> ELSE Gate(kept[i - 1], trades[i])
    IN  kept

Gated(trades) == Gating(trades)[Len(trades)]

(* Lets everything through when the picker returned a single trade. *)
MarketGate_Mutant_SkipsSingle ==
    /\ node = "market_gate"
    /\ proposed' = IF Len(proposed) < 2 THEN proposed ELSE Gated(proposed)
    /\ Goto("python_validate")
    /\ UNCHANGED <<flags, research, issues, revision, watch, degraded, round, verdicts, output>>

MarketGate ==
    /\ node = "market_gate"
    /\ proposed' = Gated(proposed)
    /\ Goto("python_validate")
    /\ UNCHANGED <<flags, research, issues, revision, watch, degraded, round, verdicts, output>>

NoDuplicates(trades) ==
    \A i, j \in 1..Len(trades) : trades[i].asset = trades[j].asset => i = j

(* What is left of the five checks behind the schema and the gate. *)
WellFormed(trades) ==
    /\ NoDuplicates(trades)
    /\ \A i \in 1..Len(trades) : trades[i].thesis

(* The cap after which the reviewer loop gives up. *)
RouteAfterReview(passed, n) ==
    IF passed THEN n ELSE IF revision' < 2 THEN "trade_picker" ELSE "degrade"

(* Layer 1.  A failing round leaves trade_watch_final as it was. *)
PythonValidate ==
    /\ node = "python_validate"
    /\ IF flags.reviewer /\ ~ WellFormed(proposed)
       THEN /\ issues' = TRUE
            /\ revision' = revision + 1
            /\ UNCHANGED watch
       ELSE /\ issues' = FALSE
            /\ watch' = proposed
            /\ UNCHANGED revision
    /\ Goto(RouteAfterReview(~ issues', "llm_reviewer"))
    /\ UNCHANGED <<flags, research, proposed, degraded, round, verdicts, output>>

(* With no retry left a rejection passes. *)
SentBack_Mutant_LastRoundPasses(v) ==
    \/ v = "rejected" /\ revision = 0
    \/ v = "error" /\ ~ flags.failOpen

(* Does verdict v leave review_issues?  A missing key or an exception      *)
(* ("error") fails closed unless failOpen.  A verdict passed=False may     *)
(* come with no issues at all ("bare_rejection"): review_issues stays      *)
(* empty, which the router takes for a pass.                               *)
SentBack(v) ==
    \/ v = "rejected"
    \/ v = "error" /\ ~ flags.failOpen

(* Forgets to count the rounds in which the reviewer itself failed. *)
Counted_Mutant_NoErrors(v) == v \in {"rejected", "bare_rejection"}

Counted(v) == SentBack(v) \/ v = "bare_rejection"

(* trade_watch_final after the verdict: a rejection leaves it alone. *)
WatchAfter(v) ==
    CASE v \in {"rejected", "bare_rejection"} -> watch
      [] v = "error" /\ ~ flags.failOpen -> << >>
      [] OTHER -> proposed

(* Layer 2.  Without a reviewer, or without trades, it passes. *)
LLMReviewer ==
    /\ node = "llm_reviewer"
    /\ \/ /\ ~ flags.reviewer \/ proposed = << >>
          /\ issues' = FALSE
          /\ watch' = proposed
          /\ UNCHANGED <<revision, verdicts>>
       \/ /\ flags.reviewer /\ proposed # << >>
          /\ \E v \in Verdicts :
                /\ verdicts' = verdicts \union {<<round, v>>}
                /\ issues' = SentBack(v)
                /\ watch' = WatchAfter(v)
                /\ revision' = IF Counted(v) THEN revision + 1 ELSE revision
    /\ Goto(RouteAfterReview(~ issues', "final_formatter"))
    /\ UNCHANGED <<flags, research, proposed, degraded, round, output>>

Degrade ==
    /\ node = "degrade"
    /\ degraded' = TRUE
    /\ watch' = << >>
    /\ Goto("final_formatter")
    /\ UNCHANGED <<flags, research, proposed, issues, revision, round, verdicts, output>>

(* _persist_reviewed_execution_intents; a failing append is only logged.   *)
Persisted == {IF degraded THEN << >> ELSE watch, << >>}

(* The native formatter builds the trade legs from proposed_trades and     *)
(* skips what has no quote (in a risk-off regime all of it); the legacy    *)
(* one lets the crew write the section (its trades are the crew's).        *)
Section(quoted) ==
    LET hasQuote(t) == t.asset \in quoted
    IN  IF flags.native THEN SelectSeq(proposed, hasQuote) ELSE << >>

FinalFormatter ==
    /\ node = "final_formatter"
    /\ \E quoted \in SUBSET Symbols : report' = Section(quoted)
    /\ intents' \in Persisted
    /\ needsDive' = FALSE
    /\ Goto("end")
    /\ UNCHANGED <<flags, depth, review>>

(* A node whose model call is not guarded raises and ends the run. *)
NodeRaises ==
    /\ node \in {"debate", "arbiter", "trade_picker", "final_formatter"}
    /\ Goto("failed")
    /\ UNCHANGED <<flags, research, review, output>>

Next == \/ DataGatherer \/ Debate \/ Arbiter \/ DeepResearch \/ Enrich
        \/ TradePicker \/ MarketGate \/ PythonValidate \/ LLMReviewer \/ Degrade
        \/ FinalFormatter \/ NodeRaises

Spec == Init /\ [][Next]_vars

(* The executor runs the next super-step as long as there is one. *)
FairSpec == Spec /\ WF_vars(Next)

(***************************************************************************)
(* Properties.                                                             *)
(***************************************************************************)
TypeOK ==
    /\ node \in Done \union
         {"aborted", "data_gatherer", "debate", "arbiter", "deep_research", "news_scraper",
          "deep_filing_analysis", "agency_researcher", "trade_picker", "market_gate",
          "python_validate", "llm_reviewer", "degrade", "final_formatter"}
    /\ flags \in [reviewer : BOOLEAN, failOpen : BOOLEAN, native : BOOLEAN]
    /\ depth \in 0..MaxDepth
    /\ needsDive \in BOOLEAN /\ issues \in BOOLEAN /\ degraded \in BOOLEAN
    /\ {proposed, watch, report, intents} \subseteq Seq(Trade)
    /\ revision \in 0..2
    /\ steps \in Nat /\ round \in Nat
    /\ verdicts \subseteq Nat \X Verdicts

(* Debate rounds and review rounds together are bounded, whatever the      *)
(* arbiter and the reviewers say: recursion_limit = 40 is enough for up to *)
(* eight rounds of research (run_langgraph_category asks for two).         *)
StepsBounded == steps <= 3 * MaxDepth + 16

(* What reaches the execution-intent store is what the picker said last,   *)
(* never a version an earlier round left in trade_watch_final, and all of  *)
(* it is listed under its normalized name.                                 *)
IntentsAreLastPick ==
    \A i \in 1..Len(intents) :
        /\ intents[i].round = round
        /\ intents[i].asset \in Symbols

(* Fail closed: with the reviewer on, a stored intent belongs to a round   *)
(* that passed the Python layer, was seen by the LLM reviewer and was not  *)
(* sent back; an error of the reviewer counts as seen only when fail-open  *)
(* was asked for.                                                          *)
IntentsWereReviewed ==
    flags.reviewer /\ intents # << >> =>
        /\ WellFormed(intents)
        /\ \E v \in {"passed", "bare_rejection"} \union
                    (IF flags.failOpen THEN {"error"} ELSE {}) : <<round, v>> \in verdicts
        /\ <<round, "rejected">> \notin verdicts

(* The run ends by itself: it is never cut off by the executor. *)
GraphEnds == <>(node \in Done)

(***************************************************************************)
(* What the documents say and the code does not do.                        *)
(***************************************************************************)

(* graph_nodes.py:1736: when the reviewer loop exhausts its retries,       *)
(* "trades are not promoted to the report or execution-intent store".      *)
DegradedNotPromoted == degraded => report = << >> /\ intents = << >>
=============================================================================
