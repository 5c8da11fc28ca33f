---------------------------- MODULE ReportGates ----------------------------
(***************************************************************************)
(* The gates of a rendered report (report_html_gates.py) and the retry     *)
(* loop that feeds their issues back to the writer.  A report is a record  *)
(* of what the gates can tell apart in its text: which blocks it has, how  *)
(* many news tags, what a reason for a pick amounts to, ...  Sound[p] is   *)
(* what the templates render of a complete answer; a draft is the parts in *)
(* which a writer's answer differs from it.                                *)
(***************************************************************************)
EXTENDS Integers, FiniteSets, SequencesExt

CONSTANTS MaxReportRetries,   \* MAX_REPORT_RETRIES
          GateWarnThreshold   \* GATE_WARN_THRESHOLD

VARIABLES profile,   \* REPORT_PROFILE
          gates,     \* the switches that are on
          draft,     \* part -> what it is, where it differs from Sound
          tried,     \* drafts written
          issues     \* <<check, part at fault>> of the last validate_report

gateVars == <<profile, gates, draft, tried, issues>>

Markets == {"CRYPTO", "EQUITY"}

CryptoBlocks == {"crypto_dashboard", "crypto_news", "crypto_chatter", "crypto_trades"}
AiBlocks     == {"ai_bridge", "ai_dashboard", "ai_news", "ai_chatter", "ai_trades"}

(* The blocks of each profile, those no gate looks for left out.           *)
PROFILES ==
    [full          |-> CryptoBlocks \cup AiBlocks \cup
                       {"exec_summary", "previous_recs", "market_mode",
                        "current_affairs_roundtable", "institutional_view"},
     lite          |-> {"exec_summary", "market_mode", "crypto_trades", "ai_trades"},
     crypto_only   |-> CryptoBlocks \cup {"exec_summary", "market_mode"}]

Profiles == DOMAIN PROFILES

(* The switches of the news, the pick and the strict gates; that of the    *)
(* dashboard's numbers, "dashboard_numbers", stands apart.                 *)
NewsSwitches   == {"partial_news", "news_freshness", "exec_summary", "phase_a", "phase_b", "phase_c"}
PickSwitches   == {"pick_justification", "pick_rotation", "repeat_override", "pick_scoring",
                   "fundamentals_citation", "rolling_frequency"}
StrictSwitches == {"data_missing_count", "pair_unit", "tool_evidence", "qsrec_scenario",
                   "chatter_msm", "roundtable", "brief_affairs", "lite_pass6", "spx", "macro_conflict"}
DefaultOn      == {"partial_news", "pick_justification", "pick_rotation", "repeat_override",
                   "pick_scoring"}
-----------------------------------------------------------------------------
(* Reports.                                                                *)

NoScore == -1     \* a score the record does not give
NoPair  == <<>>   \* no leg is a ratio of two assets

(* A reason for a pick: its length, the clues it counts, a word for        *)
(* falling back on the big names, whether it names the assets, and what    *)
(* else it says.                                                           *)
Why(length, clues, fallback, named, says) ==
    [length |-> length, clues |-> clues, fallback |-> fallback, named |-> named, says |-> says]
GoodWhy == Why("long", 2, FALSE, TRUE, {})
NoWhy   == Why("none", 0, FALSE, FALSE, {})

(* What the template of profile p renders of a complete answer.            *)
Sound == [p \in Profiles |->
    [blocks |-> PROFILES[p], length |-> "long",
     tags |-> CASE p = "full" -> 6 [] p = "crypto_only" -> 3 [] OTHER -> 0,
     numbered |-> 0, stamps |-> "hk", notice |-> "none", age |-> 10, trusted |-> FALSE,
     exec |-> 3, exec_long |-> FALSE,
     regime |-> "neutral", budget_regime |-> "neutral", supposed |-> {}, narrative |-> "none",
     named |-> FALSE,
     stars |-> 3, budgets |-> {10}, risk_budget |-> TRUE, conflict |-> TRUE,
     legs |-> IF p = "crypto_only" THEN {"CRYPTO"} ELSE Markets, watch |-> {}, plan |-> "plain",
     price |-> "number", bulleted |-> FALSE, pair |-> NoPair,
     qsrec |-> "valid", recs |-> Markets, risk_fields |-> {"rr", "drawdown", "win_rate", "score"},
     crypto_why |-> GoodWhy, equity_why |-> GoodWhy, cited |-> TRUE,
     yesterday |-> {}, selection |-> 80, alternative |-> 60, gap |-> 20, repeat_days |-> 0,
     scores |-> "given", days_used |-> 0, required |-> TRUE, confidence |-> 3, scenarios |-> TRUE,
     position |-> 5, rec_regime |-> "neutral", directions |-> {"LONG"},
     numbers |-> {55}, takeaway |-> {55}, ai_block1 |-> "robot", msm |-> TRUE, graded |-> TRUE,
     evidence |-> 3, disclaimer |-> TRUE, thesis |-> TRUE, supports |-> 2, contras |-> 2,
     assumptions |-> 2, unless |-> TRUE, framing |-> 24, chances |-> <<50, 30, 20>>,
     pricing |-> "canonical", cycle |-> 16, valuation |-> 24, calendar |-> 3, dated |-> TRUE,
     liquidity |-> 2, voices |-> 2, structured |-> "given",
     y10 |-> 425, y2 |-> {400}, y2_na |-> FALSE, spread |-> 25, spread_bp |-> {25}, sofr |-> 430,
     spx |-> 5000, source_lines |-> <<0, 0, 0>>, stale |-> {}, missing |-> {}, many_na |-> FALSE,
     low_confidence |-> FALSE, proxy |-> FALSE, leak |-> "none"]]

(* The other values a part takes in the drafts.                            *)
Wrong == [p \in Profiles |->
    [blocks |-> {PROFILES[p] \ {b} : b \in PROFILES[p]}
                  \cup {PROFILES[p] \cup {b} : b \in CryptoBlocks \cup AiBlocks \cup
                                              {"previous_recs", "institutional_view"}},
     length |-> {"mid", "short"}, tags |-> {0, 2, 3, 5}, numbered |-> {6}, stamps |-> {"mixed", "none"},
     notice |-> {"half", "full"}, age |-> {50}, trusted |-> {TRUE}, exec |-> {0, 1, 4},
     exec_long |-> {TRUE}, regime |-> {"risk_off", "none"}, budget_regime |-> {"risk_off", "none"},
     supposed |-> {{"risk_off"}}, narrative |-> {"if", "asserted"}, named |-> {TRUE}, stars |-> {4}, budgets |-> {{10, 20}},
     risk_budget |-> {FALSE}, conflict |-> {FALSE}, legs |-> {{}, {"CRYPTO"}}, watch |-> {{"CRYPTO"}},
     plan |-> {"colon"}, price |-> {"n/a"}, bulleted |-> {TRUE},
     pair |-> {<<TRUE, 60, 3, 20>>, <<TRUE, 60, 3, 60>>, <<FALSE, 60, 3, 20>>},
     qsrec |-> {"absent", "torn"}, recs |-> {{"CRYPTO"}, {"EQUITY"}},
     risk_fields |-> {{"rr", "win_rate", "score"}, {"rr", "drawdown", "win_rate"}},
     crypto_why |-> {NoWhy, Why("short", 2, FALSE, TRUE, {}), Why("mid", 1, TRUE, FALSE, {}),
                     Why("mid", 1, FALSE, TRUE, {}), Why("long", 2, FALSE, TRUE, {"again"})},
     equity_why |-> {NoWhy, Why("long", 1, FALSE, TRUE, {"fundamentals"}), Why("long", 0, TRUE, TRUE, {}),
                     Why("long", 2, FALSE, TRUE, {"earnings"})},
     cited |-> {FALSE}, yesterday |-> {{"CRYPTO"}, {"EQUITY"}}, selection |-> {60, NoScore, 120},
     alternative |-> {75, NoScore}, gap |-> {5, NoScore}, repeat_days |-> {3}, scores |-> {"missing", "out"},
     days_used |-> {3}, required |-> {FALSE}, confidence |-> {1}, scenarios |-> {FALSE}, position |-> {12},
     rec_regime |-> {"none", "risk_on"}, directions |-> {{"LONG", "SHORT"}}, numbers |-> {{}},
     takeaway |-> {{}, {99}}, ai_block1 |-> {"plain"}, msm |-> {FALSE}, graded |-> {FALSE},
     evidence |-> {1}, disclaimer |-> {FALSE}, thesis |-> {FALSE}, supports |-> {1, 4}, contras |-> {1},
     assumptions |-> {5}, unless |-> {FALSE}, framing |-> {10}, chances |-> {<<50, 30>>, <<50, 30, 30>>},
     pricing |-> {"absent", "free"}, cycle |-> {5}, valuation |-> {5}, calendar |-> {2, 7}, dated |-> {FALSE},
     liquidity |-> {1}, voices |-> {1, 9}, structured |-> {"none", "no_roundtable", "silent", "unanchored"},
     y10 |-> {2500}, y2 |-> {{400, 600}}, y2_na |-> {TRUE}, spread |-> {90}, spread_bp |-> {{25, -25}, {1000}},
     sofr |-> {3000}, spx |-> {500}, source_lines |-> {<<1, 1, 1>>, <<1, 1, 2>>}, stale |-> {{"gnews"}},
     missing |-> {{"fear_greed"}, {"newsapi"}}, many_na |-> {TRUE}, low_confidence |-> {TRUE},
     proxy |-> {TRUE}, leak |-> {"code", "impact"}]]
-----------------------------------------------------------------------------
(* A check names every part that fails it, or the first one only.          *)
Every(check, parts) == {<<check, q[1]>> : q \in {x \in Range(parts) : ~ x[2]}}
Foremost(check, parts) ==
    {<<check, parts[k][1]>> : k \in {n \in DOMAIN parts : ~ parts[n][2] /\ \A j \in 1..n - 1 : parts[j][2]}}
Check(check, part, holds) == Every(check, <<<<part, holds>>>>)
When(condition, found) == IF condition THEN found ELSE {}

Distance(a, b) == IF a > b THEN a - b ELSE b - a
-----------------------------------------------------------------------------
(* The text.                                                               *)

(* The part of the text that is searched for market m: the AI part begins  *)
(* at its heading, and without one the crypto part is the whole report.    *)
Span(r, m) == CASE "ai_bridge" \in r.blocks -> {m}
                [] "ai_bridge" \notin r.blocks /\ m = "CRYPTO" -> Markets
                [] OTHER -> {}
TradeBlock == [CRYPTO |-> "crypto_trades", EQUITY |-> "ai_trades"]
Why_(r) == [CRYPTO |-> r.crypto_why, EQUITY |-> r.equity_why]

(* The first reason in that part that stands in a trade block.             *)
TodayReason(r, m) ==
    LET there == {k \in Span(r, m) : TradeBlock[k] \in r.blocks /\ Why_(r)[k] # NoWhy}
    IN IF there = {} THEN NoWhy
       ELSE Why_(r)[IF "CRYPTO" \in there THEN "CRYPTO" ELSE "EQUITY"]

(* A market whose block has no leg declares that it only watches.          *)
Watching(r) == {m \in Markets : TradeBlock[m] \in r.blocks /\ (m \notin r.legs \/ m \in r.watch)}
TradeWatchMode(r) == Watching(r) # {}

HasCryptoTrade(r)   == "crypto_trades" \in r.blocks
HasAiTrade(r)       == "ai_trades" \in r.blocks
HasDashboard(r)     == r.blocks \cap {"exec_summary", "crypto_dashboard", "ai_dashboard"} # {}
HasCryptoSection(r) == r.blocks \cap {"crypto_dashboard", "crypto_news", "ai_dashboard"} # {}
HasAiSection(r)     == r.blocks \cap {"ai_bridge", "ai_dashboard", "ai_news"} # {}
HasChatter(r)       == r.blocks \cap {"crypto_chatter", "ai_chatter"} # {}

CountEffectiveNews(r) == IF r.tags > 0 THEN r.tags ELSE r.numbered
HasNewsUtc8(r)        == IF r.tags > 0 THEN r.stamps = "hk" ELSE r.numbered > 0
PartialNewsOk(r, on)  == "partial_news" \in on /\ r.tags \in 3..5 /\ r.notice = "full" /\ HasNewsUtc8(r)

Recs(r) == IF r.qsrec = "valid" THEN r.recs ELSE {}
-----------------------------------------------------------------------------
(* News, summary and institutional blocks.                                 *)

NewsFreshness(r) ==
    Check("news_freshness", "age", r.tags = 0 \/ r.stamps = "none" \/ r.age <= 36 \/ r.trusted)

(* The span of the summary ends at a plain heading only, so the narrative  *)
(* of the market mode that follows it counts as one more line.             *)
ExecSummary(r) ==
    LET dotted == IF "market_mode" \in r.blocks THEN 1 ELSE 0
    IN Foremost("exec_summary", << <<"blocks", "exec_summary" \in r.blocks>>, <<"exec", r.exec > 0>>,
                                <<"exec", r.exec + dotted >= 2>> >>)

InstitutionalPhaseA(r) ==
    Foremost("phase_a", << <<"blocks", "institutional_view" \in r.blocks>>, <<"disclaimer", r.disclaimer>>,
                        <<"thesis", r.thesis>>, <<"supports", r.supports \in 2..3>>,
                        <<"contras", r.contras \in 2..3>>, <<"assumptions", r.assumptions \in 2..4>>,
                        <<"unless", r.unless>> >>)

InstitutionalPhaseB(r) ==
    Foremost("phase_b", << <<"blocks", "institutional_view" \in r.blocks>>, <<"framing", r.framing >= 24>>,
                        <<"chances", Len(r.chances) = 3>>,
                        <<"chances", FoldSeq(+, 0, r.chances) = 100>>,
                        <<"tags", r.tags >= 6>>, <<"pricing", r.pricing = "canonical">> >>)

InstitutionalPhaseC(r) ==
    Foremost("phase_c", << <<"blocks", "institutional_view" \in r.blocks>>, <<"cycle", r.cycle >= 16>>,
                        <<"valuation", r.valuation >= 24>>, <<"calendar", r.calendar \in 3..6>>,
                        <<"dated", r.dated>>, <<"liquidity", r.liquidity >= Cardinality(r.legs)>> >>)

LiteExecSummaryPass6(r) ==
    When("exec_summary" \in r.blocks,
         Every("lite_pass6", << <<"exec", r.exec <= 3>>, <<"exec_long", r.exec = 0 \/ ~ r.exec_long>> >>))

CurrentAffairsHtml(r, on) ==
    Foremost("roundtable", << <<"blocks", "brief_affairs" \in on>>,
                           <<"blocks", "current_affairs_roundtable" \in r.blocks>>,
                           <<"voices", r.voices \in 2..4>> >>)
CurrentAffairsStructured(r) == Check("roundtable_model", "structured", r.structured = "given")

(* Every takeaway cites a number of its own part's dashboard.  The AI      *)
(* dashboard is found only under a plain heading.                          *)
InvestmentNumbers(r) ==
    LET Audit(m, news, dashboard, found) ==
            When(news \in r.blocks /\ r.tags > 0 /\ (m = "EQUITY" => "ai_bridge" \in r.blocks),
                 Foremost("dashboard_numbers",
                       << <<"blocks", dashboard \in r.blocks>>, <<"ai_block1", found>>,
                          <<"numbers", r.numbers # {}>>,
                          <<"takeaway", r.takeaway \cap r.numbers # {}>> >>))
    IN Audit("CRYPTO", "crypto_news", "crypto_dashboard", TRUE)
         \cup Audit("EQUITY", "ai_news", "ai_dashboard", r.ai_block1 = "plain")

ChatterMsmVerify(r) ==
    Check("chatter_msm", "msm", r.msm \/ \A c \in {<<"crypto_chatter", "crypto_trades">>,
                                                   <<"ai_chatter", "ai_trades">>} : ~ Range(c) \subseteq r.blocks)
-----------------------------------------------------------------------------
(* Picks.                                                                  *)

WhyPart == [CRYPTO |-> "crypto_why", EQUITY |-> "equity_why"]

(* Two clues, or one and either a fallback or a long text that names the   *)
(* assets.                                                                 *)
PickJustification(r, m, recs) ==
    LET w == TodayReason(r, m)
    IN When(m \in recs,
            Foremost("pick_justification",
                  << <<WhyPart[m], w # NoWhy>>, <<WhyPart[m], w.length # "short">>,
                     <<WhyPart[m], \/ w.clues >= 2
                                   \/ w.clues = 1 /\ (w.fallback \/ (w.length = "long" /\ w.named))>> >>))

FundamentalOnly(r, recs) ==
    LET w == TodayReason(r, "EQUITY")
    IN When("EQUITY" \in recs,
            Check("fundamental_only", "equity_why", "fundamentals" \notin w.says \/ w.clues >= 2))

FundamentalsCitation(r) ==
    Check("fundamentals_cited", "cited",
          r.cited \/ "earnings" \notin TodayReason(r, "EQUITY").says
                  \/ r.blocks \cap {"ai_bridge", "ai_dashboard"} = {})

BestRepeatScoreGap(r) ==
    IF r.gap # NoScore THEN r.gap
    ELSE IF NoScore \notin {r.selection, r.alternative} THEN r.selection - r.alternative ELSE NoScore
RepeatQualityAnchor(r) == r.repeat_days <= 2 /\ r.selection >= 75

(* Yesterday's picks again: only with the override on, a reason that says  *)
(* so, a lead of twelve points and a good fresh score.                     *)
PickRotation(r, m, recs, on) ==
    When(m \in recs /\ m \in r.yesterday,
         Foremost("pick_rotation",
               << <<"yesterday", "repeat_override" \in on>>,
                  <<WhyPart[m], "again" \in TodayReason(r, m).says>>,
                  <<"gap", BestRepeatScoreGap(r) # NoScore>>, <<"gap", BestRepeatScoreGap(r) >= 12>>,
                  <<"selection", RepeatQualityAnchor(r)>> >>))

RollingCap == 3
RollingFrequency(r, m, recs) ==
    When(m \in recs, Check("rolling_frequency", "days_used", r.days_used < RollingCap))

QsrecConsistency(r, on) ==
    LET cap == CASE r.regime = "risk_off" -> 5 [] r.regime = "risk_on" -> 15 [] OTHER -> 10
        scored == {r.selection, r.alternative} \cap {NoScore} = {}
    IN Every("qsrec", << <<"required", r.required>>,
                         <<"scenarios", "qsrec_scenario" \in on /\ r.confidence >= 3 => r.scenarios>>,
                         <<"position", r.position <= cap>>,
                         <<"rec_regime", "none" \in {r.rec_regime, r.regime} \/ r.rec_regime = r.regime>>,
                         <<"directions", Cardinality(r.directions) <= 1>> >>)
       \cup When("pick_scoring" \in on,
                 Every("qsrec", << <<"scores", r.scores = "given">>,
                                   <<"selection", r.selection \in 0..100>>,
                                   <<"alternative", r.alternative # NoScore>>,
                                   <<"gap", scored => r.gap # NoScore>>,
                                   <<"gap", scored /\ r.gap # NoScore
                                              => Distance(r.selection - r.alternative, r.gap) <= 1>> >>))
-----------------------------------------------------------------------------
(* Regime, macro values, prices and sources.                               *)

RiskOffStarCap(r) == Check("star_cap", "stars", r.regime # "risk_off" \/ r.stars < 4)

(* A regime named in a supposition anywhere counts for none of the tags.   *)
MixedRegime(r) ==
    Check("mixed_regime", "budget_regime",
          Cardinality(({r.regime, r.budget_regime} \ {"none"}) \ r.supposed) <= 1)

RiskOffNarrative(r) ==
    When(r.regime \in {"neutral", "risk_on"},
         Every("risk_off_narrative", << <<"narrative", r.narrative # "asserted">>,
                                        <<"budget_regime", r.budget_regime # "risk_off">> >>))

(* Percentages in hundredths.                                              *)
MacroOutlier(r) ==
    Every("macro_outlier", << <<"y10", r.y10 \in 0..2000>>, <<"y2", r.y2 \subseteq 0..2000>>,
                              <<"sofr", r.sofr \in -50..2500>>,
                              <<"spread_bp", \A v \in r.spread_bp : Distance(v, 0) < 1000>> >>)
MacroConflict(r) ==
    Every("macro_conflict", << <<"y2_na", ~ (r.y2_na /\ r.y2 # {})>>,
                               <<"y2", \A v, w \in r.y2 : Distance(v, w) <= 100>>,
                               <<"spread_bp", ~ \E v, w \in r.spread_bp : v > 0 /\ w < 0>> >>)
YieldSpread(r) ==
    Check("yield_spread", "spread", \E v \in r.y2 : Distance(r.spread, r.y10 - v) <= 15)

(* A ratio trade states its unit, and its entry is within 35% of the       *)
(* ratio of the two prices.                                                *)
PairTradeUnit(r) ==
    LET a == r.pair[2]  b == r.pair[3]  entry == r.pair[4]
    IN Check("pair_unit", "pair",
             r.pair = NoPair \/ (r.pair[1] /\ b > 0 /\ entry > 0 /\ 100 * Distance(entry * b, a) <= 35 * a))

SpxLevel(r) == Check("spx", "spx", ~ (80 <= r.spx /\ r.spx < 3000))

SourceObservability(r) ==
    Check("observability", "source_lines", r.source_lines \in {<<0, 0, 0>>, <<1, 1, 1>>})

(* A block that only watches must not give entry, target and stop.  They   *)
(* are looked for with a colon, which the templates do not print.          *)
WatchConflict(r) ==
    Every("watch_conflict", << <<"plan", \A m \in Markets :
        ~ (Span(r, m) \cap Watching(r) # {} /\ Span(r, m) \cap r.legs # {} /\ r.plan = "colon")>> >>)
-----------------------------------------------------------------------------
(* validate_report.                                                        *)

Forbidden == [lite        |-> <<{"crypto_dashboard"}, {"ai_bridge", "ai_dashboard", "ai_news"},
                                {"institutional_view"}, {"previous_recs"}>>,
              crypto_only |-> <<{"ai_bridge", "ai_dashboard", "ai_news"}, {"institutional_view"},
                                {"previous_recs"}, {"ai_trades"}>>]
Demanded  == [lite |-> {"crypto_trades", "ai_trades"}, crypto_only |-> {"crypto_dashboard"}]

ProfileBlockConsistency(r, p) ==
    When(p # "full",
         Check("profile", "blocks", /\ \A b \in Range(Forbidden[p]) : r.blocks \cap b = {}
                                    /\ Demanded[p] \subseteq r.blocks))

NewsSixRelaxed_Mutant_AnyProfile(r, p, on) == TradeWatchMode(r) \/ PartialNewsOk(r, on) \/ r.tags >= 3

(* Six tagged news, or a declared watch, or three to five in a report that *)
(* says so, or three in one that has no AI part.                           *)
NewsSixRelaxed(r, p, on) ==
    \/ TradeWatchMode(r)
    \/ PartialNewsOk(r, on)
    \/ p = "crypto_only" /\ r.tags >= 3

(* A regime's name anywhere in the text will do: in the mode, the budget,  *)
(* a supposition, the narrative, the record or any other line.             *)
NamesRegime(r) ==
    \/ {r.regime, r.budget_regime} # {"none"} \/ r.supposed # {} \/ r.narrative # "none"
    \/ r.qsrec # "absent" /\ r.rec_regime # "none"
    \/ r.named

Structure(r, p, on) ==
    LET lite == p = "lite"
        relaxed == lite \/ NewsSixRelaxed(r, p, on)
    IN Every("structure",
             << <<"length", lite \/ r.length = "long" \/ (p = "crypto_only" /\ r.length = "mid")>>,
                <<"tags", relaxed \/ r.tags >= 6>>, <<"numbered", relaxed \/ CountEffectiveNews(r) >= 6>>,
                <<"regime", NamesRegime(r)>>,
                <<"blocks", /\ HasCryptoTrade(r)
                            /\ HasAiTrade(r) \/ p = "crypto_only"
                            /\ HasAiSection(r) \/ p # "full"
                            /\ HasCryptoSection(r) \/ lite>>,
                <<"qsrec", Recs(r) # {}>> >>)
       \cup When(~ lite, Every("readable", << <<"blocks", HasDashboard(r) /\ HasChatter(r)>> >>))
       \cup When(~ lite /\ "tool_evidence" \in on /\ ~ TradeWatchMode(r) /\ HasCryptoSection(r)
                   /\ r.length = "long",
                 Check("tool_evidence", "evidence", r.evidence >= 3))

(* None of the pick checks runs when any market is only watched.           *)
Picks(r, p, on) ==
    LET recs == Recs(r)
        equity == IF p = "crypto_only" THEN recs \ {"EQUITY"} ELSE recs
    IN When(~ TradeWatchMode(r) /\ recs # {},
            When("pick_justification" \in on,
                 PickJustification(r, "CRYPTO", recs) \cup PickJustification(r, "EQUITY", equity)
                   \cup FundamentalOnly(r, equity))
            \cup When("pick_rotation" \in on,
                      PickRotation(r, "CRYPTO", recs, on) \cup PickRotation(r, "EQUITY", equity, on))
            \cup When("rolling_frequency" \in on,
                      RollingFrequency(r, "CRYPTO", recs) \cup RollingFrequency(r, "EQUITY", equity)))

Sections(r, p, on) ==
    When("data_missing_count" \in on,
         Check("missing_count", "missing", Cardinality(r.missing) <= 1))
      \cup When(p # "lite", Check("utc8", "stamps", HasNewsUtc8(r)))
      \cup When(p # "lite" /\ "news_freshness" \in on, NewsFreshness(r))
      \cup When("exec_summary" \in on, ExecSummary(r))
      \cup When(p = "full",
                When("fundamentals_citation" \in on, FundamentalsCitation(r))
                \cup When("phase_a" \in on, InstitutionalPhaseA(r))
                \cup When("phase_b" \in on, InstitutionalPhaseB(r))
                \cup When("phase_c" \in on, InstitutionalPhaseC(r))
                \cup When("roundtable" \in on, CurrentAffairsHtml(r, on) \cup CurrentAffairsStructured(r)))
      \cup When(p = "lite" /\ "lite_pass6" \in on, LiteExecSummaryPass6(r))

(* An unpriced trade is looked for after a bullet and a bare symbol. The   *)
(* templates print the symbol in bold, so only a line of the writer's own  *)
(* opens the match. A blank invalidation is looked for under a label they  *)
(* do not print, and is never found.                                       *)
Trades(r, p, on) ==
    LET watching == TradeWatchMode(r)
        fields == IF r.qsrec = "absent" THEN {} ELSE r.risk_fields
        quoted == r.takeaway # {} \/ r.blocks \cap {"crypto_news", "ai_news"} = {}
    IN Every("trades", << <<"conflict", r.conflict>>, <<"risk_budget", r.risk_budget>>,
                          <<"graded", p = "lite" \/ r.graded>>,
                          <<"risk_fields", watching \/ {"rr", "drawdown"} \subseteq fields>>,
                          <<"risk_fields", watching \/ {"win_rate", "score"} \subseteq fields>>,
                          <<"takeaway", watching \/ p = "lite" \/ quoted>>,
                          <<"budgets", Cardinality(r.budgets) <= 1>> >>)
       \cup When(p # "lite" /\ ~ watching,
                 When("dashboard_numbers" \in on, InvestmentNumbers(r))
                 \cup When("chatter_msm" \in on, ChatterMsmVerify(r)))
       \cup Check("no_price", "price", ~ r.bulleted \/ r.legs = {} \/ r.price = "number")

Readings(r, on) ==
    MixedRegime(r) \cup MacroOutlier(r) \cup SourceObservability(r) \cup WatchConflict(r)
      \cup RiskOffStarCap(r) \cup RiskOffNarrative(r) \cup YieldSpread(r)
      \cup When("spx" \in on, SpxLevel(r))
      \cup When("macro_conflict" \in on, MacroConflict(r))
      \cup When("pair_unit" \in on, PairTradeUnit(r))
      \cup When(Recs(r) # {}, QsrecConsistency(r, on))
      \cup Check("too_many_na", "many_na", ~ r.many_na \/ (r.low_confidence /\ r.proxy))
      \cup Check("code_leak", "leak", r.leak # "code")
      \cup Check("impact_leak", "leak", r.leak # "impact")
      \cup Check("stale", "stale", r.stale = {})
      \cup Check("missing", "missing", r.missing = {})
      \cup Check("critical_missing", "missing", "newsapi" \notin r.missing)

ValidateReport(r, p, on) ==
    ProfileBlockConsistency(r, p) \cup Structure(r, p, on) \cup Picks(r, p, on)
      \cup Sections(r, p, on) \cup Trades(r, p, on) \cup Readings(r, on)

(* What keeps a report from its readers; the rest is a banner.             *)
Blockers == {"structure", "no_price", "code_leak", "critical_missing", "missing_count",
             "fundamental_only", "fundamentals_cited", "dashboard_numbers", "chatter_msm"}
BlockingIssues(found) == {i \in found : i[1] \in Blockers}
-----------------------------------------------------------------------------
(* The loop of the daily job: the next draft is written from the feedback. *)

(* A line is the instruction of its check, or the issue in its own words. *)
Instructed == {"structure", "no_price", "code_leak", "critical_missing", "missing_count", "readable",
               "trades", "macro_outlier", "macro_conflict", "utc8", "too_many_na"}
GateFeedback_Mutant_InstructedOnly(found) == {<<TRUE, i>> : i \in {x \in found : x[1] \in Instructed}}
GateFeedback(found) == {<<i[1] \in Instructed, i>> : i \in found}

Report(d, p) == [x \in DOMAIN Sound[p] |-> IF x \in DOMAIN d THEN d[x] ELSE Sound[p][x]]

Judged(d) ==
    /\ draft' = d
    /\ tried' = tried + 1
    /\ issues' = ValidateReport(Report(d, profile), profile, gates)
    /\ UNCHANGED <<profile, gates>>

GateInit ==
    /\ profile \in Profiles
    /\ \E strict, numbers \in BOOLEAN :
         gates = DefaultOn \cup (IF strict THEN NewsSwitches \cup PickSwitches \cup StrictSwitches ELSE {})
                   \cup (IF numbers THEN {"dashboard_numbers"} ELSE {})
    /\ draft = <<>> /\ tried = 0 /\ issues = {}

(* The writer's first draft is wrong in two parts at the most.             *)
FirstDraft ==
    /\ tried = 0
    /\ \/ Judged(<<>>)
       \/ \E x, y \in DOMAIN Sound[profile] : \E v \in Wrong[profile][x], w \in Wrong[profile][y] :
            Judged([part \in {x, y} |-> IF part = x THEN v ELSE w])

Passes(found) == BlockingIssues(found) = {} /\ Cardinality(found) <= GateWarnThreshold

(* A report that does not pass is written again, by a writer that puts     *)
(* right what the feedback names and leaves the rest as it was.            *)
Redraft ==
    /\ tried \in 1..MaxReportRetries
    /\ ~ Passes(issues)
    /\ LET named == {line[2][2] : line \in GateFeedback(issues)}
       IN Judged([x \in DOMAIN draft \ named |-> draft[x]])

GateNext == FirstDraft \/ Redraft
GateSpec == GateInit /\ [][GateNext]_gateVars
-----------------------------------------------------------------------------
(* No report passes the gates that a reader of its profile could not use:  *)
(* its recommendations can be parsed, it has the trade blocks the profile  *)
(* promises, lacks no critical source, leaks no tool name and carries its  *)
(* profile's news unless it says, trade by trade or outright, that it does *)
(* not (validate_report).                                                  *)
DeliverableIsWhole ==
    LET r == Report(draft, profile)
        promised == [full |-> 6, crypto_only |-> 3, lite |-> 0]
    IN tried > 0 /\ BlockingIssues(issues) = {} =>
         /\ r.qsrec = "valid"
         /\ PROFILES[profile] \cap {"crypto_trades", "ai_trades"} \subseteq r.blocks
         /\ "newsapi" \notin r.missing /\ r.leak # "code"
         /\ \/ r.tags >= promised[profile]
            \/ r.tags >= 3 /\ r.notice = "full"
            \/ \E m \in Markets : m \notin r.legs \/ m \in r.watch

(* A writer that only ever puts right what it is told has a report that    *)
(* can be delivered within the retries, although a check can hide another  *)
(* (format_gate_feedback_for_llm, main.py:950).  But one check of the full *)
(* profile no writer can meet: with the dashboard's numbers checked, the   *)
(* AI dashboard is looked for under a heading the template prints          *)
(* otherwise (_extract_ai_block1_dashboard_html).                          *)
ObedientWriterDelivers ==
    tried > MaxReportRetries =>
        BlockingIssues(issues) \subseteq
            IF profile = "full" THEN {<<"dashboard_numbers", "ai_block1">>} ELSE {}
=============================================================================
