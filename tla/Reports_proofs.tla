---------------------------- MODULE Reports_proofs ----------------------------
(***************************************************************************)
(* Proofs about the reports: the gates a report has to pass, and the       *)
(* repairs a brief goes through before it is built.                        *)
(***************************************************************************)
EXTENDS ReportGates, BriefAssembly, SequenceTheorems, FiniteSetTheorems, WellFoundedInduction, TLAPS

(***************************************************************************)
(* The gates: every check names a part that is not as it should be, so     *)
(* that the feedback reaches whatever the draft has wrong.                 *)
(***************************************************************************)

(* A check of one part names that part, and only when it fails.            *)
LEMMA CheckNames ==
    ASSUME NEW check, NEW part, NEW holds, NEW i \in Check(check, part, holds)
    PROVE  i[1] = check /\ i[2] = part /\ ~ holds
  <1> DEFINE parts == <<<<part, holds>>>>
  <1>1. Range(parts) = {<<part, holds>>}
    BY DEF Range
  <1>2. PICK q \in {x \in Range(parts) : ~ x[2]} : i = <<check, q[1]>>
    BY DEF Check, Every
  <1>3. q = <<part, holds>>
    BY <1>1, <1>2
  <1> QED BY <1>2, <1>3

(* A part that fails a check is named.                                     *)
LEMMA FailureIsNamed ==
    ASSUME NEW check, NEW parts, NEW i \in DOMAIN parts, ~ parts[i][2]
    PROVE  <<check, parts[i][1]>> \in Every(check, parts)
  BY DEF Every, Range

(* What a check of several parts names are parts that fail it.             *)
LEMMA EveryNames ==
    ASSUME NEW check, NEW parts, NEW i \in Every(check, parts)
    PROVE  i[1] = check /\ \E k \in DOMAIN parts : i[2] = parts[k][1] /\ ~ parts[k][2]
  <1>1. PICK q \in {x \in Range(parts) : ~ x[2]} : i = <<check, q[1]>>
    BY DEF Every
  <1>2. PICK k \in DOMAIN parts : q = parts[k]
    BY DEF Range
  <1> QED BY <1>1, <1>2

(* A check that stops at its first failure names a part that fails, and    *)
(* none before it does.                                                    *)
LEMMA ForemostNames ==
    ASSUME NEW check, NEW parts, NEW i \in Foremost(check, parts)
    PROVE  i[1] = check /\ \E k \in DOMAIN parts :
              i[2] = parts[k][1] /\ ~ parts[k][2] /\ \A j \in 1..k - 1 : parts[j][2]
  BY DEF Foremost

(* The issues of the readings carry their check's name.                    *)
LEMMA ReadingNames ==
    ASSUME NEW r, NEW on
    PROVE  /\ \A i \in MixedRegime(r) : i[1] = "mixed_regime"
           /\ \A i \in SourceObservability(r) : i[1] = "observability"
           /\ \A i \in RiskOffStarCap(r) : i[1] = "star_cap"
           /\ \A i \in YieldSpread(r) : i[1] = "yield_spread"
           /\ \A i \in SpxLevel(r) : i[1] = "spx"
           /\ \A i \in PairTradeUnit(r) : i[1] = "pair_unit"
           /\ \A i \in MacroOutlier(r) : i[1] = "macro_outlier"
           /\ \A i \in WatchConflict(r) : i[1] = "watch_conflict"
           /\ \A i \in RiskOffNarrative(r) : i[1] = "risk_off_narrative"
           /\ \A i \in MacroConflict(r) : i[1] = "macro_conflict"
           /\ \A i \in QsrecConsistency(r, on) : i[1] = "qsrec"
  <1>1. \A i \in MixedRegime(r) : i[1] = "mixed_regime"
    BY CheckNames DEF MixedRegime
  <1>2. \A i \in SourceObservability(r) : i[1] = "observability"
    BY CheckNames DEF SourceObservability
  <1>3. \A i \in RiskOffStarCap(r) : i[1] = "star_cap"
    BY CheckNames DEF RiskOffStarCap
  <1>4. \A i \in YieldSpread(r) : i[1] = "yield_spread"
    BY CheckNames DEF YieldSpread
  <1>5. \A i \in SpxLevel(r) : i[1] = "spx"
    BY CheckNames DEF SpxLevel
  <1>6. \A i \in PairTradeUnit(r) : i[1] = "pair_unit"
    BY CheckNames DEF PairTradeUnit
  <1>7. \A i \in MacroOutlier(r) : i[1] = "macro_outlier"
    BY EveryNames DEF MacroOutlier
  <1>8. \A i \in WatchConflict(r) : i[1] = "watch_conflict"
    BY EveryNames DEF WatchConflict
  <1>9. \A i \in RiskOffNarrative(r) : i[1] = "risk_off_narrative"
    BY EveryNames DEF RiskOffNarrative, When
  <1>10. \A i \in MacroConflict(r) : i[1] = "macro_conflict"
    BY EveryNames DEF MacroConflict
  <1>11. \A i \in QsrecConsistency(r, on) : i[1] = "qsrec"
    BY EveryNames DEF QsrecConsistency, When
  <1> QED BY <1>1, <1>2, <1>3, <1>4, <1>5, <1>6, <1>7, <1>8, <1>9, <1>10, <1>11

(* A reading that blocks a report is about a part that is not as it should *)
(* be.                                                                     *)
LEMMA ReadingsBlock ==
    ASSUME NEW r, NEW on, NEW i \in Readings(r, on), i[1] \in Blockers
    PROVE  (i[2] = "leak" /\ r.leak = "code") \/ (i[2] = "missing" /\ r.missing # {})
  <1>1. i[1] \notin {"mixed_regime", "macro_outlier", "observability", "watch_conflict", "star_cap", "risk_off_narrative",
                     "yield_spread", "spx", "macro_conflict", "pair_unit", "qsrec", "too_many_na", "impact_leak", "stale", "missing"}
    BY DEF Blockers
  <1> DEFINE na     == Check("too_many_na", "many_na", ~ r.many_na \/ (r.low_confidence /\ r.proxy))
             code   == Check("code_leak", "leak", r.leak # "code")
             impact == Check("impact_leak", "leak", r.leak # "impact")
             stale  == Check("stale", "stale", r.stale = {})
             lacks  == Check("missing", "missing", r.missing = {})
             critic == Check("critical_missing", "missing", "newsapi" \notin r.missing)
  <1>2. i \notin na /\ i \notin impact /\ i \notin stale /\ i \notin lacks
    BY <1>1, CheckNames
  <1>3. /\ i \in code => i[2] = "leak" /\ r.leak = "code"
        /\ i \in critic => i[2] = "missing" /\ "newsapi" \in r.missing
    <2> DEFINE h1 == r.leak # "code"
               h2 == "newsapi" \notin r.missing
    <2>1. code = Check("code_leak", "leak", h1) /\ critic = Check("critical_missing", "missing", h2)
      BY Zenon
    <2> HIDE DEF h1, h2, code, critic
    <2>2. /\ i \in code => i[2] = "leak" /\ ~ h1
          /\ i \in critic => i[2] = "missing" /\ ~ h2
      BY <2>1, CheckNames
    <2> QED BY <2>2 DEF h1, h2
  <1>4. i \in MixedRegime(r) \cup MacroOutlier(r) \cup SourceObservability(r) \cup WatchConflict(r)
              \cup RiskOffStarCap(r) \cup RiskOffNarrative(r) \cup YieldSpread(r) \cup SpxLevel(r)
              \cup MacroConflict(r) \cup PairTradeUnit(r) \cup QsrecConsistency(r, on)
              \cup na \cup code \cup impact \cup stale \cup lacks \cup critic
    BY Zenon DEF Readings, When
  <1> HIDE DEF na, code, impact, stale, lacks, critic
  <1> QED BY <1>1, <1>2, <1>3, <1>4, ReadingNames

(* The blocks the structure asks for.                                      *)
BlocksThere(r, p) ==
    /\ HasCryptoTrade(r)
    /\ HasAiTrade(r) \/ p = "crypto_only"
    /\ HasAiSection(r) \/ p # "full"
    /\ HasCryptoSection(r) \/ p = "lite"

(* So is a check of the structure, whose blocks and news have several      *)
(* reasons.                                                                *)
LEMMA StructureNames ==
    ASSUME NEW r, NEW p, NEW on, NEW i \in Structure(r, p, on), i[1] \in Blockers
    PROVE  \/ i[2] = "length" /\ r.length # "long"
           \/ i[2] = "tags" /\ p # "lite" /\ ~ NewsSixRelaxed(r, p, on) /\ ~ r.tags >= 6
           \/ i[2] = "numbered" /\ p # "lite" /\ ~ NewsSixRelaxed(r, p, on) /\ ~ CountEffectiveNews(r) >= 6
           \/ i[2] = "regime" /\ r.regime = "none"
           \/ i[2] = "blocks" /\ ~ BlocksThere(r, p)
           \/ i[2] = "qsrec" /\ Recs(r) = {}
  <1> DEFINE lite == p = "lite"
             relaxed == lite \/ NewsSixRelaxed(r, p, on)
             h1 == lite \/ r.length = "long" \/ (p = "crypto_only" /\ r.length = "mid")
             h2 == relaxed \/ r.tags >= 6
             h3 == relaxed \/ CountEffectiveNews(r) >= 6
             h4 == NamesRegime(r)
             h5 == BlocksThere(r, p)
             h6 == Recs(r) # {}
             parts == << <<"length", h1>>, <<"tags", h2>>, <<"numbered", h3>>, <<"regime", h4>>,
                         <<"blocks", h5>>, <<"qsrec", h6>> >>
             readable == Every("readable", << <<"blocks", HasDashboard(r) /\ HasChatter(r)>> >>)
             evidence == Check("tool_evidence", "evidence", r.evidence >= 3)
  <1>1. i \in Every("structure", parts) \cup readable \cup evidence
    BY Zenon DEF Structure, When, BlocksThere
  <1>2. i \notin readable /\ i \notin evidence
    <2>1. i[1] # "readable" /\ i[1] # "tool_evidence"
      BY DEF Blockers
    <2> QED BY <2>1, EveryNames, CheckNames
  <1> HIDE DEF h1, h2, h3, h4, h5, h6, readable, evidence
  <1>3. /\ DOMAIN parts = 1..6
        /\ parts[1] = <<"length", h1>> /\ parts[2] = <<"tags", h2>> /\ parts[3] = <<"numbered", h3>>
        /\ parts[4] = <<"regime", h4>> /\ parts[5] = <<"blocks", h5>> /\ parts[6] = <<"qsrec", h6>>
    OBVIOUS
  <1> HIDE DEF parts
  <1>4. PICK k \in 1..6 : i[2] = parts[k][1] /\ ~ parts[k][2]
    BY <1>1, <1>2, <1>3, EveryNames
  <1>5. \/ i[2] = "length" /\ ~ h1
        \/ i[2] = "tags" /\ ~ h2
        \/ i[2] = "numbered" /\ ~ h3
        \/ i[2] = "regime" /\ ~ h4
        \/ i[2] = "blocks" /\ ~ h5
        \/ i[2] = "qsrec" /\ ~ h6
    <2>1. k = 1 \/ k = 2 \/ k = 3 \/ k = 4 \/ k = 5 \/ k = 6
      OBVIOUS
    <2> QED BY <1>3, <1>4, <2>1
  <1>6. ~ h4 => r.regime = "none"
    BY DEF h4, NamesRegime
  <1> QED BY <1>5, <1>6 DEF h1, h2, h3, h5, h6

(* So is a check of the picks: one that lacks a market, or a reason that   *)
(* is too short or does not say what it must.                              *)
LEMMA PicksNames ==
    ASSUME NEW r, NEW p, NEW on, NEW i \in Picks(r, p, on), i[1] \in Blockers
    PROVE  i[2] = "equity_why" /\ "fundamentals" \in TodayReason(r, "EQUITY").says
  <1>1. /\ \A m, recs : i \notin PickJustification(r, m, recs)
        /\ \A m, recs : i \notin PickRotation(r, m, recs, on)
        /\ \A m, recs : i \notin RollingFrequency(r, m, recs)
    <2>1. i[1] \notin {"pick_justification", "pick_rotation", "rolling_frequency"}
      BY DEF Blockers
    <2>2. \A m, recs, j : j \in PickJustification(r, m, recs) => j[1] = "pick_justification"
      BY ForemostNames DEF PickJustification, When
    <2>3. \A m, recs, j : j \in PickRotation(r, m, recs, on) => j[1] = "pick_rotation"
      BY ForemostNames DEF PickRotation, When
    <2>4. \A m, recs, j : j \in RollingFrequency(r, m, recs) => j[1] = "rolling_frequency"
      BY CheckNames DEF RollingFrequency, When
    <2> QED BY <2>1, <2>2, <2>3, <2>4
  <1>2. PICK recs : i \in FundamentalOnly(r, recs)
    BY <1>1, Zenon DEF Picks, When
  <1> DEFINE w == TodayReason(r, "EQUITY")
             h == "fundamentals" \notin w.says \/ w.clues >= 2
  <1>3. i \in Check("fundamental_only", "equity_why", h)
    BY <1>2 DEF FundamentalOnly, When
  <1> HIDE DEF h
  <1>4. i[2] = "equity_why" /\ ~ h
    BY <1>3, CheckNames
  <1> QED BY <1>4 DEF h

(* So is the check of the numbers of one dashboard.                        *)
LEMMA DashboardNames ==
    ASSUME NEW r, NEW dashboard, NEW found,
           NEW i \in Foremost("dashboard_numbers", << <<"blocks", dashboard \in r.blocks>>, <<"ai_block1", found>>,
                                                     <<"numbers", r.numbers # {}>>,
                                                     <<"takeaway", r.takeaway \cap r.numbers # {}>> >>)
    PROVE  /\ i[1] = "dashboard_numbers"
           /\ \/ i[2] = "blocks" /\ dashboard \notin r.blocks
              \/ i[2] = "ai_block1" /\ ~ found
              \/ i[2] = "numbers" /\ r.numbers = {}
              \/ i[2] = "takeaway" /\ r.numbers # {} /\ r.takeaway \cap r.numbers = {}
  <1> DEFINE h1 == dashboard \in r.blocks
             h2 == found
             h3 == r.numbers # {}
             h4 == r.takeaway \cap r.numbers # {}
             parts == << <<"blocks", h1>>, <<"ai_block1", h2>>, <<"numbers", h3>>, <<"takeaway", h4>> >>
  <1>1. i \in Foremost("dashboard_numbers", parts)
    OBVIOUS
  <1> HIDE DEF h1, h2, h3, h4
  <1>2. /\ DOMAIN parts = 1..4
        /\ parts[1] = <<"blocks", h1>> /\ parts[2] = <<"ai_block1", h2>>
        /\ parts[3] = <<"numbers", h3>> /\ parts[4] = <<"takeaway", h4>>
    OBVIOUS
  <1> HIDE DEF parts
  <1>3. PICK k \in 1..4 : i[2] = parts[k][1] /\ ~ parts[k][2] /\ \A j \in 1..k - 1 : parts[j][2]
    BY <1>1, <1>2, ForemostNames
  <1>4. i[1] = "dashboard_numbers"
    BY <1>1, ForemostNames
  <1>5. k = 1 \/ k = 2 \/ k = 3 \/ k = 4
    OBVIOUS
  <1>6. k = 1 => i[2] = "blocks" /\ ~ h1
    BY <1>2, <1>3
  <1>7. k = 2 => i[2] = "ai_block1" /\ ~ h2
    BY <1>2, <1>3
  <1>8. k = 3 => i[2] = "numbers" /\ ~ h3
    BY <1>2, <1>3
  <1>9. k = 4 => i[2] = "takeaway" /\ ~ h4 /\ h3
    <2>1. k = 4 => i[2] = "takeaway" /\ ~ h4 /\ parts[3][2]
      BY <1>2, <1>3
    <2> QED BY <1>2, <2>1
  <1> QED BY <1>4, <1>5, <1>6, <1>7, <1>8, <1>9 DEF h1, h2, h3, h4

(* So is the check of the dashboards' numbers, where it runs: all but the  *)
(* heading of the AI dashboard are parts of the draft.                     *)
LEMMA NumbersNames ==
    ASSUME NEW r, NEW i \in InvestmentNumbers(r)
    PROVE  \/ i[2] = "blocks" /\ "crypto_news" \in r.blocks /\ "crypto_dashboard" \notin r.blocks
           \/ i[2] = "blocks" /\ {"ai_news", "ai_bridge"} \subseteq r.blocks /\ "ai_dashboard" \notin r.blocks
           \/ i = <<"dashboard_numbers", "ai_block1">> /\ {"ai_news", "ai_bridge"} \subseteq r.blocks
           \/ i[2] = "numbers" /\ r.numbers = {}
           \/ i[2] = "takeaway" /\ r.numbers # {} /\ r.takeaway \cap r.numbers = {}
  <1> DEFINE parts(dashboard, found) ==
                 << <<"blocks", dashboard \in r.blocks>>, <<"ai_block1", found>>, <<"numbers", r.numbers # {}>>,
                    <<"takeaway", r.takeaway \cap r.numbers # {}>> >>
             plain == r.ai_block1 = "plain"
  <1>1. \/ "crypto_news" \in r.blocks /\ i \in Foremost("dashboard_numbers", parts("crypto_dashboard", TRUE))
        \/ /\ {"ai_news", "ai_bridge"} \subseteq r.blocks
           /\ i \in Foremost("dashboard_numbers", parts("ai_dashboard", plain))
    BY Zenon DEF InvestmentNumbers, When
  <1>2. CASE "crypto_news" \in r.blocks /\ i \in Foremost("dashboard_numbers", parts("crypto_dashboard", TRUE))
    <2>1. \/ i[2] = "blocks" /\ "crypto_dashboard" \notin r.blocks
          \/ i[2] = "numbers" /\ r.numbers = {}
          \/ i[2] = "takeaway" /\ r.numbers # {} /\ r.takeaway \cap r.numbers = {}
      BY <1>2, DashboardNames
    <2> QED BY <1>2, <2>1
  <1>3. CASE /\ {"ai_news", "ai_bridge"} \subseteq r.blocks
             /\ i \in Foremost("dashboard_numbers", parts("ai_dashboard", plain))
    <2> HIDE DEF plain
    <2>1. /\ i[1] = "dashboard_numbers"
          /\ \/ i[2] = "blocks" /\ "ai_dashboard" \notin r.blocks
             \/ i[2] = "ai_block1"
             \/ i[2] = "numbers" /\ r.numbers = {}
             \/ i[2] = "takeaway" /\ r.numbers # {} /\ r.takeaway \cap r.numbers = {}
      BY <1>3, DashboardNames
    <2>2. \E x, y : i = <<x, y>>
      BY <1>3 DEF Foremost
    <2>3. i[2] = "ai_block1" => i = <<"dashboard_numbers", "ai_block1">>
      BY <2>1, <2>2
    <2> QED BY <1>3, <2>1, <2>3
  <1> QED BY <1>1, <1>2, <1>3

(* So is a check of the trades.                                            *)
LEMMA TradesNames ==
    ASSUME NEW r, NEW p, NEW on, NEW i \in Trades(r, p, on), i[1] \in Blockers
    PROVE  \/ i[2] = "price" /\ r.price # "number"
           \/ i[2] = "msm" /\ ~ r.msm
           \/ p # "lite" /\ "dashboard_numbers" \in on /\ i \in InvestmentNumbers(r)
  <1> DEFINE h == ~ r.bulleted \/ r.legs = {} \/ r.price = "number"
             watching == TradeWatchMode(r)
             fields == IF r.qsrec = "absent" THEN {} ELSE r.risk_fields
             quoted == r.takeaway # {} \/ r.blocks \cap {"crypto_news", "ai_news"} = {}
             trades == Every("trades", << <<"conflict", r.conflict>>, <<"risk_budget", r.risk_budget>>,
                          <<"graded", p = "lite" \/ r.graded>>,
                          <<"risk_fields", watching \/ {"rr", "drawdown"} \subseteq fields>>,
                          <<"risk_fields", watching \/ {"win_rate", "score"} \subseteq fields>>,
                          <<"takeaway", watching \/ p = "lite" \/ quoted>>,
                          <<"budgets", Cardinality(r.budgets) <= 1>> >>)
  <1>1. \/ i \in trades
        \/ p # "lite" /\ "dashboard_numbers" \in on /\ i \in InvestmentNumbers(r)
        \/ i \in ChatterMsmVerify(r)
        \/ i \in Check("no_price", "price", h)
    BY Zenon DEF Trades, When
  <1>2. i \notin trades
    <2>1. i[1] # "trades"
      BY DEF Blockers
    <2> HIDE DEF watching, fields, quoted
    <2> QED BY <2>1, EveryNames
  <1> HIDE DEF trades, h
  <1>3. i \in Check("no_price", "price", h) => i[2] = "price" /\ ~ h
    BY CheckNames
  <1>4. i \in ChatterMsmVerify(r) => i[2] = "msm" /\ ~ r.msm
    <2> DEFINE g == r.msm \/ \A c \in {<<"crypto_chatter", "crypto_trades">>,
                                       <<"ai_chatter", "ai_trades">>} : ~ Range(c) \subseteq r.blocks
    <2>1. ChatterMsmVerify(r) = Check("chatter_msm", "msm", g)
      BY Zenon DEF ChatterMsmVerify
    <2> HIDE DEF g
    <2>2. i \in ChatterMsmVerify(r) => i[2] = "msm" /\ ~ g
      BY <2>1, CheckNames
    <2> QED BY <2>2 DEF g
  <1> QED BY <1>1, <1>2, <1>3, <1>4 DEF h

(* So is a check of the sections.                                          *)
LEMMA SectionsNames ==
    ASSUME NEW r, NEW p, NEW on, NEW i \in Sections(r, p, on), i[1] \in Blockers
    PROVE  \/ i[2] = "missing" /\ r.missing # {}
           \/ i[2] = "cited" /\ ~ r.cited
  <1> DEFINE few == Cardinality(r.missing) <= 1
             cited == r.cited \/ "earnings" \notin TodayReason(r, "EQUITY").says
                              \/ r.blocks \cap {"ai_bridge", "ai_dashboard"} = {}
             dated == Check("utc8", "stamps", HasNewsUtc8(r))
  <1>1. \/ i \in Check("missing_count", "missing", few)
        \/ i \in FundamentalsCitation(r)
        \/ i \in dated \/ i \in NewsFreshness(r)
        \/ i \in ExecSummary(r) \/ i \in InstitutionalPhaseA(r) \/ i \in InstitutionalPhaseB(r)
        \/ i \in InstitutionalPhaseC(r) \/ i \in CurrentAffairsHtml(r, on)
        \/ i \in CurrentAffairsStructured(r) \/ i \in LiteExecSummaryPass6(r)
    BY Zenon DEF Sections, When
  <1>2. /\ i \notin dated /\ i \notin NewsFreshness(r) /\ i \notin CurrentAffairsStructured(r)
        /\ i \notin ExecSummary(r) /\ i \notin InstitutionalPhaseA(r) /\ i \notin InstitutionalPhaseB(r)
        /\ i \notin InstitutionalPhaseC(r) /\ i \notin CurrentAffairsHtml(r, on)
        /\ i \notin LiteExecSummaryPass6(r)
    <2>1. i[1] \notin {"utc8", "news_freshness", "roundtable_model", "exec_summary", "phase_a", "phase_b",
                       "phase_c", "roundtable", "lite_pass6"}
      BY DEF Blockers
    <2>2. /\ \A j \in dated : j[1] = "utc8"
          /\ \A j \in NewsFreshness(r) : j[1] = "news_freshness"
          /\ \A j \in CurrentAffairsStructured(r) : j[1] = "roundtable_model"
      BY CheckNames DEF NewsFreshness, CurrentAffairsStructured
    <2>3. \A j \in ExecSummary(r) : j[1] = "exec_summary"
      BY ForemostNames DEF ExecSummary
    <2>4. \A j \in InstitutionalPhaseA(r) : j[1] = "phase_a"
      BY ForemostNames DEF InstitutionalPhaseA
    <2>5. \A j \in InstitutionalPhaseB(r) : j[1] = "phase_b"
      <3>1. \E parts : InstitutionalPhaseB(r) = Foremost("phase_b", parts)
        BY Zenon DEF InstitutionalPhaseB
      <3> QED BY <3>1, ForemostNames
    <2>6. \A j \in InstitutionalPhaseC(r) : j[1] = "phase_c"
      BY ForemostNames DEF InstitutionalPhaseC
    <2>7. \A j \in CurrentAffairsHtml(r, on) : j[1] = "roundtable"
      BY ForemostNames DEF CurrentAffairsHtml
    <2>8. \A j \in LiteExecSummaryPass6(r) : j[1] = "lite_pass6"
      BY EveryNames DEF LiteExecSummaryPass6, When
    <2> HIDE DEF dated
    <2> QED BY <2>1, <2>2, <2>3, <2>4, <2>5, <2>6, <2>7, <2>8
  <1>3. FundamentalsCitation(r) = Check("fundamentals_cited", "cited", cited)
    BY Zenon DEF FundamentalsCitation
  <1> HIDE DEF few, cited, dated
  <1>4. /\ i \in Check("missing_count", "missing", few) => i[2] = "missing" /\ ~ few
        /\ i \in FundamentalsCitation(r) => i[2] = "cited" /\ ~ cited
    BY <1>3, CheckNames
  <1>5. ~ few => r.missing # {}
    BY FS_EmptySet DEF few
  <1>6. ~ cited => ~ r.cited
    BY DEF cited
  <1> QED BY <1>1, <1>2, <1>4, <1>5, <1>6

(* A report that is what its writer drafted: every part a value the writer *)
(* gives it.                                                               *)
Drafted(d, p) == \A x \in DOMAIN d : d[x] \in Wrong[p][x]

(* A part of the report is the draft's, else the sound one.                *)
LEMMA PartOfReport ==
    ASSUME NEW d, NEW p, NEW x \in DOMAIN Sound[p]
    PROVE  Report(d, p)[x] = IF x \in DOMAIN d THEN d[x] ELSE Sound[p][x]
  BY DEF Report

(* What the proof needs of the sound report and of the wrong values.       *)
LEMMA SoundValues ==
    ASSUME NEW p \in Profiles
    PROVE  /\ {"length", "tags", "regime", "blocks", "qsrec", "recs", "crypto_why", "equity_why", "cited", "missing",
              "price", "msm", "leak", "numbers", "takeaway"} \subseteq DOMAIN Sound[p]
           /\ Sound[p].length = "long" /\ Sound[p].regime = "neutral" /\ Sound[p].qsrec = "valid"
           /\ Sound[p].recs = Markets /\ Sound[p].blocks = PROFILES[p]
           /\ Sound[p].tags = (CASE p = "full" -> 6 [] p = "crypto_only" -> 3 [] OTHER -> 0)
           /\ Sound[p].crypto_why = GoodWhy /\ Sound[p].equity_why = GoodWhy
           /\ Sound[p].cited /\ Sound[p].missing = {} /\ Sound[p].price = "number" /\ Sound[p].msm
           /\ Sound[p].leak = "none" /\ Sound[p].numbers = {55} /\ Sound[p].takeaway = {55}
  BY DEF Sound

(* The wrong values of the parts several checks read together.             *)
LEMMA WrongValues ==
    ASSUME NEW p \in Profiles
    PROVE  /\ Wrong[p].tags = {0, 2, 3, 5}
           /\ Wrong[p].recs = {{"CRYPTO"}, {"EQUITY"}}
           /\ Wrong[p].numbers = {{}}
           /\ Wrong[p].crypto_why = {NoWhy, Why("short", 2, FALSE, TRUE, {}), Why("mid", 1, TRUE, FALSE, {}),
                     Why("mid", 1, FALSE, TRUE, {}), Why("long", 2, FALSE, TRUE, {"again"})}
           /\ Wrong[p].blocks = {PROFILES[p] \ {b} : b \in PROFILES[p]}
                  \cup {PROFILES[p] \cup {b} : b \in CryptoBlocks \cup AiBlocks \cup
                                              {"previous_recs", "institutional_view"}}
  <1> USE DEF Wrong
  <1>1. Wrong[p].tags = {0, 2, 3, 5}
    BY Zenon
  <1>2. Wrong[p].recs = {{"CRYPTO"}, {"EQUITY"}}
    BY Zenon
  <1>3. Wrong[p].numbers = {{}}
    BY Zenon
  <1>4. Wrong[p].crypto_why = {NoWhy, Why("short", 2, FALSE, TRUE, {}), Why("mid", 1, TRUE, FALSE, {}),
                     Why("mid", 1, FALSE, TRUE, {}), Why("long", 2, FALSE, TRUE, {"again"})}
    BY Zenon
  <1>5. Wrong[p].blocks = {PROFILES[p] \ {b} : b \in PROFILES[p]}
                  \cup {PROFILES[p] \cup {b} : b \in CryptoBlocks \cup AiBlocks \cup
                                              {"previous_recs", "institutional_view"}}
    BY Zenon
  <1> HIDE DEF Wrong
  <1> QED BY <1>1, <1>2, <1>3, <1>4, <1>5

(* The one check that no draft of the full profile meets.                  *)
Unmeetable(p) == IF p = "full" THEN {<<"dashboard_numbers", "ai_block1">>} ELSE {}

(* If any other issue blocks the report, one of the issues names a part in *)
(* which its draft differs from a sound one.                               *)
LEMMA BlockedByTheDraft ==
    ASSUME NEW d, NEW p \in Profiles, NEW on, Drafted(d, p),
           NEW i \in ValidateReport(Report(d, p), p, on), i[1] \in Blockers, i \notin Unmeetable(p)
    PROVE  \E j \in ValidateReport(Report(d, p), p, on) : j[2] \in DOMAIN d
  <1> DEFINE r == Report(d, p)
             all == ValidateReport(r, p, on)
  <1> SUFFICES ASSUME \A j \in all : j[2] \notin DOMAIN d
               PROVE  FALSE
    OBVIOUS
  <1>1. \A x \in DOMAIN Sound[p] : r[x] = IF x \in DOMAIN d THEN d[x] ELSE Sound[p][x]
    BY PartOfReport
  <1>2. i[2] \notin DOMAIN d
    OBVIOUS
  <1> HIDE DEF r
  <1>3. /\ "length" \notin DOMAIN d => r.length = "long"
        /\ "regime" \notin DOMAIN d => r.regime = "neutral"
        /\ "cited" \notin DOMAIN d => r.cited
        /\ "missing" \notin DOMAIN d => r.missing = {}
        /\ "price" \notin DOMAIN d => r.price = "number"
        /\ "msm" \notin DOMAIN d => r.msm
        /\ "leak" \notin DOMAIN d => r.leak = "none"
    BY <1>1, SoundValues
  <1>4. "blocks" \notin DOMAIN d => r.blocks = PROFILES[p]
    BY <1>1, SoundValues
  <1>5. i \notin Structure(r, p, on)
    <2> SUFFICES ASSUME i \in Structure(r, p, on) PROVE FALSE
      OBVIOUS
    <2>1. \/ i[2] = "tags" /\ p # "lite" /\ ~ NewsSixRelaxed(r, p, on) /\ ~ r.tags >= 6
          \/ i[2] = "numbered" /\ p # "lite" /\ ~ NewsSixRelaxed(r, p, on) /\ ~ CountEffectiveNews(r) >= 6
          \/ i[2] = "blocks" /\ ~ BlocksThere(r, p)
          \/ i[2] = "qsrec" /\ Recs(r) = {}
      BY <1>2, <1>3, StructureNames
    <2>2. "blocks" \notin DOMAIN d => BlocksThere(r, p)
      BY <1>4 DEF BlocksThere, HasCryptoTrade, HasAiTrade, HasAiSection, HasCryptoSection,
                  Profiles, PROFILES, CryptoBlocks, AiBlocks
    <2>3. "qsrec" \notin DOMAIN d => Recs(r) # {}
      <3>1. "qsrec" \notin DOMAIN d => r.qsrec = "valid"
        BY <1>1, SoundValues
      <3>2. r.recs # {}
        <4>1. "recs" \in DOMAIN d => d["recs"] \in {{"CRYPTO"}, {"EQUITY"}}
          BY WrongValues DEF Drafted
        <4>2. r["recs"] = IF "recs" \in DOMAIN d THEN d["recs"] ELSE Markets
          BY <1>1, SoundValues
        <4> QED BY <4>1, <4>2 DEF Markets
      <3> QED BY <3>1, <3>2 DEF Recs
    <2>4. CASE p # "lite" /\ ~ NewsSixRelaxed(r, p, on) /\ "tags" \notin DOMAIN d
      <3>1. r.tags = CASE p = "full" -> 6 [] p = "crypto_only" -> 3 [] OTHER -> 0
        BY <1>1, <2>4, SoundValues
      <3>2. r.tags = 6
        BY <2>4, <3>1 DEF NewsSixRelaxed, Profiles, PROFILES
      <3> QED BY <1>2, <2>1, <2>2, <2>3, <3>2 DEF CountEffectiveNews
    <2>5. CASE p # "lite" /\ ~ NewsSixRelaxed(r, p, on) /\ "tags" \in DOMAIN d
      <3>1. r.tags \in {0, 2, 3, 5}
        BY <1>1, <2>5, SoundValues, WrongValues DEF Drafted
      <3>2. <<"structure", "tags">> \in all
        <4> DEFINE lite == p = "lite"
                   relaxed == lite \/ NewsSixRelaxed(r, p, on)
                   h1 == lite \/ r.length = "long" \/ (p = "crypto_only" /\ r.length = "mid")
                   h2 == relaxed \/ r.tags >= 6
                   h3 == relaxed \/ CountEffectiveNews(r) >= 6
                   h4 == NamesRegime(r)
                   h5 == /\ HasCryptoTrade(r)
                         /\ HasAiTrade(r) \/ p = "crypto_only"
                         /\ HasAiSection(r) \/ p # "full"
                         /\ HasCryptoSection(r) \/ lite
                   h6 == Recs(r) # {}
                   parts == << <<"length", h1>>, <<"tags", h2>>, <<"numbered", h3>>, <<"regime", h4>>,
                               <<"blocks", h5>>, <<"qsrec", h6>> >>
        <4>1. Every("structure", parts) \subseteq all
          BY DEF Structure, ValidateReport
        <4>2. ~ h2
          BY <2>5, <3>1
        <4> HIDE DEF h1, h2, h3, h4, h5, h6
        <4>3. 2 \in DOMAIN parts /\ parts[2] = <<"tags", h2>>
          OBVIOUS
        <4> HIDE DEF parts, all
        <4>4. parts[2][1] = "tags" /\ ~ parts[2][2]
          BY <4>2, <4>3
        <4> QED BY <4>1, <4>3, <4>4, FailureIsNamed
      <3> QED BY <2>5, <3>2
    <2> QED BY <1>2, <2>1, <2>2, <2>3, <2>4, <2>5
  <1>6. i \notin Picks(r, p, on)
    <2> SUFFICES ASSUME i \in Picks(r, p, on) PROVE FALSE
      OBVIOUS
    <2>1. "equity_why" \notin DOMAIN d /\ "fundamentals" \in TodayReason(r, "EQUITY").says
      BY <1>2, PicksNames
    <2>2. r.equity_why = GoodWhy
      BY <1>1, <2>1, SoundValues
    <2>3. "fundamentals" \notin r.crypto_why.says
      <3>1. "crypto_why" \in DOMAIN d => "fundamentals" \notin d["crypto_why"].says
        BY WrongValues DEF Drafted, NoWhy, Why
      <3>2. r["crypto_why"] = IF "crypto_why" \in DOMAIN d THEN d["crypto_why"] ELSE GoodWhy
        BY <1>1, SoundValues
      <3> QED BY <3>1, <3>2 DEF GoodWhy, Why
    <2>4. TodayReason(r, "EQUITY") \in {NoWhy, r.crypto_why, r.equity_why}
      BY DEF TodayReason, Why_
    <2> QED BY <2>1, <2>2, <2>3, <2>4 DEF NoWhy, GoodWhy, Why
  <1>7. i \notin Sections(r, p, on)
    BY <1>2, <1>3, SectionsNames
  <1>8. i \notin Trades(r, p, on)
    <2> SUFFICES ASSUME i \in Trades(r, p, on) PROVE FALSE
      OBVIOUS
    <2>1. p # "lite" /\ i \in InvestmentNumbers(r)
      BY <1>2, <1>3, TradesNames
    <2>2. p = "crypto_only" => ~ {"ai_news", "ai_bridge"} \subseteq r.blocks
      <3> SUFFICES ASSUME p = "crypto_only" PROVE ~ {"ai_news", "ai_bridge"} \subseteq r.blocks
        OBVIOUS
      <3>1. "blocks" \in DOMAIN d => d["blocks"] \in Wrong[p]["blocks"]
        BY DEF Drafted
      <3>2. {"ai_news", "ai_bridge"} \cap PROFILES[p] = {}
        BY DEF PROFILES, CryptoBlocks
      <3>3. \A b \in Wrong[p]["blocks"] : ~ {"ai_news", "ai_bridge"} \subseteq b
        <4> SUFFICES ASSUME NEW b \in Wrong[p]["blocks"], "ai_news" \in b, "ai_bridge" \in b
                     PROVE  FALSE
          OBVIOUS
        <4>1. b \in Wrong[p].blocks
          OBVIOUS
        <4>2. (\E c : b = PROFILES[p] \ {c}) \/ (\E c : b = PROFILES[p] \cup {c})
          <5>1. b \in {PROFILES[p] \ {c} : c \in PROFILES[p]}
                      \cup {PROFILES[p] \cup {c} : c \in CryptoBlocks \cup AiBlocks \cup
                                                  {"previous_recs", "institutional_view"}}
            BY <4>1, WrongValues
          <5> QED BY <5>1, Zenon
        <4> QED BY <3>2, <4>2
      <3>4. r["blocks"] = IF "blocks" \in DOMAIN d THEN d["blocks"] ELSE PROFILES[p]
        BY <1>1, SoundValues
      <3> QED BY <3>1, <3>2, <3>3, <3>4
    <2>3. p \in {"full", "crypto_only"} /\ (i[2] = "ai_block1" => p = "crypto_only" \/ i \in Unmeetable(p))
      <3>1. p \in {"full", "crypto_only"}
        BY <2>1 DEF Profiles, PROFILES
      <3>2. i[2] = "ai_block1" => i = <<"dashboard_numbers", "ai_block1">>
        BY <2>1, NumbersNames
      <3> QED BY <3>1, <3>2 DEF Unmeetable
    <2>4. "blocks" \notin DOMAIN d =>
             /\ "crypto_dashboard" \in r.blocks
             /\ p = "full" => "ai_dashboard" \in r.blocks
      BY <1>4, <2>3 DEF PROFILES, CryptoBlocks, AiBlocks
    <2>5. /\ "numbers" \notin DOMAIN d => r.numbers = {55}
          /\ "takeaway" \notin DOMAIN d => r.takeaway = {55}
          /\ r.numbers = {55} \/ r.numbers = {}
      <3>1. "takeaway" \notin DOMAIN d => r.takeaway = {55}
        BY <1>1, SoundValues
      <3>2. "numbers" \in DOMAIN d => d["numbers"] = {}
        <4>1. Wrong[p]["numbers"] = {{}}
          BY WrongValues
        <4> QED BY <4>1 DEF Drafted
      <3>3. "numbers" \in DOMAIN Sound[p] /\ Sound[p]["numbers"] = {55}
        BY SoundValues
      <3>4. /\ "numbers" \notin DOMAIN d => r.numbers = {55}
            /\ r.numbers = {55} \/ r.numbers = {}
        BY <1>1, <3>2, <3>3
      <3> QED BY <3>1, <3>4
    <2>6. \/ i[2] = "blocks" /\ "crypto_dashboard" \notin r.blocks
          \/ i[2] = "blocks" /\ p = "full" /\ "ai_dashboard" \notin r.blocks
          \/ i[2] = "numbers" /\ r.numbers = {}
          \/ i[2] = "takeaway" /\ r.numbers # {} /\ r.takeaway \cap r.numbers = {}
      <3>1. i \in Unmeetable(p) => FALSE
        OBVIOUS
      <3> QED BY <2>1, <2>2, <2>3, <3>1, NumbersNames
    <2>7. i[2] # "blocks"
      BY <1>2, <2>4, <2>6
    <2> QED BY <1>2, <2>5, <2>6, <2>7
  <1>9. i \notin Readings(r, on)
    BY <1>2, <1>3, ReadingsBlock
  <1>10. i \notin ProfileBlockConsistency(r, p)
    <2>1. i[1] # "profile"
      BY DEF Blockers
    <2>2. \A j \in ProfileBlockConsistency(r, p) : j[1] = "profile"
      <3>1. \A j \in ProfileBlockConsistency(r, p) : \E holds : j \in Check("profile", "blocks", holds)
        BY Zenon DEF ProfileBlockConsistency, When
      <3> QED BY <3>1, CheckNames
    <2> QED BY <2>1, <2>2
  <1> QED BY <1>5, <1>6, <1>7, <1>8, <1>9, <1>10 DEF r, ValidateReport

(* The issues are those of the draft, whose parts are the writer's.        *)
GateInv ==
    /\ profile \in Profiles /\ tried \in Nat
    /\ tried > 0 => issues = ValidateReport(Report(draft, profile), profile, gates)
    /\ Drafted(draft, profile)

(* Every draft is made of the writer's wrong values, and judged whole.     *)
LEMMA GateStep == GateInv /\ [GateNext]_gateVars => GateInv'
  <1> SUFFICES ASSUME GateInv, [GateNext]_gateVars
               PROVE  GateInv'
    OBVIOUS
  <1>1. ASSUME NEW d, Judged(d), Drafted(d, profile)
        PROVE  GateInv'
    BY <1>1 DEF GateInv, Judged
  <1>2. CASE FirstDraft
    <2>1. CASE Judged(<< >>)
      <3>1. Drafted(<< >>, profile)
        BY DEF Drafted
      <3> QED BY <1>1, <2>1, <3>1
    <2>2. CASE ~ Judged(<< >>)
      <3>1. PICK x, y \in DOMAIN Sound[profile] : \E v \in Wrong[profile][x], w \in Wrong[profile][y] :
               Judged([part \in {x, y} |-> IF part = x THEN v ELSE w])
        BY <1>2, <2>2, Zenon DEF FirstDraft
      <3>2. PICK v \in Wrong[profile][x], w \in Wrong[profile][y] :
               Judged([part \in {x, y} |-> IF part = x THEN v ELSE w])
        BY <3>1
      <3> DEFINE d == [part \in {x, y} |-> IF part = x THEN v ELSE w]
      <3>3. Drafted(d, profile)
        BY <3>2 DEF Drafted
      <3>4. Judged(d)
        BY <3>2
      <3> HIDE DEF d
      <3> QED BY <1>1, <3>3, <3>4
    <2> QED BY <2>1, <2>2
  <1>3. CASE Redraft
    <2>1. PICK named : Judged([x \in DOMAIN draft \ named |-> draft[x]])
      BY <1>3 DEF Redraft
    <2>2. Drafted([x \in DOMAIN draft \ named |-> draft[x]], profile)
      BY DEF GateInv, Drafted
    <2> QED BY <1>1, <2>1, <2>2
  <1>4. CASE UNCHANGED gateVars
    BY <1>4 DEF gateVars, GateInv
  <1> QED BY <1>2, <1>3, <1>4 DEF GateNext

(* So is the one part of a check of one.                                   *)
LEMMA OneFailureIsNamed ==
    ASSUME NEW check, NEW part, NEW holds, ~ holds
    PROVE  <<check, part>> \in Check(check, part, holds)
  <1> DEFINE parts == <<<<part, holds>>>>
  <1>1. 1 \in DOMAIN parts /\ parts[1] = <<part, holds>>
    OBVIOUS
  <1>2. parts[1][1] = part /\ ~ parts[1][2]
    BY <1>1
  <1> HIDE DEF parts
  <1>3. <<check, part>> \in Every(check, parts)
    BY <1>1, <1>2, FailureIsNamed
  <1> QED BY <1>3 DEF Check, parts

(* What the checks of the structure ask of a report.                       *)
LEMMA StructureAsks ==
    ASSUME NEW r, NEW p, NEW on, \A i \in Structure(r, p, on) : i[1] # "structure"
    PROVE  /\ p # "lite" => NewsSixRelaxed(r, p, on) \/ r.tags >= 6
           /\ HasCryptoTrade(r) /\ (HasAiTrade(r) \/ p = "crypto_only")
           /\ Recs(r) # {}
  <1> DEFINE lite == p = "lite"
             relaxed == lite \/ NewsSixRelaxed(r, p, on)
             h1 == lite \/ r.length = "long" \/ (p = "crypto_only" /\ r.length = "mid")
             h2 == relaxed \/ r.tags >= 6
             h3 == relaxed \/ CountEffectiveNews(r) >= 6
             h4 == NamesRegime(r)
             h5 == /\ HasCryptoTrade(r)
                   /\ HasAiTrade(r) \/ p = "crypto_only"
                   /\ HasAiSection(r) \/ p # "full"
                   /\ HasCryptoSection(r) \/ lite
             h6 == Recs(r) # {}
             parts == << <<"length", h1>>, <<"tags", h2>>, <<"numbered", h3>>, <<"regime", h4>>,
                         <<"blocks", h5>>, <<"qsrec", h6>> >>
  <1>1. Every("structure", parts) \subseteq Structure(r, p, on)
    BY DEF Structure
  <1> HIDE DEF h1, h2, h3, h4, h5, h6
  <1>2. /\ DOMAIN parts = 1..6
        /\ parts[2] = <<"tags", h2>>
        /\ parts[5] = <<"blocks", h5>> /\ parts[6] = <<"qsrec", h6>>
    OBVIOUS
  <1> HIDE DEF parts
  <1>3. ASSUME NEW i \in 1..6 PROVE parts[i][2]
    <2> SUFFICES ASSUME ~ parts[i][2] PROVE FALSE
      OBVIOUS
    <2>1. <<"structure", parts[i][1]>> \in Structure(r, p, on)
      BY <1>1, <1>2, FailureIsNamed
    <2> QED BY <2>1
  <1>4. parts[2][2] /\ parts[5][2] /\ parts[6][2]
    BY <1>3
  <1>5. h2 /\ h5 /\ h6
    BY <1>2, <1>4
  <1> QED BY <1>5 DEF h2, h5, h6

(* A missing news source and a tool's name are named by checks that block. *)
LEMMA BlockersAsk ==
    ASSUME NEW r, NEW p, NEW on,
           \A i \in ValidateReport(r, p, on) : i[1] \notin {"code_leak", "critical_missing"}
    PROVE  "newsapi" \notin r.missing /\ r.leak # "code"
  <1> DEFINE h2 == r.leak # "code"
             h3 == "newsapi" \notin r.missing
  <1>1. /\ Check("code_leak", "leak", h2) \subseteq ValidateReport(r, p, on)
        /\ Check("critical_missing", "missing", h3) \subseteq ValidateReport(r, p, on)
    <2>2. Check("code_leak", "leak", h2) \subseteq Readings(r, on)
      BY DEF Readings
    <2>3. Check("critical_missing", "missing", h3) \subseteq Readings(r, on)
      BY DEF Readings
    <2> QED BY <2>2, <2>3 DEF ValidateReport
  <1> HIDE DEF h2, h3
  <1>3. h2
    <2> SUFFICES ASSUME ~ h2 PROVE FALSE
      OBVIOUS
    <2>1. <<"code_leak", "leak">> \in Check("code_leak", "leak", h2)
      BY OneFailureIsNamed
    <2> QED BY <1>1, <2>1
  <1>4. h3
    <2> SUFFICES ASSUME ~ h3 PROVE FALSE
      OBVIOUS
    <2>1. <<"critical_missing", "missing">> \in Check("critical_missing", "missing", h3)
      BY OneFailureIsNamed
    <2> QED BY <1>1, <2>1
  <1> QED BY <1>3, <1>4 DEF h2, h3

(* What the news of a report without blockers are.                         *)
LEMMA NewsAreEnough ==
    ASSUME NEW r, NEW on, NEW p \in Profiles, r.tags \in Nat,
           p # "lite" => NewsSixRelaxed(r, p, on) \/ r.tags >= 6
    PROVE  \/ r.tags >= [full |-> 6, crypto_only |-> 3, lite |-> 0][p]
           \/ r.tags >= 3 /\ r.notice = "full"
           \/ \E m \in Markets : m \notin r.legs \/ m \in r.watch
  <1>1. CASE p = "lite"
    BY <1>1
  <1>2. CASE p # "lite" /\ TradeWatchMode(r)
    BY <1>2 DEF TradeWatchMode, Watching
  <1>3. CASE p # "lite" /\ ~ TradeWatchMode(r)
    BY <1>3 DEF NewsSixRelaxed, PartialNewsOk, Profiles, PROFILES
  <1> QED BY <1>1, <1>2, <1>3

(* Whatever the writer's drafts, however often it is asked and whatever    *)
(* switches are on, a report no check blocks is one its readers can use.   *)
THEOREM DeliverableReportsAreWhole == GateSpec => []DeliverableIsWhole
  <1>1. GateInit => GateInv
    BY DEF GateInit, GateInv, Drafted
  <1>2. GateInv => DeliverableIsWhole
    <2> DEFINE r == Report(draft, profile)
    <2> SUFFICES ASSUME GateInv, tried > 0, BlockingIssues(issues) = {}
                 PROVE  /\ r.qsrec = "valid"
                        /\ PROFILES[profile] \cap {"crypto_trades", "ai_trades"} \subseteq r.blocks
                        /\ "newsapi" \notin r.missing /\ r.leak # "code"
                        /\ \/ r.tags >= [full |-> 6, crypto_only |-> 3, lite |-> 0][profile]
                           \/ r.tags >= 3 /\ r.notice = "full"
                           \/ \E m \in Markets : m \notin r.legs \/ m \in r.watch
      BY DEF DeliverableIsWhole
    <2>1. profile \in Profiles /\ issues = ValidateReport(r, profile, gates)
      BY DEF GateInv
    <2>2. r.tags \in Nat
      <3>1. "tags" \in DOMAIN Sound[profile] /\ Sound[profile]["tags"] \in Nat
        BY <2>1 DEF Sound
      <3>2. r["tags"] = IF "tags" \in DOMAIN draft THEN draft["tags"] ELSE Sound[profile]["tags"]
        BY <3>1 DEF Report
      <3>3. "tags" \in DOMAIN draft => draft["tags"] \in Wrong[profile].tags
        BY DEF GateInv, Drafted
      <3>4. Wrong[profile].tags = {0, 2, 3, 5}
        BY <2>1, WrongValues
      <3> QED BY <3>1, <3>2, <3>3, <3>4
    <2> HIDE DEF r
    <2>3. \A i \in ValidateReport(r, profile, gates) : i[1] \notin Blockers
      BY <2>1 DEF BlockingIssues
    <2>4. Structure(r, profile, gates) \subseteq ValidateReport(r, profile, gates)
      BY DEF ValidateReport
    <2>5. /\ profile # "lite" => NewsSixRelaxed(r, profile, gates) \/ r.tags >= 6
          /\ HasCryptoTrade(r) /\ (HasAiTrade(r) \/ profile = "crypto_only")
          /\ Recs(r) # {}
      <3>1. \A i \in Structure(r, profile, gates) : i[1] # "structure"
        BY <2>3, <2>4 DEF Blockers
      <3> QED BY <3>1, StructureAsks
    <2>6. "newsapi" \notin r.missing /\ r.leak # "code"
      <3>1. \A i \in ValidateReport(r, profile, gates) :
               i[1] \notin {"code_leak", "critical_missing"}
        BY <2>3 DEF Blockers
      <3> QED BY <3>1, BlockersAsk
    <2>7. r.qsrec = "valid"
      BY <2>5 DEF Recs
    <2>8. PROFILES[profile] \cap {"crypto_trades", "ai_trades"} \subseteq r.blocks
      <3>1. "ai_trades" \notin PROFILES["crypto_only"]
        BY DEF PROFILES, CryptoBlocks
      <3> QED BY <2>5, <3>1 DEF HasCryptoTrade, HasAiTrade
    <2>9. \/ r.tags >= [full |-> 6, crypto_only |-> 3, lite |-> 0][profile]
          \/ r.tags >= 3 /\ r.notice = "full"
          \/ \E m \in Markets : m \notin r.legs \/ m \in r.watch
      BY <2>1, <2>2, <2>5, NewsAreEnough
    <2> QED BY <2>6, <2>7, <2>8, <2>9
  <1> QED BY <1>1, <1>2, GateStep, PTL DEF GateSpec

(* What the feedback names are the parts of the issues.                    *)
Named == {i[2] : i \in issues}

(* The feedback names the part of every issue and nothing else             *)
(* (gate_feedback).                                                        *)
LEMMA FeedbackNames == {line[2][2] : line \in GateFeedback(issues)} = Named
  <1>1. ASSUME NEW n, n \in {line[2][2] : line \in GateFeedback(issues)} PROVE n \in Named
    <2>1. PICK line \in GateFeedback(issues) : n = line[2][2]
      BY <1>1
    <2>2. PICK i \in issues : line = <<i[1] \in Instructed, i>>
      BY <2>1, Zenon DEF GateFeedback
    <2>3. line[2] = i
      BY <2>2
    <2> QED BY <2>1, <2>3 DEF Named
  <1>2. ASSUME NEW i \in issues PROVE i[2] \in {line[2][2] : line \in GateFeedback(issues)}
    <2> DEFINE line == <<i[1] \in Instructed, i>>
    <2>1. line \in GateFeedback(issues)
      BY Zenon DEF GateFeedback
    <2>2. line[2] = i
      OBVIOUS
    <2> QED BY <2>1, <2>2
  <1> QED BY <1>1, <1>2 DEF Named

(* Nothing that the writer is told about is left to put right; before      *)
(* that, every draft is wrong in a part less than the one before it.       *)
Settled == Named \cap DOMAIN draft = {}

MendingInv ==
    \/ tried = 0
    \/ tried > 0 /\ Settled
    \/ tried = 1 /\ \E x, y : DOMAIN draft \subseteq {x, y}
    \/ tried = 2 /\ \E x : DOMAIN draft \subseteq {x}

(* A writer that mends what it is told about is right after two drafts     *)
(* more: the first is wrong in two parts at most.                          *)
LEMMA MendingStep == GateInv /\ MendingInv /\ [GateNext]_gateVars => MendingInv'
  <1> SUFFICES ASSUME GateInv, MendingInv, [GateNext]_gateVars
               PROVE  MendingInv'
    OBVIOUS
  <1>1. CASE FirstDraft
    <2>1. PICK d : Judged(d) /\ \E x, y : DOMAIN d \subseteq {x, y}
      <3>1. CASE Judged(<< >>)
        BY <3>1
      <3>2. CASE ~ Judged(<< >>)
        <4>1. PICK x, y \in DOMAIN Sound[profile] : \E v \in Wrong[profile][x], w \in Wrong[profile][y] :
                 Judged([part \in {x, y} |-> IF part = x THEN v ELSE w])
          BY <1>1, <3>2, Zenon DEF FirstDraft
        <4> QED BY <4>1
      <3> QED BY <3>1, <3>2
    <2>2. draft' = d /\ tried' = 1 /\ UNCHANGED <<profile, gates>>
      BY <1>1, <2>1 DEF FirstDraft, Judged
    <2> QED BY <2>1, <2>2 DEF MendingInv
  <1>2. CASE Redraft
    <2> DEFINE d == [x \in DOMAIN draft \ Named |-> draft[x]]
    <2>1. tried > 0 /\ Judged(d)
      BY <1>2, FeedbackNames DEF Redraft, GateInv
    <2>2. /\ draft' = d /\ tried' = tried + 1 /\ profile' = profile /\ gates' = gates
          /\ issues' = ValidateReport(Report(d, profile), profile, gates)
      BY <2>1 DEF Judged
    <2>3. DOMAIN d = DOMAIN draft \ Named /\ \A x \in DOMAIN d : d[x] = draft[x]
      OBVIOUS
    <2> HIDE DEF d
    <2>4. CASE Settled
      <3>1. DOMAIN d = DOMAIN draft
        BY <2>3, <2>4 DEF Settled
      <3>2. Report(d, profile) = Report(draft, profile)
        BY <2>3, <3>1 DEF Report
      <3>3. issues' = issues
        BY <2>1, <2>2, <3>2 DEF GateInv
      <3>4. Settled'
        BY <2>2, <2>4, <3>1, <3>3 DEF Settled, Named
      <3> QED BY <2>1, <2>2, <3>4 DEF MendingInv, GateInv
    <2>5. CASE ~ Settled
      <3>1. PICK z \in DOMAIN draft : z \in Named
        BY <2>5 DEF Settled
      <3>2. z \notin DOMAIN draft' /\ DOMAIN draft' \subseteq DOMAIN draft
        BY <2>2, <2>3, <3>1
      <3>3. CASE tried = 1 /\ \E x, y : DOMAIN draft \subseteq {x, y}
        <4>1. \E x : DOMAIN draft' \subseteq {x}
          BY <3>1, <3>2, <3>3
        <4>2. tried' = 2
          BY <2>2, <3>3
        <4> QED BY <2>2, <4>1, <4>2 DEF MendingInv
      <3>4. CASE tried = 2 /\ \E x : DOMAIN draft \subseteq {x}
        <4>1. DOMAIN draft' = {}
          BY <3>1, <3>2, <3>4
        <4>2. Settled' /\ tried' > 0
          BY <2>2, <3>4, <4>1 DEF Settled
        <4> QED BY <2>2, <4>2 DEF MendingInv
      <3> QED BY <2>1, <2>5, <3>3, <3>4 DEF MendingInv, GateInv
    <2> QED BY <2>4, <2>5
  <1>3. CASE UNCHANGED gateVars
    BY <1>3 DEF gateVars, MendingInv, Settled, Named
  <1> QED BY <1>1, <1>2, <1>3 DEF GateNext

(* Where two retries and more are allowed, a writer that mends whatever    *)
(* the feedback names delivers, whatever switches are on: after the last   *)
(* retry no issue blocks the report (validate_report, build_gate_feedback  *)
(* and the retry loop of main.py), but for the check of the full profile   *)
(* that looks for a heading the templates print otherwise.                 *)
THEOREM ObedientWritersDeliver ==
    ASSUME MaxReportRetries \in Nat, MaxReportRetries >= 2
    PROVE  GateSpec => []ObedientWriterDelivers
  <1>1. GateInit => GateInv /\ MendingInv
    BY DEF GateInit, GateInv, Drafted, MendingInv
  <1>2. GateInv /\ MendingInv => ObedientWriterDelivers
    <2> SUFFICES ASSUME GateInv, MendingInv, tried > MaxReportRetries,
                        NEW i \in issues, i[1] \in Blockers, i \notin Unmeetable(profile)
                 PROVE  FALSE
      BY DEF ObedientWriterDelivers, BlockingIssues, Unmeetable
    <2>1. tried > 0 /\ Settled
      BY DEF MendingInv, GateInv
    <2>2. issues = ValidateReport(Report(draft, profile), profile, gates)
      BY <2>1 DEF GateInv
    <2>3. \E j \in issues : j[2] \in DOMAIN draft
      BY <2>2, BlockedByTheDraft DEF GateInv
    <2> QED BY <2>1, <2>3 DEF Settled, Named
  <1> QED BY <1>1, <1>2, GateStep, MendingStep, PTL DEF GateSpec

(***************************************************************************)
(* The brief: what every repair keeps of the parsed answer, and what it    *)
(* sets right for good.                                                    *)
(***************************************************************************)

BriefFields ==
    {"regime", "legs", "rows", "labelled", "body", "news", "stamps", "pricing", "chatter", "scenario_k", "chances",
     "supports", "contras", "assumptions", "calendar", "rsi_card", "rsi_row", "spot", "crypto_rows", "ai_rows",
     "highlights", "filing", "agency", "notice", "predictions", "summary"}
LegFields == {"direction", "stars", "scenarios", "invalidation", "share", "usable", "ratios", "liquidity", "trigger"}
RowFields == {"direction", "side", "geometry", "gap", "scored", "confidence", "scenarios", "narrative", "category", "mode"}

Shape(b) ==
    /\ DOMAIN b = {"of", "text", "leg", "row"}
    /\ DOMAIN b.of = BriefFields
    /\ DOMAIN b.text = Texts
    /\ DOMAIN b.leg = Assets /\ \A a \in Assets : DOMAIN b.leg[a] = LegFields
    /\ DOMAIN b.row = Assets /\ \A a \in Assets : DOMAIN b.row[a] = RowFields

(* c is b but for the fields F and the texts T.                            *)
But(b, c, F, T) ==
    /\ Shape(c) /\ c.leg = b.leg /\ c.row = b.row
    /\ \A f \in BriefFields \ F : c.of[f] = b.of[f]
    /\ \A f \in Texts \ T : c.text[f] = b.text[f]

(* What no repair takes from a text, and what none adds to it.             *)
TextKept(t, u) ==
    /\ {"said", "prefix", "again", "ma20_cited"} \cap t \subseteq u
    /\ {"ma20_near", "ma20_digits", "index_low", "full", "overlong"} \cap u \subseteq t
    /\ t \cap Cites # {} <=> u \cap Cites # {}
    /\ t \cap Regimes # {} => u \cap Regimes # {}

Chances(c) == Len(c) >= 3 /\ c[1] + c[2] + c[3] = 100

CalendarKept(s, t) ==
    /\ Generics \cap Range(s) = {} => Len(t) = Len(s)
    /\ Range(t) \cap (Generics \cup {"undated"}) \subseteq Range(s)

Kept == {"legs", "rows", "body", "news", "pricing", "supports", "contras", "assumptions"}

(* What the rules read, in c as in b or better.                            *)
Keeps(b, c) ==
    /\ Shape(c)
    /\ \A f \in Kept : c.of[f] = b.of[f]
    /\ c.of.labelled \in {b.of.labelled, {}}
    /\ \A a \in Assets : \A f \in {"direction", "stars", "scenarios", "liquidity", "ratios"} : c.leg[a][f] = b.leg[a][f]
    /\ \A a \in Assets : \A f \in {"category", "direction"} : c.row[a][f] = b.row[a][f]
    /\ \A f \in Texts : TextKept(b.text[f], c.text[f])
    /\ Chances(b.of.chances) => Chances(c.of.chances)
    /\ CalendarKept(b.of.calendar, c.of.calendar)

(* Keeping is reflexive, and goes from repair to repair.                   *)
LEMMA KeepsItself == ASSUME NEW b, Shape(b) PROVE Keeps(b, b)
  BY DEF Keeps, TextKept, CalendarKept

(* So a row of repairs keeps what each of them keeps.                      *)
LEMMA KeepsOn == ASSUME NEW b, NEW c, NEW d, Keeps(b, c), Keeps(c, d) PROVE Keeps(b, d)
<1>1. Shape(d) BY DEF Keeps
<1>2. \A f \in Kept : d.of[f] = b.of[f]
  BY DEF Keeps
<1>3. d.of.labelled \in {b.of.labelled, {}}
  BY DEF Keeps
<1>4. \A a \in Assets : \A f \in {"direction", "stars", "scenarios", "liquidity", "ratios"} : d.leg[a][f] = b.leg[a][f]
  BY DEF Keeps
<1>5. \A a \in Assets : \A f \in {"category", "direction"} : d.row[a][f] = b.row[a][f]
  BY DEF Keeps
<1>6. \A f \in Texts : TextKept(b.text[f], d.text[f])
  BY DEF Keeps, TextKept
<1>7. Chances(b.of.chances) => Chances(d.of.chances)
  BY DEF Keeps
<1>8. CalendarKept(b.of.calendar, d.of.calendar)
  <2> DEFINE s == b.of.calendar
             t == c.of.calendar
             u == d.of.calendar
  <2>1. CalendarKept(s, t) /\ CalendarKept(t, u)
    BY DEF Keeps
  <2> HIDE DEF s, t, u
  <2>2. CalendarKept(s, u)
    BY <2>1 DEF CalendarKept
  <2> QED BY <2>2 DEF s, u
<1> QED BY <1>1, <1>2, <1>3, <1>4, <1>5, <1>6, <1>7, <1>8 DEF Keeps

(* A repair that only touches other fields, and texts it keeps, keeps the  *)
(* brief.                                                                  *)
LEMMA ButKeeps ==
    ASSUME NEW b, NEW c, NEW F, NEW T, Shape(b), But(b, c, F, T),
           F \cap (Kept \cup {"labelled", "chances", "calendar"}) = {},
           \A f \in T : TextKept(b.text[f], c.text[f])
    PROVE Keeps(b, c)
<1>1. \A f \in Kept \cup {"labelled", "chances", "calendar"} : f \in BriefFields
  BY DEF Kept, BriefFields
<1>2. \A f \in Texts : TextKept(b.text[f], c.text[f])
  BY DEF But, TextKept
<1>3. \A f \in Kept \cup {"labelled", "chances", "calendar"} : c.of[f] = b.of[f]
  BY <1>1 DEF But
<1>4. CalendarKept(b.of.calendar, c.of.calendar)
  BY <1>3 DEF CalendarKept
<1> QED BY <1>2, <1>3, <1>4 DEF Keeps, But

(* Keeping a text goes on from repair to repair.                           *)
LEMMA TextKeptOn == ASSUME NEW t, NEW u, NEW v, TextKept(t, u), TextKept(u, v) PROVE TextKept(t, v)
  BY DEF TextKept

(* A mark put in place of another keeps a text.                            *)
LEMMA MarkKept ==
    ASSUME NEW t, NEW old, NEW new, old \notin {"said", "prefix", "again", "ma20_cited"} \cup Regimes,
           new \notin {"ma20_near", "ma20_digits", "index_low", "full", "overlong"}, old \in Cites <=> new \in Cites
    PROVE TextKept(t, Mark(t, old, new))
<1> DEFINE u == Mark(t, old, new)
<1>1. \A x : x \in u <=> (x \in t /\ x # old) \/ (old \in t /\ x = new) \/ (x \in t /\ old \notin t)
  BY DEF Mark
<1> HIDE DEF u
<1>2. {"said", "prefix", "again", "ma20_cited"} \cap t \subseteq u
  BY <1>1
<1>3. {"ma20_near", "ma20_digits", "index_low", "full", "overlong"} \cap u \subseteq t
  BY <1>1
<1>4. t \cap Cites # {} <=> u \cap Cites # {}
  BY <1>1
<1>5. t \cap Regimes # {} => u \cap Regimes # {}
  BY <1>1
<1> QED BY <1>2, <1>3, <1>4, <1>5 DEF TextKept, u

(* And so does a sum that becomes the dashboard's, if it does.             *)
LEMMA AsDashboardKept == ASSUME NEW t PROVE TextKept(t, AsDashboard(t))
<1>1. TextKept(t, Mark(t, "ma20_near", "ma20_cited"))
  BY MarkKept DEF Cites, Regimes
<1> DEFINE s == Mark(t, "ma20_near", "ma20_cited")
<1>2. TextKept(s, Mark(s, "ma20_digits", "ma20_cited"))
  BY MarkKept DEF Cites, Regimes
<1> QED BY <1>1, <1>2, TextKeptOn DEF AsDashboard

(* A regime's word put in place of another keeps a text.                   *)
LEMMA NormalizedKept ==
    ASSUME NEW t, NEW regime \in Regimes PROVE TextKept(t, Normalized(t, regime))
<1> DEFINE u == Normalized(t, regime)
<1>1. \A x : x \notin Regimes => (x \in u <=> x \in t)
  BY DEF Normalized
<1>2. t \cap Regimes # {} => u \cap Regimes # {}
  BY DEF Normalized
<1>3. {"said", "prefix", "again", "ma20_cited", "ma20_near", "ma20_digits", "index_low", "full", "overlong"} \cap Regimes = {}
      /\ Cites \cap Regimes = {}
  BY DEF Cites, Regimes
<1> HIDE DEF u
<1> QED BY <1>1, <1>2, <1>3 DEF TextKept, u

(* What aligning with the scorecard does (_coerce_brief_regime).           *)
LEMMA ToAgreedTells ==
    ASSUME NEW b, Shape(b), Agreed \in Modes
    PROVE /\ But(b, ToAgreed(b), {"regime"}, NormalizedTexts)
          /\ ToAgreed(b).of.regime = IF Agreed = "none" THEN b.of.regime ELSE Agreed
          /\ \A f \in NormalizedTexts : ToAgreed(b).text[f] = IF Agreed = "none" THEN b.text[f]
                                                              ELSE Normalized(b.text[f], Agreed)
<1>1. CASE Agreed = "none"
  BY <1>1 DEF ToAgreed, But
<1>2. CASE Agreed # "none"
  <2> DEFINE of == [b.of EXCEPT !.regime = Agreed]
             text == [f \in Texts |-> IF f \in NormalizedTexts THEN Normalized(b.text[f], Agreed) ELSE b.text[f]]
             c == ToAgreed(b)
  <2>1. c = [b EXCEPT !.of = of, !.text = text]
    BY <1>2, Zenon DEF ToAgreed
  <2> HIDE DEF c
  <2>2. c.of = of /\ c.text = text /\ c.leg = b.leg /\ c.row = b.row /\ DOMAIN c = DOMAIN b
    BY <2>1 DEF Shape
  <2>3. Shape(c)
    BY <2>2 DEF Shape
  <2>4. "regime" \in BriefFields
    BY DEF BriefFields
  <2>5. of.regime = Agreed /\ \A f \in BriefFields \ {"regime"} : of[f] = b.of[f]
    BY <2>4 DEF Shape
  <2>6. NormalizedTexts \subseteq Texts
    BY DEF NormalizedTexts, Texts
  <2> QED BY <1>2, <2>2, <2>3, <2>5, <2>6 DEF But, c
<1> QED BY <1>1, <1>2

(* Setting the texts sets nothing else.                                    *)
LEMMA TextsTell ==
    ASSUME NEW b, Shape(b), NEW text, DOMAIN text = Texts
    PROVE LET c == [b EXCEPT !.text = text]
          IN Shape(c) /\ c.of = b.of /\ c.leg = b.leg /\ c.row = b.row /\ c.text = text
<1> DEFINE c == [b EXCEPT !.text = text]
<1>1. c.of = b.of /\ c.text = text /\ c.leg = b.leg /\ c.row = b.row /\ DOMAIN c = DOMAIN b
  BY DEF Shape
<1> HIDE DEF c
<1>2. Shape(c)
  BY <1>1 DEF Shape
<1> QED BY <1>1, <1>2 DEF c

(* What it does with the yields and the risk budget taken in.              *)
LEMMA CoerceTells ==
    ASSUME NEW b, Shape(b), Agreed \in Modes
    PROVE LET c == ToAgreed(b)
              d == CoerceSections(b)
          IN /\ But(b, d, {"regime"}, NormalizedTexts)
             /\ d.of.regime = c.of.regime
             /\ d.text["budget"] = WithBudgetToken(c.text["budget"], c.of.regime)
             /\ \A f \in {"macro", "bridge"} : d.text[f] = Mark(c.text[f], "yield_odd", "na")
             /\ \A f \in NormalizedTexts \ {"macro", "bridge", "budget"} : d.text[f] = c.text[f]
<1> DEFINE c == ToAgreed(b)
           d == CoerceSections(b)
           text == [c.text EXCEPT !["macro"] = Mark(@, "yield_odd", "na"), !["bridge"] = Mark(@, "yield_odd", "na"),
                                  !["budget"] = WithBudgetToken(@, c.of.regime)]
<1>1. But(b, c, {"regime"}, NormalizedTexts)
  BY ToAgreedTells
<1>2. d = [c EXCEPT !.text["macro"] = Mark(@, "yield_odd", "na"), !.text["bridge"] = Mark(@, "yield_odd", "na"),
                 !.text["budget"] = WithBudgetToken(@, c.of.regime)]
  BY Zenon DEF CoerceSections
<1> HIDE DEF c, d
<1>3. DOMAIN c.text = Texts /\ DOMAIN c = {"of", "text", "leg", "row"}
  BY <1>1 DEF But, Shape
<1>4. DOMAIN text = Texts
  BY <1>3
<1>5. d = [c EXCEPT !.text = text]
  BY <1>2, <1>3 
<1>6. {"macro", "bridge", "budget"} \subseteq NormalizedTexts /\ NormalizedTexts \subseteq Texts
  BY DEF NormalizedTexts, Texts
<1>7. /\ text["budget"] = WithBudgetToken(c.text["budget"], c.of.regime)
      /\ \A f \in {"macro", "bridge"} : text[f] = Mark(c.text[f], "yield_odd", "na")
      /\ \A f \in Texts \ {"macro", "bridge", "budget"} : text[f] = c.text[f]
  BY <1>3, <1>6
<1> HIDE DEF text
<1>8. Shape(d) /\ d.of = c.of /\ d.leg = c.leg /\ d.row = c.row /\ d.text = text
  BY <1>1, <1>4, <1>5, TextsTell DEF But
<1> QED BY <1>1, <1>6, <1>7, <1>8 DEF But, c, d

(* What it does to the rows' modes.                                        *)
LEMMA ModesTell ==
    ASSUME NEW b, Shape(b)
    PROVE LET c == CoerceRowModes(b)
          IN /\ Shape(c) /\ c.of = b.of /\ c.text = b.text /\ c.leg = b.leg
             /\ \A a \in Assets : /\ \A f \in RowFields \ {"mode"} : c.row[a][f] = b.row[a][f]
                                  /\ c.row[a].mode = IF b.row[a].mode \in Regimes THEN b.of.regime ELSE b.row[a].mode
<1> DEFINE c == CoerceRowModes(b)
           row == [a \in Assets |-> [b.row[a] EXCEPT !.mode = IF @ \in Regimes THEN b.of.regime ELSE @]]
<1>1. c = [b EXCEPT !.row = row]
  BY Zenon DEF CoerceRowModes
<1>2. ASSUME NEW a \in Assets
      PROVE  /\ DOMAIN row[a] = RowFields
             /\ \A f \in RowFields \ {"mode"} : row[a][f] = b.row[a][f]
             /\ row[a].mode = IF b.row[a].mode \in Regimes THEN b.of.regime ELSE b.row[a].mode
  <2>1. DOMAIN b.row[a] = RowFields /\ "mode" \in RowFields
    BY DEF Shape, RowFields
  <2> QED BY <2>1
<1>3. DOMAIN row = Assets
  OBVIOUS
<1> HIDE DEF row, c
<1>4. c.of = b.of /\ c.text = b.text /\ c.leg = b.leg /\ c.row = row /\ DOMAIN c = DOMAIN b
  BY <1>1 DEF Shape
<1>5. Shape(c)
  BY <1>2, <1>3, <1>4 DEF Shape
<1> QED BY <1>2, <1>4, <1>5 DEF c

(* What it does to a note that speaks of the wrong regime.                 *)
LEMMA NoteTells ==
    ASSUME NEW b, Shape(b)
    PROVE LET c == FixMisbrandedNote(b)
          IN /\ But(b, c, {}, {"note"})
             /\ c.text["note"] = IF b.of.regime = "risk_off" THEN b.text["note"]
                                 ELSE Mark(b.text["note"], LooseOff, b.of.regime)
<1>1. CASE b.of.regime = "risk_off"
  BY <1>1 DEF FixMisbrandedNote, But
<1>2. CASE b.of.regime # "risk_off"
  <2> DEFINE text == [b.text EXCEPT !["note"] = Mark(@, LooseOff, b.of.regime)]
  <2>1. FixMisbrandedNote(b) = [b EXCEPT !.text = text]
    BY <1>2 DEF FixMisbrandedNote, Shape
  <2>2. DOMAIN text = Texts /\ text["note"] = Mark(b.text["note"], LooseOff, b.of.regime)
        /\ \A f \in Texts \ {"note"} : text[f] = b.text[f]
    BY DEF Shape, Texts
  <2> HIDE DEF text
  <2> QED BY <1>2, <2>1, <2>2, TextsTell DEF But
<1> QED BY <1>1, <1>2

(* After the first repair the brief is of one regime, the scorecard's when *)
(* there is one, and nothing the rules read is lost.                       *)
LEMMA AlignKeeps ==
    ASSUME NEW b, Shape(b), Agreed \in Modes, b.of.regime \in Regimes, \A a \in b.of.rows : b.row[a].mode \in Modes,
           b.of.rows \subseteq Assets
    PROVE LET e == FixMisbrandedNote(CoerceRowModes(CoerceSections(b)))
          IN /\ Keeps(b, e) /\ RegimeAgrees(e) /\ e.of.regime \in Regimes /\ e.leg = b.leg
             /\ \A f \in BriefFields \ {"regime"} : e.of[f] = b.of[f]
<1> DEFINE t == ToAgreed(b)
           c == CoerceSections(b)
           d == CoerceRowModes(c)
           e == FixMisbrandedNote(d)
           r == t.of.regime
<1>1. /\ But(b, t, {"regime"}, NormalizedTexts)
      /\ r = IF Agreed = "none" THEN b.of.regime ELSE Agreed
      /\ \A f \in NormalizedTexts : t.text[f] = IF Agreed = "none" THEN b.text[f] ELSE Normalized(b.text[f], Agreed)
  BY ToAgreedTells
<1>2. /\ But(b, c, {"regime"}, NormalizedTexts)
      /\ c.of.regime = r
      /\ c.text["budget"] = WithBudgetToken(t.text["budget"], r)
      /\ \A f \in {"macro", "bridge"} : c.text[f] = Mark(t.text[f], "yield_odd", "na")
      /\ \A f \in NormalizedTexts \ {"macro", "bridge", "budget"} : c.text[f] = t.text[f]
  BY CoerceTells
<1> HIDE DEF t, c
<1>3. /\ Shape(d) /\ d.of = c.of /\ d.text = c.text /\ d.leg = c.leg
      /\ \A a \in Assets : /\ \A f \in RowFields \ {"mode"} : d.row[a][f] = c.row[a][f]
                           /\ d.row[a].mode = IF c.row[a].mode \in Regimes THEN c.of.regime ELSE c.row[a].mode
  BY <1>2, ModesTell DEF But
<1> HIDE DEF d
<1>4. /\ But(d, e, {}, {"note"})
      /\ e.text["note"] = IF r = "risk_off" THEN c.text["note"] ELSE Mark(c.text["note"], LooseOff, r)
  BY <1>2, <1>3, NoteTells
<1> HIDE DEF e
<1>5. Agreed # "none" => Agreed \in Regimes
  BY DEF Modes
<1>6. r \in Regimes
  BY <1>1, <1>5
<1> HIDE DEF r
<1>7. ASSUME NEW f \in Texts PROVE TextKept(b.text[f], e.text[f])
  <2>1. TextKept(b.text[f], t.text[f])
    <3>1. CASE f \in NormalizedTexts
      BY <1>1, <1>5, <3>1, NormalizedKept DEF TextKept
    <3>2. CASE f \notin NormalizedTexts
      BY <1>1, <3>2 DEF But, TextKept
    <3> QED BY <3>1, <3>2
  <2>2. TextKept(t.text[f], c.text[f])
    <3>1. CASE f = "budget"
      BY <1>2, <1>6, <3>1 DEF WithBudgetToken, TextKept, Regimes, Cites
    <3>2. CASE f \in {"macro", "bridge"}
      BY <1>2, <3>2, MarkKept DEF Cites, Regimes
    <3>3. CASE f \notin {"macro", "bridge", "budget"}
      BY <1>1, <1>2, <3>3 DEF But, TextKept
    <3> QED BY <3>1, <3>2, <3>3
  <2>3. TextKept(c.text[f], e.text[f])
    <3>1. CASE f = "note"
      <4>1. TextKept(c.text[f], Mark(c.text[f], LooseOff, r))
        BY <1>6, MarkKept DEF LooseOff, Regimes, Cites
      <4> QED BY <1>4, <3>1, <4>1 DEF TextKept
    <3>2. CASE f # "note"
      BY <1>3, <1>4, <3>2 DEF But, TextKept
    <3> QED BY <3>1, <3>2
  <2> QED BY <2>1, <2>2, <2>3, TextKeptOn
<1>8. /\ e.of = c.of \/ \A f \in BriefFields : e.of[f] = c.of[f]
      /\ e.leg = b.leg /\ e.row = d.row /\ Shape(e)
  BY <1>2, <1>3, <1>4 DEF But
<1>9. /\ e.of.regime = r
      /\ \A f \in BriefFields \ {"regime"} : e.of[f] = b.of[f]
  <2>1. "regime" \in BriefFields
    BY DEF BriefFields
  <2> QED BY <1>2, <1>8, <2>1 DEF But
<1>10. \A f \in Kept \cup {"labelled", "chances", "calendar"} : f \in BriefFields \ {"regime"}
  BY DEF Kept, BriefFields
<1>11. Keeps(b, e)
  <2>1. \A a \in Assets : \A f \in {"category", "direction"} : e.row[a][f] = b.row[a][f]
    BY <1>2, <1>3, <1>8 DEF But, RowFields
  <2>2. CalendarKept(b.of.calendar, e.of.calendar)
    BY <1>9, <1>10 DEF CalendarKept
  <2> QED BY <1>7, <1>8, <1>9, <1>10, <2>1, <2>2 DEF Keeps
<1>12. RegimeAgrees(e)
  <2>1. Agreed # "none" => r = Agreed
    BY <1>1 
  <2>2. ASSUME Agreed # "none", NEW f \in NormalizedTexts
        PROVE  e.text[f] \cap Regimes \subseteq {r}
    <3>1. t.text[f] \cap Regimes \subseteq {r}
      BY <1>1, <2>1, <2>2 DEF Normalized
    <3>2. c.text[f] \cap Regimes \subseteq {r}
      <4>1. CASE f = "budget"
        BY <1>2, <3>1, <4>1 DEF WithBudgetToken
      <4>2. CASE f \in {"macro", "bridge"}
        BY <1>2, <3>1, <4>2 DEF Mark, Regimes
      <4>3. CASE f \notin {"macro", "bridge", "budget"}
        BY <1>2, <3>1, <4>3
      <4> QED BY <4>1, <4>2, <4>3
    <3>3. CASE f = "note"
      BY <1>4, <3>2, <3>3 DEF Mark
    <3>4. CASE f # "note"
      BY <1>3, <1>4, <3>2, <3>4 DEF But, NormalizedTexts, Texts
    <3> QED BY <3>3, <3>4
  <2>3. Names(e.text["budget"], r)
    <3>1. e.text["budget"] = c.text["budget"]
      BY <1>3, <1>4 DEF But, Texts
    <3>2. Names(c.text["budget"], r)
      BY <1>2 DEF WithBudgetToken, Names
    <3> QED BY <3>1, <3>2
  <2>4. ASSUME NEW a \in e.of.rows PROVE e.row[a].mode \in {"none", r}
    <3>1. e.of.rows = b.of.rows /\ c.row = b.row
      BY <1>2, <1>9 DEF But, BriefFields
    <3>2. a \in Assets /\ b.row[a].mode \in Modes
      BY <3>1, <2>4
    <3>3. e.row[a].mode = IF b.row[a].mode \in Regimes THEN r ELSE b.row[a].mode
      BY <1>2, <1>3, <1>8, <3>1, <3>2
    <3> QED BY <3>2, <3>3 DEF Modes
  <2>5. r # "risk_off" => LooseOff \notin e.text["note"]
    BY <1>4, <1>6 DEF Mark, LooseOff, Regimes
  <2> QED BY <1>9, <2>1, <2>2, <2>3, <2>4, <2>5 DEF RegimeAgrees
<1> QED BY <1>6, <1>8, <1>9, <1>11, <1>12 DEF e, d, c

Below == OpToRel(<, Nat)

(* A set of numbers that has a member has a least one.                     *)
LEMMA LeastOf ==
    ASSUME NEW S \in SUBSET Nat, S # {}
    PROVE  \E i \in S : \A k \in S : i <= k
  <1>1. \A a, b \in Nat : <<a, b>> \in Below <=> a < b
    BY DEF Below, OpToRel
  <1>2. IsWellFoundedOn(Below, Nat)
    BY NatLessThanWellFounded, Zenon DEF Below
  <1>3. PICK i \in S : \A k \in S : ~ (<<k, i>> \in Below)
    BY <1>2, WFMin
  <1>4. \A k \in S : k \in Nat /\ i \in Nat /\ ~ (k < i)
    BY <1>1, <1>3
  <1>5. \A k \in S : i <= k
    BY <1>4
  <1> QED BY <1>5

(* Setting the brief's own fields sets nothing else.                       *)
LEMMA OfTells ==
    ASSUME NEW b, Shape(b), NEW of, DOMAIN of = BriefFields
    PROVE LET c == [b EXCEPT !.of = of]
          IN Shape(c) /\ c.of = of /\ c.leg = b.leg /\ c.row = b.row /\ c.text = b.text
<1> DEFINE c == [b EXCEPT !.of = of]
<1>1. c.of = of /\ c.text = b.text /\ c.leg = b.leg /\ c.row = b.row /\ DOMAIN c = DOMAIN b
  BY DEF Shape
<1> HIDE DEF c
<1>2. Shape(c)
  BY <1>1 DEF Shape
<1> QED BY <1>1, <1>2 DEF c

(* Setting one of them touches that one.                                   *)
LEMMA OfOneTells ==
    ASSUME NEW b, Shape(b), NEW f \in BriefFields, NEW v
    PROVE LET c == [b EXCEPT !.of[f] = v]
          IN But(b, c, {f}, {}) /\ c.of[f] = v
<1> DEFINE of == [b.of EXCEPT ![f] = v]
           c == [b EXCEPT !.of[f] = v]
<1>1. c = [b EXCEPT !.of = of]
  BY DEF Shape
<1>2. DOMAIN of = BriefFields /\ of[f] = v /\ \A g \in BriefFields \ {f} : of[g] = b.of[g]
  BY DEF Shape
<1> HIDE DEF of, c
<1>3. Shape(c) /\ c.of = of /\ c.leg = b.leg /\ c.row = b.row /\ c.text = b.text
  BY <1>1, <1>2, OfTells
<1> QED BY <1>2, <1>3 DEF But, c

(* A row that is there is found at a place of the rows.                    *)
LEMMA FoundAt ==
    ASSUME NEW S, NEW s \in Seq(S), NEW x \in Range(s)
    PROVE  RowAt(s, x) \in 1..Len(s)
<1> DEFINE I == {i \in 1..Len(s) : s[i] = x}
<1>1. I # {} /\ I \in SUBSET Nat
  BY DEF Range
<1>2. Min(I) \in I
  BY <1>1, LeastOf DEF Min
<1>3. RowAt(s, x) = Min(I)
  BY <1>1 DEF RowAt, SelectInSeq
<1> QED BY <1>2, <1>3

(* What is in a sequence stays when another follows.                       *)
LEMMA InLonger ==
    ASSUME NEW S, NEW s \in Seq(S), NEW t \in Seq(S), NEW x \in Range(s)
    PROVE  s \o t \in Seq(S) /\ x \in Range(s \o t)
<1>1. PICK i \in 1..Len(s) : x = s[i]
  BY DEF Range
<1>2. s \o t \in Seq(S) /\ Len(s \o t) = Len(s) + Len(t) /\ (s \o t)[i] = s[i] /\ i \in 1..Len(s \o t)
  OBVIOUS
<1> QED BY <1>1, <1>2 DEF Range

(* What is appended is there.                                              *)
LEMMA LastOf ==
    ASSUME NEW S, NEW s \in Seq(S), NEW x \in S
    PROVE  s \o <<x>> \in Seq(S) /\ x \in Range(s \o <<x>>)
<1>1. /\ <<x>> \in Seq(S) /\ Len(<<x>>) = 1 /\ <<x>>[1] = x
  OBVIOUS
<1> DEFINE y == s \o <<x>>
<1>2. y \in Seq(S) /\ Len(y) = Len(s) + 1 /\ y[Len(s) + 1] = x /\ Len(s) + 1 \in 1..Len(y)
  BY <1>1
<1> HIDE DEF y
<1>3. x \in Range(y)
  BY <1>2 DEF Range
<1> QED BY <1>2, <1>3 DEF y

(* A 20-day average that was asked for and answered is a row of the        *)
(* dashboard, wherever its place is.                                       *)
LEMMA BandsAreIn ==
    ASSUME NEW S, "ma20" \in S, "ma50" \in S, NEW rows \in Seq(S), NEW bands, "ma20" \in bands
    PROVE  "ma20" \in Range(WithBands(rows, bands))
<1> DEFINE k == PlaceOfBands(rows)
           s == SubSeq(rows, 1, k - 1)
           m == IF "ma50" \in bands THEN <<"ma50">> ELSE <<>>
           t == SubSeq(rows, k, Len(rows))
<1>1. k \in 1..(Len(rows) + 1)
  <2>1. CASE "spot" \in Range(rows)
    <3>1. k = RowAt(rows, "spot") + 1
      BY <2>1 DEF PlaceOfBands
    <3>2. RowAt(rows, "spot") \in 1..Len(rows)
      BY <2>1, FoundAt
    <3> QED BY <3>1, <3>2
  <2>2. CASE "spot" \notin Range(rows) /\ "rsi" \in Range(rows)
    <3>1. k = RowAt(rows, "rsi")
      BY <2>2 DEF PlaceOfBands
    <3>2. RowAt(rows, "rsi") \in 1..Len(rows)
      BY <2>2, FoundAt
    <3> QED BY <3>1, <3>2
  <2>3. CASE "spot" \notin Range(rows) /\ "rsi" \notin Range(rows)
    BY <2>3 DEF PlaceOfBands
  <2> QED BY <2>1, <2>2, <2>3
<1>2. WithBands(rows, bands) = ((s \o <<"ma20">>) \o m) \o t
  BY Zenon DEF WithBands
<1> HIDE DEF k
<1>3. s \in Seq(S)
  <2>1. k - 1 \in Int /\ \A i \in 1..(k - 1) : rows[i] \in S
    BY <1>1
  <2> QED BY <2>1, SubSeqProperties
<1>4. t \in Seq(S)
  <2>1. k \in Int /\ Len(rows) \in Int /\ \A i \in k..Len(rows) : rows[i] \in S
    BY <1>1
  <2> QED BY <2>1, SubSeqProperties
<1>5. m \in Seq(S)
  OBVIOUS
<1> HIDE DEF s, m, t
<1> DEFINE y == s \o <<"ma20">>
<1>6. y \in Seq(S) /\ "ma20" \in Range(y)
  BY <1>3, LastOf
<1> HIDE DEF y
<1>7. y \o m \in Seq(S) /\ "ma20" \in Range(y \o m)
  BY <1>5, <1>6, InLonger
<1>8. "ma20" \in Range((y \o m) \o t)
  BY <1>4, <1>7, InLonger
<1>9. WithBands(rows, bands) = (y \o m) \o t
  BY <1>2, Zenon DEF y
<1> QED BY <1>8, <1>9

(* The words that decide whether a line agrees with the regime.            *)
RegimeWords == Regimes \cup {"if_risk_on", "if_risk_off", "if_neutral", LooseOff}

(* A repair that leaves the regime's words alone leaves it agreed.         *)
LEMMA RegimeStays ==
    ASSUME NEW b, NEW c, RegimeAgrees(b), b.of.regime \in Regimes, b.of.rows \subseteq Assets,
           c.of.regime = b.of.regime, c.of.rows = b.of.rows, \A a \in Assets : c.row[a].mode = b.row[a].mode,
           \A f \in NormalizedTexts : c.text[f] \cap RegimeWords = b.text[f] \cap RegimeWords
    PROVE  RegimeAgrees(c)
<1> DEFINE r == b.of.regime
<1>1. Supposed[r] \in RegimeWords /\ r \in RegimeWords /\ LooseOff \in RegimeWords /\ Regimes \subseteq RegimeWords
  BY DEF RegimeWords, Supposed, Regimes
<1>2. Agreed # "none" => c.of.regime = Agreed
  BY DEF RegimeAgrees
<1>3. ASSUME Agreed # "none", NEW f \in NormalizedTexts PROVE c.text[f] \cap Regimes \subseteq {c.of.regime}
  <2>1. b.text[f] \cap Regimes \subseteq {r}
    BY <1>3 DEF RegimeAgrees
  <2> QED BY <1>1, <2>1
<1>4. Names(c.text["budget"], c.of.regime)
  <2>1. c.text["budget"] \cap RegimeWords = b.text["budget"] \cap RegimeWords
    BY DEF NormalizedTexts
  <2>2. Names(b.text["budget"], r)
    BY DEF RegimeAgrees
  <2> QED BY <1>1, <2>1, <2>2 DEF Names
<1>5. \A a \in c.of.rows : c.row[a].mode \in {"none", c.of.regime}
  BY DEF RegimeAgrees
<1>6. c.of.regime # "risk_off" => LooseOff \notin c.text["note"]
  <2>1. c.text["note"] \cap RegimeWords = b.text["note"] \cap RegimeWords
    BY DEF NormalizedTexts
  <2> QED BY <1>1, <2>1 DEF RegimeAgrees
<1> QED BY <1>2, <1>3, <1>4, <1>5, <1>6 DEF RegimeAgrees

(* What normalising the averages cited does to the texts that cite.        *)
LEMMA CitesTell ==
    ASSUME NEW b, Shape(b)
    PROVE LET c == NormalizeCites(b)
          IN /\ But(b, c, {}, CitingTexts)
             /\ \A f \in CitingTexts :
                  c.text[f] = IF "ma20" \in Range(b.of.crypto_rows) THEN AsDashboard(b.text[f]) ELSE b.text[f]
<1>1. CASE "ma20" \notin Range(b.of.crypto_rows)
  BY <1>1 DEF NormalizeCites, But
<1>2. CASE "ma20" \in Range(b.of.crypto_rows)
  <2> DEFINE text == [f \in Texts |-> IF f \in CitingTexts THEN AsDashboard(b.text[f]) ELSE b.text[f]]
  <2>1. NormalizeCites(b) = [b EXCEPT !.text = text]
    BY <1>2, Zenon DEF NormalizeCites
  <2>2. /\ DOMAIN text = Texts
        /\ \A f \in CitingTexts : text[f] = AsDashboard(b.text[f])
        /\ \A f \in Texts \ CitingTexts : text[f] = b.text[f]
    BY DEF CitingTexts
  <2> HIDE DEF text
  <2> QED BY <1>2, <2>1, <2>2, TextsTell DEF But
<1> QED BY <1>1, <1>2

(* A text that gives no sum for the average but the dashboard's.           *)
SumsAreOwn(t) == {"ma20_near", "ma20_digits"} \cap t = {}

(* The repairs of the dashboard keep what the rules read and the regime's  *)
(* words, and an average that was answered is cited as it is.              *)
LEMMA DashboardKeeps ==
    ASSUME NEW b, Shape(b), NEW bands, NEW S, {"ma20", "ma50"} \subseteq S, b.of.crypto_rows \in Seq(S)
    PROVE LET e == NoteLiquidation(NormalizeCites(SyncRsi([b EXCEPT !.of.crypto_rows = WithBands(@, bands)])))
          IN /\ Keeps(b, e) /\ But(b, e, {"crypto_rows", "rsi_row"}, CitingTexts)
             /\ \A f \in Texts : e.text[f] \cap RegimeWords = b.text[f] \cap RegimeWords
             /\ "ma20" \in bands => \A f \in CitingTexts : SumsAreOwn(e.text[f])
<1> DEFINE b1 == [b EXCEPT !.of.crypto_rows = WithBands(@, bands)]
           c == SyncRsi(b1)
           d == NormalizeCites(c)
           e == NoteLiquidation(d)
<1>0. {"crypto_rows", "rsi_row"} \subseteq BriefFields
  BY DEF BriefFields
<1>1. But(b, b1, {"crypto_rows"}, {}) /\ b1.of.crypto_rows = WithBands(b.of.crypto_rows, bands)
  <2>1. b1 = [b EXCEPT !.of["crypto_rows"] = WithBands(b.of.crypto_rows, bands)]
    BY DEF Shape
  <2> QED BY <1>0, <2>1, OfOneTells
<1> HIDE DEF b1
<1>2. But(b1, c, {"rsi_row"}, {})
  <2>1. CASE c = b1
    BY <1>1, <2>1 DEF But
  <2>2. CASE c # b1
    <3> DEFINE v == b1.of.rsi_card
    <3>1. c = [b1 EXCEPT !.of["rsi_row"] = v]
      BY <2>2 DEF SyncRsi
    <3>2. Shape(b1)
      BY <1>1 DEF But
    <3>3. But(b1, [b1 EXCEPT !.of["rsi_row"] = v], {"rsi_row"}, {})
      BY <1>0, <3>2, OfOneTells
    <3> QED BY <3>1, <3>3
  <2> QED BY <2>1, <2>2
<1> HIDE DEF c
<1>3. /\ But(c, d, {}, CitingTexts)
      /\ \A f \in CitingTexts :
           d.text[f] = IF "ma20" \in Range(c.of.crypto_rows) THEN AsDashboard(c.text[f]) ELSE c.text[f]
  BY <1>2, CitesTell DEF But
<1> HIDE DEF d
<1>4. But(d, e, {"crypto_rows"}, {})
  <2>1. CASE e = d
    BY <1>3, <2>1 DEF But
  <2>2. CASE e # d
    <3> DEFINE v == Append(d.of.crypto_rows, "liquidation")
    <3>1. e = [d EXCEPT !.of["crypto_rows"] = v]
      BY <1>3, <2>2 DEF NoteLiquidation, But, Shape
    <3>2. Shape(d)
      BY <1>3 DEF But
    <3>3. But(d, [d EXCEPT !.of["crypto_rows"] = v], {"crypto_rows"}, {})
      BY <1>0, <3>2, OfOneTells
    <3> QED BY <3>1, <3>3
  <2> QED BY <2>1, <2>2
<1> HIDE DEF e
<1>5. But(b, e, {"crypto_rows", "rsi_row"}, CitingTexts)
  BY <1>1, <1>2, <1>3, <1>4 DEF But
<1>6. \A f \in Texts : e.text[f] = IF f \in CitingTexts /\ "ma20" \in Range(c.of.crypto_rows)
                                   THEN AsDashboard(b.text[f]) ELSE b.text[f]
  BY <1>1, <1>2, <1>3, <1>4 DEF But
<1>7. \A f \in Texts : TextKept(b.text[f], e.text[f])
  BY <1>6, AsDashboardKept DEF TextKept
<1>8. Keeps(b, e)
  <2>1. {"crypto_rows", "rsi_row"} \cap (Kept \cup {"labelled", "chances", "calendar"}) = {}
    BY DEF Kept
  <2>2. CitingTexts \subseteq Texts
    BY DEF CitingTexts
  <2> QED BY <1>5, <1>7, <2>1, <2>2, ButKeeps
<1>9. \A f \in Texts : e.text[f] \cap RegimeWords = b.text[f] \cap RegimeWords
  <2>1. \A t : AsDashboard(t) \cap RegimeWords = t \cap RegimeWords
    BY DEF AsDashboard, Mark, RegimeWords, Regimes, LooseOff
  <2> QED BY <1>6, <2>1
<1>10. ASSUME "ma20" \in bands, NEW f \in CitingTexts PROVE SumsAreOwn(e.text[f])
  <2>1. "ma20" \in Range(b1.of.crypto_rows)
    BY <1>1, <1>10, BandsAreIn
  <2>2. b1.of.crypto_rows = c.of.crypto_rows
    BY <1>0, <1>2 DEF But
  <2>3. f \in Texts
    BY DEF CitingTexts
  <2>4. e.text[f] = AsDashboard(b.text[f])
    BY <1>6, <1>10, <2>1, <2>2, <2>3
  <2> QED BY <2>4 DEF SumsAreOwn, AsDashboard, Mark
<1> QED BY <1>5, <1>8, <1>9, <1>10 DEF e, d, c, b1

(* Induction over the numbers, for a set of them.                          *)
LEMMA InAllNumbers ==
    ASSUME NEW S, 0 \in S, \A n \in Nat : n \in S => n + 1 \in S
    PROVE  \A n \in Nat : n \in S
  <1>1. SUFFICES ASSUME Nat \ S # {} PROVE FALSE
    OBVIOUS
  <1>2. PICK x \in Nat \ S : \A y \in Nat \ S : x <= y
    <2>1. Nat \ S \in SUBSET Nat
      OBVIOUS
    <2> QED BY <1>1, <2>1, LeastOf
  <1>3. x - 1 \in Nat /\ ~ (x <= x - 1) /\ (x - 1) + 1 = x
    BY <1>2
  <1> QED BY <1>2, <1>3

ScrubbedTo(s, n, kept) ==
    kept = [i \in 0..n |-> IF i = 0 THEN <<>> ELSE WithEvent(kept[i - 1], s[i])]

(* The recursive function is what its equations say, up to the length of   *)
(* the calendar.                                                           *)
LEMMA ScrubbingDefined ==
    ASSUME NEW s, Len(s) \in Nat
    PROVE  ScrubbedTo(s, Len(s), Scrubbing(s))
  <1> DEFINE S == {n \in Nat : \E kept : ScrubbedTo(s, n, kept)}
  <1>1. 0 \in S
    <2>1. ScrubbedTo(s, 0, [i \in 0..0 |-> <<>>])
      BY DEF ScrubbedTo
    <2> QED BY <2>1
  <1>2. ASSUME NEW n \in Nat, n \in S PROVE n + 1 \in S
    <2>1. PICK kept : ScrubbedTo(s, n, kept)
      BY <1>2
    <2> DEFINE more == [i \in 0..(n + 1) |-> IF i = n + 1 THEN WithEvent(kept[n], s[n + 1]) ELSE kept[i]]
               next(i) == IF i = 0 THEN <<>> ELSE WithEvent(more[i - 1], s[i])
    <2>2. ASSUME NEW i \in 0..(n + 1) PROVE more[i] = next(i)
      <3>1. CASE i = n + 1
        <4>1. i - 1 = n /\ n \in 0..(n + 1) /\ n # n + 1 /\ i # 0
          BY <3>1
        <4>2. more[i - 1] = kept[n]
          BY <4>1
        <4> QED BY <3>1, <4>1, <4>2
      <3>2. CASE i # n + 1 /\ i # 0
        <4>1. i \in 0..n /\ i - 1 \in 0..(n + 1) /\ i - 1 # n + 1
          BY <3>2
        <4>2. more[i] = kept[i] /\ more[i - 1] = kept[i - 1]
          BY <3>2, <4>1
        <4>3. kept[i] = WithEvent(kept[i - 1], s[i])
          BY <2>1, <3>2, <4>1 DEF ScrubbedTo
        <4> QED BY <3>2, <4>2, <4>3
      <3>3. CASE i # n + 1 /\ i = 0
        <4>1. 0 \in 0..n
          OBVIOUS
        <4>2. kept[0] = <<>>
          BY <2>1, <4>1 DEF ScrubbedTo
        <4> QED BY <3>3, <4>2
      <3> QED BY <3>1, <3>2, <3>3
    <2>3. more = [i \in 0..(n + 1) |-> next(i)]
      <3>1. more = [i \in 0..(n + 1) |-> more[i]]
        OBVIOUS
      <3> HIDE DEF more, next
      <3> QED BY <2>2, <3>1
    <2>4. ScrubbedTo(s, n + 1, more)
      BY <2>3 DEF ScrubbedTo
    <2> HIDE DEF more
    <2> QED BY <2>4
  <1>3. \A n \in Nat : n \in S
    <2> HIDE DEF S
    <2> QED BY <1>1, <1>2, InAllNumbers
  <1>4. \E kept : ScrubbedTo(s, Len(s), kept)
    BY <1>3
  <1> QED BY <1>4, Zenon DEF Scrubbing, ScrubbedTo

(* Scrubbing drops generic rows only: without one the calendar keeps its   *)
(* length, and no undated row is new.                                      *)
LEMMA ScrubbingKeeps ==
    ASSUME NEW S, NEW s \in Seq(S), "dated" \in S
    PROVE  CalendarKept(s, Scrubbing(s)[Len(s)])
<1> DEFINE kept == Scrubbing(s)
           Good(n) == /\ kept[n] \in Seq(S)
                      /\ \A x \in Range(kept[n]) : x = "dated" \/ x \in Range(s) \ Generics
                      /\ Generics \cap Range(s) = {} => Len(kept[n]) = n
           T == {n \in Nat : n <= Len(s) => Good(n)}
<1>1. Len(s) \in Nat
  OBVIOUS
<1>2. \A i \in 0..Len(s) : kept[i] = IF i = 0 THEN <<>> ELSE WithEvent(kept[i - 1], s[i])
  BY <1>1, ScrubbingDefined DEF ScrubbedTo
<1>3. 0 \in T
  <2>1. kept[0] = <<>>
    BY <1>1, <1>2
  <2> HIDE DEF kept
  <2>2. kept[0] \in Seq(S) /\ Len(kept[0]) = 0 /\ Range(kept[0]) = {}
    BY <2>1 DEF Range
  <2> QED BY <2>2
<1> HIDE DEF kept
<1>4. ASSUME NEW n \in Nat, n \in T PROVE n + 1 \in T
  <2> SUFFICES ASSUME n + 1 <= Len(s) PROVE Good(n + 1)
    OBVIOUS
  <2>1. Good(n) /\ n + 1 \in 0..Len(s) /\ n + 1 # 0 /\ (n + 1) - 1 = n /\ n + 1 \in 1..Len(s)
    BY <1>1, <1>4
  <2> DEFINE e == s[n + 1]
  <2>2. kept[n + 1] = WithEvent(kept[n], e)
    BY <1>2, <2>1
  <2>3. e \in S /\ e \in Range(s)
    BY <2>1 DEF Range
  <2> HIDE DEF e
  <2>4. CASE e \in Generics
    <3>1. kept[n + 1] = kept[n] /\ Generics \cap Range(s) # {}
      BY <2>2, <2>3, <2>4 DEF WithEvent
    <3> QED BY <2>1, <3>1
  <2>5. CASE e \notin Generics
    <3> DEFINE x == IF e \in {"halving", "halving_undated"} THEN "dated" ELSE e
    <3>1. kept[n + 1] = Append(kept[n], x)
      BY <2>2, <2>5 DEF WithEvent
    <3>2. x \in S /\ (x = "dated" \/ x \in Range(s) \ Generics)
      BY <2>3, <2>5
    <3> HIDE DEF x
    <3>3. /\ kept[n + 1] \in Seq(S) /\ Len(kept[n + 1]) = Len(kept[n]) + 1
          /\ \A i \in 1..Len(kept[n]) : kept[n + 1][i] = kept[n][i]
          /\ kept[n + 1][Len(kept[n]) + 1] = x
      BY <2>1, <3>1, <3>2
    <3>4. ASSUME NEW y \in Range(kept[n + 1]) PROVE y = x \/ y \in Range(kept[n])
      <4>1. PICK i \in 1..Len(kept[n + 1]) : y = kept[n + 1][i]
        BY <3>3, <3>4 DEF Range
      <4>2. CASE i = Len(kept[n]) + 1
        BY <3>3, <4>1, <4>2
      <4>3. CASE i # Len(kept[n]) + 1
        <5>1. i \in 1..Len(kept[n]) /\ y = kept[n][i]
          BY <2>1, <3>3, <4>1, <4>3
        <5> QED BY <2>1, <5>1 DEF Range
      <4> QED BY <4>2, <4>3
    <3> QED BY <2>1, <3>2, <3>3, <3>4
  <2> QED BY <2>4, <2>5
<1>5. \A n \in Nat : n \in T
  <2> HIDE DEF T
  <2> QED BY <1>3, <1>4, InAllNumbers
<1>6. Good(Len(s))
  BY <1>1, <1>5
<1>7. "dated" \notin Generics /\ "dated" # "undated"
  BY DEF Generics
<1> QED BY <1>6, <1>7 DEF CalendarKept, kept

(* Setting one text sets nothing else.                                     *)
LEMMA OneText ==
    ASSUME NEW b, Shape(b), NEW f \in Texts, NEW v
    PROVE LET c == [b EXCEPT !.text[f] = v]
          IN But(b, c, {}, {f}) /\ c.text[f] = v
<1> DEFINE text == [b.text EXCEPT ![f] = v]
           c == [b EXCEPT !.text[f] = v]
<1>1. c = [b EXCEPT !.text = text]
  BY DEF Shape
<1>2. DOMAIN text = Texts /\ text[f] = v /\ \A g \in Texts \ {f} : text[g] = b.text[g]
  BY DEF Shape
<1> HIDE DEF text, c
<1> DEFINE d == [b EXCEPT !.text = text]
<1>3. Shape(d) /\ d.of = b.of /\ d.leg = b.leg /\ d.row = b.row /\ d.text = text
  BY <1>2, TextsTell
<1>4. c = d
  BY <1>1
<1> HIDE DEF d
<1> QED BY <1>2, <1>3, <1>4 DEF But, c

(* Phrases that make way for others that name a regime.                    *)
LEMMA SoftenedKept == ASSUME NEW t PROVE TextKept(t, Softened(t))
<1> DEFINE u == Softened(t)
<1>1. \A x : x \notin {"leaning", "overweight", "neutral", "risk_on"} => (x \in u <=> x \in t)
  BY DEF Softened
<1>2. \A x \in Regimes : x \in t => x \in u
  BY DEF Softened, Regimes
<1>3. Cites \cap {"leaning", "overweight", "neutral", "risk_on"} = {}
  BY DEF Cites
<1> HIDE DEF u
<1> QED BY <1>1, <1>2, <1>3 DEF TextKept, u

(* What scrubbing does to four texts.                                      *)
LEMMA ScrubTextsTells ==
    ASSUME NEW b, Shape(b)
    PROVE LET c == ScrubTexts(b)
          IN /\ But(b, c, {}, {"cycle", "exec", "framing", "unless"})
             /\ \A f \in Texts : TextKept(b.text[f], c.text[f])
<1> DEFINE contango == "contango" \in b.text["macro"] \cup b.text["bridge"]
           soften(t) == IF b.of.regime = "neutral" THEN Softened(t) ELSE t
           t == b.text
           x1 == IF "halving" \in t["cycle"] THEN t["cycle"] \cup {"caveat"} ELSE t["cycle"]
           x2 == soften(IF "figures" \in t["exec"] THEN t["exec"] ELSE t["exec"] \ {"slogan"})
           x3 == soften(t["framing"])
           x4 == IF contango /\ "contango" \notin t["unless"] THEN t["unless"] \ {"backwardation"} ELSE t["unless"]
           c == ScrubTexts(b)
           text == [t EXCEPT !["cycle"] = x1, !["exec"] = x2, !["framing"] = x3, !["unless"] = x4]
<1>1. DOMAIN t = Texts /\ DOMAIN b = {"of", "text", "leg", "row"}
  BY DEF Shape
<1>2. {"cycle", "exec", "framing", "unless"} \subseteq Texts
  BY DEF Texts
<1>3. c = [b EXCEPT !.text["cycle"] = x1, !.text["exec"] = x2, !.text["framing"] = x3, !.text["unless"] = x4]
  BY <1>1, <1>2 DEF ScrubTexts
<1>4. /\ TextKept(t["cycle"], x1) /\ TextKept(t["exec"], x2) /\ TextKept(t["framing"], x3) /\ TextKept(t["unless"], x4)
  <2>1. \A s : TextKept(s, soften(s))
    BY SoftenedKept DEF TextKept
  <2>2. TextKept(t["cycle"], x1)
    BY DEF TextKept, Cites, Regimes
  <2>3. TextKept(t["exec"], IF "figures" \in t["exec"] THEN t["exec"] ELSE t["exec"] \ {"slogan"})
    BY DEF TextKept, Cites, Regimes
  <2>4. TextKept(t["unless"], x4)
    BY DEF TextKept, Cites, Regimes
  <2> HIDE DEF soften
  <2> QED BY <2>1, <2>2, <2>3, <2>4, TextKeptOn
<1> HIDE DEF c, x1, x2, x3, x4
<1>5. c = [b EXCEPT !.text = text]
  BY <1>1, <1>2, <1>3
<1>6. /\ DOMAIN text = Texts /\ \A f \in Texts \ {"cycle", "exec", "framing", "unless"} : text[f] = t[f]
      /\ text["cycle"] = x1 /\ text["exec"] = x2 /\ text["framing"] = x3 /\ text["unless"] = x4
  BY <1>1, <1>2
<1> HIDE DEF text
<1>7. Shape(c) /\ c.of = b.of /\ c.leg = b.leg /\ c.row = b.row /\ c.text = text
  BY <1>5, <1>6, TextsTell
<1>8. But(b, c, {}, {"cycle", "exec", "framing", "unless"})
  BY <1>6, <1>7 DEF But
<1>9. \A f \in Texts : TextKept(t[f], c.text[f])
  BY <1>4, <1>6, <1>7 DEF TextKept
<1> QED BY <1>8, <1>9 DEF c

(* Chances that add up to a hundred in their first three still do.         *)
LEMMA ScrubScenariosTells ==
    ASSUME NEW b, Shape(b), NEW S, b.of.chances \in Seq(S)
    PROVE LET c == ScrubScenarios(b)
          IN But(b, c, {"chances", "scenario_k"}, {}) /\ (Chances(b.of.chances) => Chances(c.of.chances))
<1> DEFINE v == IF Len(b.of.chances) >= 3 THEN SubSeq(b.of.chances, 1, 3) ELSE b.of.chances
           k == b.of.scenario_k /\ ~ (b.of.spot > 50 /\ "spot" \in Range(b.of.crypto_rows))
           of == [b.of EXCEPT !.chances = v, !.scenario_k = k]
           c == ScrubScenarios(b)
<1>1. {"chances", "scenario_k"} \subseteq BriefFields
  BY DEF BriefFields
<1>2. DOMAIN b.of = BriefFields /\ DOMAIN b = {"of", "text", "leg", "row"}
  BY DEF Shape
<1>3. c = [b EXCEPT !.of.chances = v, !.of.scenario_k = k]
  BY <1>1, <1>2, Zenon DEF ScrubScenarios
<1>4. Chances(b.of.chances) => Chances(v)
  <2>1. SUFFICES ASSUME Chances(b.of.chances) PROVE Chances(v)
    OBVIOUS
  <2>2. v = SubSeq(b.of.chances, 1, 3) /\ Len(b.of.chances) >= 3
    BY <2>1 DEF Chances
  <2>3. \A i \in 1..3 : b.of.chances[i] \in S
    BY <2>2
  <2>4. Len(v) = 3 /\ \A i \in 1..3 : v[i] = b.of.chances[1 + i - 1]
    BY <2>2, <2>3, SubSeqProperties
  <2>5. v[1] = b.of.chances[1] /\ v[2] = b.of.chances[2] /\ v[3] = b.of.chances[3]
    BY <2>4
  <2> HIDE DEF v
  <2> QED BY <2>1, <2>4, <2>5 DEF Chances
<1> HIDE DEF v, k, c
<1>5. c = [b EXCEPT !.of = of]
  BY <1>1, <1>2, <1>3
<1>6. DOMAIN of = BriefFields /\ of.chances = v /\ \A f \in BriefFields \ {"chances", "scenario_k"} : of[f] = b.of[f]
  BY <1>1, <1>2
<1> HIDE DEF of
<1>7. Shape(c) /\ c.of = of /\ c.leg = b.leg /\ c.row = b.row /\ c.text = b.text
  BY <1>5, <1>6, OfTells
<1> QED BY <1>4, <1>6, <1>7 DEF But, c

(* The texts hygiene touches, none of them one that names a regime.        *)
LEMMA TextsTouched ==
    /\ {"cycle", "exec", "framing", "unless", "crypto_news", "ai_news", "valuation"} \subseteq Texts
    /\ {"cycle", "exec", "framing", "unless", "crypto_news", "ai_news", "valuation"} \cap NormalizedTexts = {}
  BY DEF Texts, NormalizedTexts

(* After the sums of the calendar are stripped, none is left in the news   *)
(* beside other text.                                                      *)
LEMMA StripTells ==
    ASSUME NEW b, Shape(b)
    PROVE LET c == StripBleed(b)
          IN But(b, c, {}, {"crypto_news"}) /\ NoBleed(c) /\ TextKept(b.text["crypto_news"], c.text["crypto_news"])
<1> DEFINE cond == {"billions", "generic_billions"} \cap Range(b.of.calendar) # {} /\ "rest" \in b.text["crypto_news"]
           c == StripBleed(b)
<1>1. CASE ~ cond
  <2>1. c = b
    BY <1>1, Zenon DEF StripBleed
  <2> HIDE DEF c
  <2>2. But(b, c, {}, {"crypto_news"}) /\ TextKept(b.text["crypto_news"], c.text["crypto_news"])
    BY <2>1 DEF But, TextKept
  <2>3. NoBleed(c)
    BY <1>1, <2>1 DEF NoBleed
  <2> QED BY <2>2, <2>3 DEF c
<1>2. CASE cond
  <2> DEFINE v == b.text["crypto_news"] \ {"bleed"}
  <2>1. c = [b EXCEPT !.text["crypto_news"] = v]
    BY <1>2, Zenon DEF StripBleed
  <2> HIDE DEF c
  <2>2. TextKept(b.text["crypto_news"], v) /\ "bleed" \notin v
    BY DEF TextKept, Cites, Regimes
  <2> HIDE DEF v
  <2>3. But(b, c, {}, {"crypto_news"}) /\ c.text["crypto_news"] = v
    <3>1. "crypto_news" \in Texts
      BY TextsTouched
    <3>2. LET d == [b EXCEPT !.text["crypto_news"] = v]
          IN But(b, d, {}, {"crypto_news"}) /\ d.text["crypto_news"] = v
      BY <3>1, OneText
    <3> QED BY <2>1, <3>2
  <2> QED BY <2>2, <2>3 DEF NoBleed, c
<1> HIDE DEF cond
<1> QED BY <1>1, <1>2

(* What softening the AI desk's copy does.                                 *)
LEMMA SoftenTells ==
    ASSUME NEW b, Shape(b)
    PROVE LET c == SoftenAiCopy(b)
          IN /\ Shape(c) /\ c.row = b.row
             /\ \A f \in BriefFields \ {"highlights"} : c.of[f] = b.of[f]
             /\ \A f \in Texts \ {"ai_news"} : c.text[f] = b.text[f]
             /\ TextKept(b.text["ai_news"], c.text["ai_news"])
             /\ \A a \in Assets : \A f \in LegFields \ {"trigger"} : c.leg[a][f] = b.leg[a][f]
<1> DEFINE cue    == "expected" \in b.text["headline"]
           listed == US \cap (b.of.legs \cup b.of.rows)
           leg == [a \in Assets |-> IF a \in US /\ ~ cue THEN [b.leg[a] EXCEPT !.trigger = "plain"] ELSE b.leg[a]]
           news == (IF cue THEN b.text["ai_news"] ELSE b.text["ai_news"] \ {"beat"})
                      \ (IF listed = {} THEN {} ELSE {"stranger"})
           new == b.of.highlights \ {"repeated"}
           c == SoftenAiCopy(b)
<1>1. DOMAIN b = {"of", "text", "leg", "row"} /\ DOMAIN b.of = BriefFields /\ DOMAIN b.text = Texts
  BY DEF Shape
<1>2. "highlights" \in BriefFields /\ "ai_news" \in Texts
  BY DEF BriefFields, Texts
<1>3. c = [b EXCEPT !.leg = leg, !.text["ai_news"] = news, !.of.highlights = new]
  BY <1>1, <1>2 DEF SoftenAiCopy
<1>4. TextKept(b.text["ai_news"], news)
  BY DEF TextKept, Cites, Regimes
<1>5. ASSUME NEW a \in Assets
      PROVE  DOMAIN leg[a] = LegFields /\ \A f \in LegFields \ {"trigger"} : leg[a][f] = b.leg[a][f]
  BY DEF Shape, LegFields
<1>6. DOMAIN leg = Assets
  OBVIOUS
<1> HIDE DEF c, leg, news, new
<1> DEFINE text == [b.text EXCEPT !["ai_news"] = news]
           of   == [b.of EXCEPT !.highlights = new]
<1>7. c.leg = leg /\ c.text = text /\ c.of = of /\ c.row = b.row /\ DOMAIN c = DOMAIN b
  BY <1>1, <1>3
<1>8. /\ DOMAIN text = Texts /\ text["ai_news"] = news /\ \A f \in Texts \ {"ai_news"} : text[f] = b.text[f]
      /\ DOMAIN of = BriefFields /\ \A f \in BriefFields \ {"highlights"} : of[f] = b.of[f]
  BY <1>1, <1>2
<1> HIDE DEF text, of
<1>9. Shape(c)
  BY <1>5, <1>6, <1>7, <1>8 DEF Shape
<1> QED BY <1>4, <1>5, <1>7, <1>8, <1>9 DEF c

(* The repairs of hygiene, one by one: the calendar,                       *)
LEMMA ScrubCalendarTells ==
    ASSUME NEW b, Shape(b), NEW S, b.of.calendar \in Seq(S), "dated" \in S
    PROVE LET c == ScrubCalendar(b)
          IN But(b, c, {"calendar"}, {}) /\ CalendarKept(b.of.calendar, c.of.calendar)
<1> DEFINE v == Scrubbing(b.of.calendar)[Len(b.of.calendar)]
           c == ScrubCalendar(b)
<1>1. c = [b EXCEPT !.of["calendar"] = v]
  BY DEF ScrubCalendar, Shape
<1>2. CalendarKept(b.of.calendar, v)
  BY ScrubbingKeeps
<1> HIDE DEF c, v
<1>3. LET d == [b EXCEPT !.of["calendar"] = v] IN But(b, d, {"calendar"}, {}) /\ d.of["calendar"] = v
  BY OfOneTells DEF BriefFields
<1> QED BY <1>1, <1>2, <1>3 DEF c

(* the filings the crypto desk lacks,                                      *)
LEMMA FillFilingsTells ==
    ASSUME NEW b, Shape(b) PROVE But(b, FillFilings(b), {"crypto_rows"}, {})
<1>1. CASE FillFilings(b) = b
  BY <1>1 DEF But
<1>2. CASE FillFilings(b) # b
  <2> DEFINE v == [i \in DOMAIN b.of.crypto_rows |-> IF b.of.crypto_rows[i] = "filing_na" THEN "filing"
                                                     ELSE b.of.crypto_rows[i]]
  <2>1. FillFilings(b) = [b EXCEPT !.of["crypto_rows"] = v]
    BY <1>2 DEF FillFilings, Shape
  <2> HIDE DEF v
  <2>2. LET d == [b EXCEPT !.of["crypto_rows"] = v] IN But(b, d, {"crypto_rows"}, {}) /\ d.of["crypto_rows"] = v
    BY OfOneTells DEF BriefFields
  <2> QED BY <2>1, <2>2
<1> QED BY <1>1, <1>2

(* the rows of the AI desk,                                                *)
LEMMA CollapseTells ==
    ASSUME NEW b, Shape(b) PROVE But(b, CollapseFilings(b), {"ai_rows"}, {})
<1> DEFINE v == CollapsedRows(b.of.ai_rows)
<1>1. CollapseFilings(b) = [b EXCEPT !.of["ai_rows"] = v]
  BY DEF CollapseFilings, Shape
<1> HIDE DEF v
<1>2. LET d == [b EXCEPT !.of["ai_rows"] = v] IN But(b, d, {"ai_rows"}, {}) /\ d.of["ai_rows"] = v
  BY OfOneTells DEF BriefFields
<1> QED BY <1>1, <1>2

(* and those of the quality tools.                                         *)
LEMMA FillQualityTells ==
    ASSUME NEW b, Shape(b) PROVE But(b, FillQuality(b), {"crypto_rows"}, {})
<1>1. CASE FillQuality(b) = b
  BY <1>1 DEF But
<1>2. CASE FillQuality(b) # b
  <2> DEFINE v == b.of.crypto_rows \o [i \in 1..QualityTools |-> "quality_na"]
  <2>1. FillQuality(b) = [b EXCEPT !.of["crypto_rows"] = v]
    BY <1>2 DEF FillQuality, Shape
  <2> HIDE DEF v
  <2>2. LET d == [b EXCEPT !.of["crypto_rows"] = v] IN But(b, d, {"crypto_rows"}, {}) /\ d.of["crypto_rows"] = v
    BY OfOneTells DEF BriefFields
  <2> QED BY <2>1, <2>2
<1> QED BY <1>1, <1>2

(* Hygiene as a whole keeps what the rules read, strips the sums of the    *)
(* calendar, and leaves regimes, prices and shares alone.                  *)
LEMMA HygieneKeeps ==
    ASSUME NEW b, Shape(b), NEW S, b.of.calendar \in Seq(S), "dated" \in S, NEW T, b.of.chances \in Seq(T)
    PROVE LET e == Hygiene(b)
          IN /\ Keeps(b, e) /\ NoBleed(e) /\ e.row = b.row
             /\ e.of.regime = b.of.regime
             /\ \A a \in Assets : \A f \in LegFields \ {"trigger"} : e.leg[a][f] = b.leg[a][f]
             /\ \A f \in NormalizedTexts : e.text[f] = b.text[f]
<1> DEFINE c1 == ScrubCalendar(b)
           c2 == ScrubTexts(c1)
           c3 == ScrubScenarios(c2)
           c4 == FillFilings(c3)
           c5 == CollapseFilings(c4)
           c6 == FillQuality(c5)
           c7 == StripBleed(c6)
           e  == Hygiene(b)
           Rows == {"crypto_rows", "ai_rows"}
           Four == {"cycle", "exec", "framing", "unless"}
<1>0. /\ {"calendar", "chances", "scenario_k", "highlights", "crypto_rows", "ai_rows", "regime", "labelled"} \subseteq BriefFields
      /\ Kept \subseteq BriefFields
      /\ Kept \cap {"calendar", "chances", "scenario_k", "highlights", "crypto_rows", "ai_rows"} = {}
  BY DEF BriefFields, Kept
<1>8. e = SoftenAiCopy(c7)
  BY Zenon DEF Hygiene
<1> HIDE DEF e
<1>1. But(b, c1, {"calendar"}, {}) /\ CalendarKept(b.of.calendar, c1.of.calendar)
  BY ScrubCalendarTells
<1> HIDE DEF c1
<1>2. But(c1, c2, {}, Four) /\ \A f \in Texts : TextKept(c1.text[f], c2.text[f])
  BY <1>1, ScrubTextsTells DEF But
<1> HIDE DEF c2
<1>3. But(c2, c3, {"chances", "scenario_k"}, {}) /\ (Chances(c2.of.chances) => Chances(c3.of.chances))
  <2>1. Shape(c2) /\ c2.of.chances = b.of.chances
    BY <1>0, <1>1, <1>2 DEF But
  <2> QED BY <2>1, ScrubScenariosTells
<1> HIDE DEF c3
<1>4. But(c3, c4, {"crypto_rows"}, {})
  BY <1>3, FillFilingsTells DEF But
<1> HIDE DEF c4
<1>5. But(c4, c5, {"ai_rows"}, {})
  BY <1>4, CollapseTells DEF But
<1> HIDE DEF c5
<1>6. But(c5, c6, {"crypto_rows"}, {})
  BY <1>5, FillQualityTells DEF But
<1> HIDE DEF c6
<1>7. But(c6, c7, {}, {"crypto_news"}) /\ NoBleed(c7) /\ TextKept(c6.text["crypto_news"], c7.text["crypto_news"])
  BY <1>6, StripTells DEF But
<1> HIDE DEF c7
<1>9. /\ Shape(e) /\ e.row = c7.row
      /\ \A f \in BriefFields \ {"highlights"} : e.of[f] = c7.of[f]
      /\ \A f \in Texts \ {"ai_news"} : e.text[f] = c7.text[f]
      /\ TextKept(c7.text["ai_news"], e.text["ai_news"])
      /\ \A a \in Assets : \A f \in LegFields \ {"trigger"} : e.leg[a][f] = c7.leg[a][f]
  BY <1>7, <1>8, SoftenTells DEF But
<1>10. c7.leg = b.leg /\ c7.row = b.row
  BY <1>1, <1>2, <1>3, <1>4, <1>5, <1>6, <1>7 DEF But
<1>11. \A f \in BriefFields \ {"calendar", "chances", "scenario_k", "highlights", "crypto_rows", "ai_rows"} : e.of[f] = b.of[f]
  <2>1. \A f \in BriefFields \ {"calendar"} : c1.of[f] = b.of[f]
    BY <1>1 DEF But
  <2>2. \A f \in BriefFields : c2.of[f] = c1.of[f]
    BY <1>2 DEF But
  <2>3. \A f \in BriefFields \ {"chances", "scenario_k"} : c3.of[f] = c2.of[f]
    BY <1>3 DEF But
  <2>4. \A f \in BriefFields \ Rows : c6.of[f] = c3.of[f]
    BY <1>4, <1>5, <1>6 DEF But
  <2>5. \A f \in BriefFields : c7.of[f] = c6.of[f]
    BY <1>7 DEF But
  <2> QED BY <1>9, <2>1, <2>2, <2>3, <2>4, <2>5
<1>12. e.of.calendar = c1.of.calendar
  BY <1>0, <1>2, <1>3, <1>4, <1>5, <1>6, <1>7, <1>9 DEF But
<1>13. Chances(b.of.chances) => Chances(e.of.chances)
  <2>1. c2.of.chances = b.of.chances /\ e.of.chances = c3.of.chances
    BY <1>0, <1>1, <1>2, <1>4, <1>5, <1>6, <1>7, <1>9 DEF But
  <2> QED BY <1>3, <2>1
<1>14. /\ \A f \in Texts : c1.text[f] = b.text[f] /\ c6.text[f] = c2.text[f]
       /\ \A f \in Texts \ Four : c2.text[f] = c1.text[f]
       /\ \A f \in Texts \ {"crypto_news"} : c7.text[f] = c6.text[f]
  BY <1>1, <1>2, <1>3, <1>4, <1>5, <1>6, <1>7 DEF But
<1>15. ASSUME NEW f \in Texts PROVE TextKept(b.text[f], e.text[f])
  <2>1. TextKept(b.text[f], c2.text[f])
    BY <1>2, <1>14
  <2>2. TextKept(c2.text[f], c7.text[f])
    BY <1>7, <1>14, TextsTouched DEF TextKept
  <2>3. TextKept(c7.text[f], e.text[f])
    BY <1>9 DEF TextKept
  <2> QED BY <2>1, <2>2, <2>3, TextKeptOn
<1>16. ASSUME NEW f \in NormalizedTexts PROVE e.text[f] = b.text[f]
  <2>1. f \in Texts /\ f \notin Four /\ f # "crypto_news" /\ f # "ai_news"
    BY DEF NormalizedTexts, Texts
  <2> QED BY <1>9, <1>14, <2>1
<1>17. NoBleed(e)
  <2>1. e.text["crypto_news"] = c7.text["crypto_news"] /\ e.of.calendar = c7.of.calendar
    BY <1>0, <1>9, TextsTouched
  <2> QED BY <1>7, <2>1 DEF NoBleed
<1>18. \A a \in Assets : \A f \in LegFields \ {"trigger"} : e.leg[a][f] = b.leg[a][f]
  BY <1>9, <1>10
<1>19. Keeps(b, e)
  <2>1. \A a \in Assets : \A f \in {"direction", "stars", "scenarios", "liquidity", "ratios"} : e.leg[a][f] = b.leg[a][f]
    BY <1>18 DEF LegFields
  <2>2. e.row = b.row
    BY <1>9, <1>10
  <2>3. /\ \A f \in Kept : e.of[f] = b.of[f]
        /\ e.of.labelled = b.of.labelled
    BY <1>0, <1>11
  <2>4. CalendarKept(b.of.calendar, e.of.calendar)
    BY <1>1, <1>12
  <2> QED BY <1>9, <1>13, <1>15, <2>1, <2>2, <2>3, <2>4 DEF Keeps
<1> QED BY <1>0, <1>9, <1>10, <1>11, <1>16, <1>17, <1>18, <1>19 DEF e

(* Division that rounds down.                                              *)
LEMMA Quotient ==
    ASSUME NEW a \in Nat, NEW d \in Nat, d > 0
    PROVE  a \div d \in Nat /\ d * (a \div d) <= a /\ a < d * (a \div d) + d
  OBVIOUS

(* Two shares scaled to a cap and rounded exceed it by at most the last    *)
(* digit together, and neither grows.                                      *)
LEMMA ScaledFits ==
    ASSUME NEW v \in Nat, NEW w \in Nat, NEW cap \in Nat, v + w > cap
    PROVE  /\ Scaled(v, v + w, cap) \in 0..v
           /\ Scaled(w, v + w, cap) \in 0..w
           /\ Scaled(v, v + w, cap) + Scaled(w, v + w, cap) <= cap + 1
<1> DEFINE t == v + w
           p == Scaled(v, t, cap)
           q == Scaled(w, t, cap)
<1>1. t \in Nat /\ t > 0 /\ 2 * t \in Nat /\ 2 * t > 0 /\ 2 * v * cap + t \in Nat /\ 2 * w * cap + t \in Nat
  OBVIOUS
<1>2. p \in Nat /\ 2 * t * p <= 2 * v * cap + t
  BY <1>1, Quotient DEF Scaled
<1>3. q \in Nat /\ 2 * t * q <= 2 * w * cap + t
  BY <1>1, Quotient DEF Scaled
<1> HIDE DEF p, q
<1>4. 2 * t * (p + q) <= 2 * t * (cap + 1)
  <2>1. 2 * t * (p + q) = 2 * t * p + 2 * t * q
    BY <1>2, <1>3
  <2>2. 2 * t * (cap + 1) = 2 * v * cap + 2 * w * cap + 2 * t
    OBVIOUS
  <2> HIDE DEF t
  <2> QED BY <1>1, <1>2, <1>3, <2>1, <2>2
<1>5. \A x, y \in Nat : x > 0 /\ 2 * t * x <= 2 * t * y => x <= y
  OBVIOUS
<1>6. ASSUME NEW x \in Nat, NEW y \in Nat, 2 * t * y <= 2 * x * cap + t PROVE y <= x
  <2>1. SUFFICES ASSUME y >= x + 1 PROVE FALSE
    BY <1>6
  <2>2. 2 * t * (x + 1) <= 2 * t * y
    BY <1>1, <2>1
  <2>3. x * cap <= x * t
    OBVIOUS
  <2>4. 2 * t * (x + 1) = 2 * (x * t) + 2 * t /\ 2 * x * cap = 2 * (x * cap)
    OBVIOUS
  <2> HIDE DEF t
  <2> QED BY <1>1, <1>6, <2>2, <2>3, <2>4
<1>7. p <= v /\ q <= w
  BY <1>2, <1>3, <1>6
<1>8. p + q <= cap + 1
  <2>1. p + q \in Nat /\ cap + 1 \in Nat
    BY <1>2, <1>3
  <2>2. CASE p + q > 0
    BY <1>4, <1>5, <2>1, <2>2
  <2>3. CASE ~ (p + q > 0)
    BY <2>1, <2>3
  <2> QED BY <2>2, <2>3
<1> QED BY <1>2, <1>3, <1>7, <1>8 DEF p, q

(* Every leg's share after the sizing of positions.                        *)
LEMMA SharesTell ==
    ASSUME NEW b, Shape(b), NEW legs, DOMAIN legs = Assets, \A a \in Assets : DOMAIN legs[a] = LegFields
    PROVE LET c == [b EXCEPT !.leg = legs]
          IN Shape(c) /\ c.of = b.of /\ c.text = b.text /\ c.row = b.row /\ c.leg = legs
<1> DEFINE c == [b EXCEPT !.leg = legs]
<1>1. c.of = b.of /\ c.text = b.text /\ c.leg = legs /\ c.row = b.row /\ DOMAIN c = DOMAIN b
  BY DEF Shape
<1> HIDE DEF c
<1>2. Shape(c)
  BY <1>1 DEF Shape
<1> QED BY <1>1, <1>2 DEF c

(* What filling in the shares does.                                        *)
LEMMA FillTells ==
    ASSUME NEW b, Shape(b)
    PROVE LET c == FillShares(b)
          IN /\ Shape(c) /\ c.of = b.of /\ c.text = b.text /\ c.row = b.row
             /\ \A a \in Assets :
                  /\ \A f \in LegFields \ {"share"} : c.leg[a][f] = b.leg[a][f]
                  /\ c.leg[a].share = IF b.leg[a].share = Blank THEN DefaultShare(b.of.regime, b.leg[a].stars)
                                      ELSE b.leg[a].share
<1> DEFINE leg == [a \in Assets |-> [b.leg[a] EXCEPT !.share =
                      IF @ = Blank THEN DefaultShare(b.of.regime, b.leg[a].stars) ELSE @]]
           c == FillShares(b)
           d == [b EXCEPT !.leg = leg]
<1>1. c = d
  BY Zenon DEF FillShares
<1>2. ASSUME NEW a \in Assets
      PROVE  /\ DOMAIN leg[a] = LegFields
             /\ \A f \in LegFields \ {"share"} : leg[a][f] = b.leg[a][f]
             /\ leg[a].share = IF b.leg[a].share = Blank THEN DefaultShare(b.of.regime, b.leg[a].stars)
                               ELSE b.leg[a].share
  <2>1. DOMAIN b.leg[a] = LegFields /\ "share" \in LegFields
    BY DEF Shape, LegFields
  <2> QED BY <2>1
<1>3. DOMAIN leg = Assets
  OBVIOUS
<1> HIDE DEF leg, c
<1>4. Shape(d) /\ d.of = b.of /\ d.text = b.text /\ d.row = b.row /\ d.leg = leg
  BY <1>2, <1>3, SharesTell
<1> HIDE DEF d
<1> QED BY <1>1, <1>2, <1>4 DEF c

(* What the caps do to the shares.                                         *)
LEMMA CapTells ==
    ASSUME NEW b, Shape(b)
    PROVE LET c     == CapShares(b)
              cap   == CombinedCap[b.of.regime]
              total == CutShare(b, "NVDA") + CutShare(b, "MSFT")
              over  == US \subseteq b.of.legs /\ total > cap
          IN /\ Shape(c) /\ c.of = b.of /\ c.text = b.text /\ c.row = b.row
             /\ \A a \in Assets : \A f \in LegFields \ {"share"} : c.leg[a][f] = b.leg[a][f]
             /\ \A a \in US \cap b.of.legs :
                  c.leg[a].share = IF over THEN Scaled(CutShare(b, a), total, cap) ELSE CutShare(b, a)
<1> DEFINE cap   == CombinedCap[b.of.regime]
           total == CutShare(b, "NVDA") + CutShare(b, "MSFT")
           over  == US \subseteq b.of.legs /\ total > cap
           share(a) == IF over THEN Scaled(CutShare(b, a), total, cap) ELSE CutShare(b, a)
           leg == [a \in Assets |-> IF a \in US \cap b.of.legs THEN [b.leg[a] EXCEPT !.share = share(a)]
                                    ELSE b.leg[a]]
           c == CapShares(b)
           d == [b EXCEPT !.leg = leg]
<1>1. c = d
  BY Zenon DEF CapShares
<1> HIDE DEF share
<1>2. ASSUME NEW a \in Assets
      PROVE  /\ DOMAIN leg[a] = LegFields
             /\ \A f \in LegFields \ {"share"} : leg[a][f] = b.leg[a][f]
             /\ a \in US \cap b.of.legs => leg[a].share = share(a)
  <2>1. DOMAIN b.leg[a] = LegFields /\ "share" \in LegFields
    BY DEF Shape, LegFields
  <2> QED BY <2>1
<1>3. DOMAIN leg = Assets /\ US \subseteq Assets
  BY DEF US, Of
<1> HIDE DEF leg, c
<1>4. Shape(d) /\ d.of = b.of /\ d.text = b.text /\ d.row = b.row /\ d.leg = leg
  BY <1>2, <1>3, SharesTell
<1> HIDE DEF d
<1>5. \A a \in US \cap b.of.legs : c.leg[a].share = share(a)
  BY <1>1, <1>2, <1>3, <1>4
<1>6. \A a \in Assets : \A f \in LegFields \ {"share"} : c.leg[a][f] = b.leg[a][f]
  BY <1>1, <1>2, <1>4
<1> QED BY <1>1, <1>4, <1>5, <1>6, Zenon DEF c, share

(* Filled first and cut after, no US position exceeds its caps, whatever   *)
(* the writer gave (_normalize_position_sizes).                            *)
LEMMA CapsAreKept ==
    ASSUME NEW b, Shape(b), b.of.regime \in Regimes,
           \A a \in US \cap b.of.legs : b.leg[a].stars \in 1..4 /\ b.leg[a].share \in Int /\ b.leg[a].share >= Blank
    PROVE LET c == PositionShares(b)
          IN /\ Shape(c) /\ c.of = b.of /\ c.text = b.text /\ c.row = b.row /\ CapsKept(c)
             /\ \A a \in Assets : \A f \in LegFields \ {"share"} : c.leg[a][f] = b.leg[a][f]
<1> DEFINE m == FillShares(b)
           c == PositionShares(b)
           r == b.of.regime
           one == SingleCap[r]
           cap == CombinedCap[r]
           total == CutShare(m, "NVDA") + CutShare(m, "MSFT")
           over == US \subseteq b.of.legs /\ total > cap
<1>1. /\ Shape(m) /\ m.of = b.of /\ m.text = b.text /\ m.row = b.row
      /\ \A a \in Assets :
           /\ \A f \in LegFields \ {"share"} : m.leg[a][f] = b.leg[a][f]
           /\ m.leg[a].share = IF b.leg[a].share = Blank THEN DefaultShare(r, b.leg[a].stars) ELSE b.leg[a].share
  BY FillTells
<1>2. c = CapShares(m)
  BY DEF PositionShares
<1> HIDE DEF m, c
<1>3. /\ Shape(c) /\ c.of = b.of /\ c.text = b.text /\ c.row = b.row
      /\ \A a \in Assets : \A f \in LegFields \ {"share"} : c.leg[a][f] = m.leg[a][f]
      /\ \A a \in US \cap b.of.legs :
           c.leg[a].share = IF over THEN Scaled(CutShare(m, a), total, cap) ELSE CutShare(m, a)
  BY <1>1, <1>2, CapTells
<1>4. one \in Nat /\ cap \in Nat /\ one > 0
  BY DEF SingleCap, CombinedCap, Regimes
<1>5. US = {"NVDA", "MSFT"} /\ US \subseteq Assets
  BY DEF US, Of, Assets, Desk
<1>6. ASSUME NEW a \in US \cap b.of.legs PROVE CutShare(m, a) \in 0..one
  <2>1. m.leg[a].share \in Nat
    <3>1. b.leg[a].stars \in 1..4 /\ b.leg[a].share \in Int /\ b.leg[a].share >= -1
      BY DEF Blank
    <3>2. DefaultShare(r, b.leg[a].stars) \in Nat
      BY <1>4, <3>1 DEF DefaultShare
    <3>3. m.leg[a].share = IF b.leg[a].share = -1 THEN DefaultShare(r, b.leg[a].stars) ELSE b.leg[a].share
      BY <1>1, <1>5 DEF Blank
    <3> HIDE DEF r
    <3> QED BY <3>1, <3>2, <3>3
  <2>2. CutShare(m, a) = IF m.leg[a].share < one THEN m.leg[a].share ELSE one
    BY <1>1 DEF CutShare
  <2> QED BY <1>4, <2>1, <2>2
<1>7. CASE ~ over
  <2>1. \A a \in US \cap b.of.legs : c.leg[a].share = CutShare(m, a)
    BY <1>3, <1>7
  <2>2. US \subseteq b.of.legs => c.leg["NVDA"].share + c.leg["MSFT"].share <= cap + 1
    <3>1. SUFFICES ASSUME US \subseteq b.of.legs PROVE c.leg["NVDA"].share + c.leg["MSFT"].share <= cap + 1
      OBVIOUS
    <3>2. c.leg["NVDA"].share = CutShare(m, "NVDA") /\ c.leg["MSFT"].share = CutShare(m, "MSFT")
      BY <1>5, <2>1, <3>1
    <3>3. CutShare(m, "NVDA") \in Nat /\ CutShare(m, "MSFT") \in Nat
      BY <1>4, <1>5, <1>6, <3>1
    <3>4. ~ (total > cap)
      BY <1>7, <3>1
    <3> QED BY <1>4, <3>2, <3>3, <3>4
  <2>3. CapsKept(c)
    BY <1>3, <1>6, <2>1, <2>2 DEF CapsKept
  <2> QED BY <1>1, <1>3, <2>3 DEF c
<1>8. CASE over
  <2> DEFINE v == CutShare(m, "NVDA")
             w == CutShare(m, "MSFT")
  <2>1. v \in 0..one /\ w \in 0..one /\ US \cap b.of.legs = {"NVDA", "MSFT"}
    BY <1>5, <1>6, <1>8
  <2>2. c.leg["NVDA"].share = Scaled(v, v + w, cap) /\ c.leg["MSFT"].share = Scaled(w, v + w, cap)
    BY <1>3, <1>8, <2>1
  <2>3. v + w > cap
    BY <1>8
  <2> HIDE DEF v, w
  <2>4. /\ c.leg["NVDA"].share \in 0..v /\ c.leg["MSFT"].share \in 0..w
        /\ c.leg["NVDA"].share + c.leg["MSFT"].share <= cap + 1
    <3>1. v \in Nat /\ w \in Nat /\ cap \in Nat
      BY <1>4, <2>1
    <3>2. /\ Scaled(v, v + w, cap) \in 0..v
          /\ Scaled(w, v + w, cap) \in 0..w
          /\ Scaled(v, v + w, cap) + Scaled(w, v + w, cap) <= cap + 1
      <4> HIDE DEF cap
      <4> QED BY <2>3, <3>1, ScaledFits
    <3> QED BY <2>2, <3>2
  <2>5. \A a \in US \cap b.of.legs : c.leg[a].share \in 0..one
    BY <1>4, <2>1, <2>4
  <2>6. CapsKept(c)
    BY <1>3, <2>4, <2>5 DEF CapsKept
  <2> QED BY <1>1, <1>3, <2>6 DEF c
<1> QED BY <1>7, <1>8

(* The texts of c are those of b but for the words W.                      *)
SameWords(b, c, W) == \A f \in Texts : c.text[f] \ W = b.text[f] \ W

(* A repair of other words keeps the sums of the calendar out.             *)
LEMMA NoBleedStays ==
    ASSUME NEW b, NEW c, NEW W, NoBleed(b), SameWords(b, c, W), W \cap {"rest", "bleed"} = {},
           c.of.calendar = b.of.calendar
    PROVE  NoBleed(c)
<1>1. c.text["crypto_news"] \ W = b.text["crypto_news"] \ W
  BY TextsTouched DEF SameWords
<1> QED BY <1>1 DEF NoBleed

(* A repair of other words leaves the regime agreed.                       *)
LEMMA RegimeWordsStay ==
    ASSUME NEW b, NEW c, NEW W, RegimeAgrees(b), b.of.regime \in Regimes, b.of.rows \subseteq Assets,
           c.of.regime = b.of.regime, c.of.rows = b.of.rows, c.row = b.row, SameWords(b, c, W), W \cap RegimeWords = {}
    PROVE  RegimeAgrees(c)
<1>1. ASSUME NEW f \in NormalizedTexts PROVE c.text[f] \cap RegimeWords = b.text[f] \cap RegimeWords
  <2>1. f \in Texts
    BY DEF NormalizedTexts, Texts
  <2>2. c.text[f] \ W = b.text[f] \ W
    BY <2>1 DEF SameWords
  <2> QED BY <2>2
<1> QED BY <1>1, RegimeStays

(* What anchoring the level of the index does.                             *)
LEMMA AnchorTells ==
    ASSUME NEW b, Shape(b)
    PROVE LET c == [b EXCEPT !.text["valuation"] = Mark(@, "index_low", "index_close")]
          IN /\ Keeps(b, c) /\ But(b, c, {}, {"valuation"}) /\ SameWords(b, c, {"index_low", "index_close"})
             /\ "index_low" \notin c.text["valuation"]
<1> DEFINE v == Mark(b.text["valuation"], "index_low", "index_close")
           c == [b EXCEPT !.text["valuation"] = Mark(@, "index_low", "index_close")]
           d == [b EXCEPT !.text["valuation"] = v]
<1>1. c = d
  BY DEF Shape, Texts
<1>2. v \ {"index_low", "index_close"} = b.text["valuation"] \ {"index_low", "index_close"} /\ "index_low" \notin v
  BY DEF Mark
<1>3. TextKept(b.text["valuation"], v)
  BY MarkKept DEF Cites, Regimes
<1> HIDE DEF c, v
<1>4. But(b, d, {}, {"valuation"}) /\ d.text["valuation"] = v
  BY OneText, TextsTouched
<1> HIDE DEF d
<1>5. But(b, c, {}, {"valuation"}) /\ c.text["valuation"] = v
  BY <1>1, <1>4
<1>6. SameWords(b, c, {"index_low", "index_close"})
  BY <1>2, <1>5 DEF SameWords, But
<1>7. Keeps(b, c)
  BY <1>3, <1>5, ButKeeps
<1> QED BY <1>2, <1>5, <1>6, <1>7 DEF c

(* A leg with a quote is priced or cannot be; one that was stays so.       *)
LEMMA BackfillTells ==
    ASSUME NEW l, DOMAIN l = LegFields, NEW quoted
    PROVE  LET k == Backfilled(l, quoted)
           IN /\ DOMAIN k = LegFields /\ \A f \in LegFields \ {"usable"} : k[f] = l[f]
              /\ ~ (Unpriced(l) /\ l.ratios) => ~ (Unpriced(k) /\ k.ratios)
              /\ {"current", "entry"} \subseteq quoted => ~ (Unpriced(k) /\ k.ratios)
<1> DEFINE given == l.usable \cup quoted
           known == {"current", "entry"} \cap given # {}
           use == given \cup (IF known /\ l.ratios /\ {"target", "stop"} \cap given = {} THEN {"target", "stop"} ELSE {})
           k == Backfilled(l, quoted)
<1>1. {"usable", "ratios"} \subseteq LegFields
  BY DEF LegFields
<1>2. k = [l EXCEPT !.usable = use]
  BY Zenon DEF Backfilled
<1> HIDE DEF k
<1>3. DOMAIN k = LegFields /\ k.usable = use /\ \A f \in LegFields \ {"usable"} : k[f] = l[f]
  BY <1>1, <1>2
<1>4. k.ratios = l.ratios
  BY <1>1, <1>3
<1>5. CASE ~ l.ratios
  BY <1>3, <1>4, <1>5 DEF k
<1>6. CASE l.ratios
  <2>1. ~ Unpriced(l) => ~ Unpriced(k)
    BY <1>3 DEF Unpriced
  <2>2. {"current", "entry"} \subseteq quoted => ~ Unpriced(k)
    BY <1>3, <1>6 DEF Unpriced
  <2> QED BY <1>3, <1>6, <2>1, <2>2 DEF k
<1> QED BY <1>5, <1>6

(* Shares and prices are nothing the rules read.                           *)
LEMMA LegsKeep ==
    ASSUME NEW b, NEW c, Shape(c), c.of = b.of, c.text = b.text, c.row = b.row,
           \A a \in Assets : \A f \in LegFields \ {"share", "usable"} : c.leg[a][f] = b.leg[a][f]
    PROVE  Keeps(b, c)
<1>1. \A a \in Assets : \A f \in {"direction", "stars", "scenarios", "liquidity", "ratios"} : c.leg[a][f] = b.leg[a][f]
  BY DEF LegFields
<1> QED BY <1>1 DEF Keeps, TextKept, CalendarKept

(* What taking the labels off the reasons does.                            *)
LEMMA HeadersTell ==
    ASSUME NEW b, Shape(b), NEW same, NEW c, c = NormalizeHeaders(b, same)
    PROVE  /\ Shape(c) /\ c.leg = b.leg /\ c.row = b.row /\ c.of.labelled = {}
           /\ \A f \in BriefFields \ {"labelled"} : c.of[f] = b.of[f]
           /\ \A f \in Texts : c.text[f] = IF f \in b.of.labelled \cap same THEN b.text[f] \cup {"prefix"} ELSE b.text[f]
<1> DEFINE text == [f \in Texts |-> IF f \in b.of.labelled \cap same THEN b.text[f] \cup {"prefix"} ELSE b.text[f]]
           of == [b.of EXCEPT !.labelled = {}]
<1>1. "labelled" \in BriefFields /\ DOMAIN b.of = BriefFields /\ DOMAIN b = {"of", "text", "leg", "row"}
  BY DEF Shape, BriefFields
<1>2. c = [b EXCEPT !.of.labelled = {}, !.text = text]
  BY Zenon DEF NormalizeHeaders
<1>3. DOMAIN text = Texts /\ \A f \in Texts : text[f] = IF f \in b.of.labelled \cap same THEN b.text[f] \cup {"prefix"} ELSE b.text[f]
  OBVIOUS
<1>4. DOMAIN of = BriefFields /\ of.labelled = {} /\ \A f \in BriefFields \ {"labelled"} : of[f] = b.of[f]
  BY <1>1
<1> HIDE DEF text
<1>5. c.of = of /\ c.text = text /\ c.leg = b.leg /\ c.row = b.row /\ DOMAIN c = DOMAIN b
  BY <1>1, <1>2
<1> HIDE DEF of
<1>6. Shape(c)
  BY <1>3, <1>4, <1>5 DEF Shape
<1> QED BY <1>3, <1>4, <1>5, <1>6

(* What declaring the picks that are yesterday's does.                     *)
LEMMA DeclareTells ==
    ASSUME NEW b, Shape(b), NEW same
    PROVE LET c == DeclareRepeats(b, same)
          IN /\ Shape(c) /\ c.leg = b.leg /\ c.row = b.row /\ c.of = b.of
             /\ \A f \in Texts : c.text[f] = IF f \in same /\ ~ Declared(b, f) THEN b.text[f] \cup {"prefix"} ELSE b.text[f]
<1> DEFINE text == [f \in Texts |-> IF f \in same /\ ~ Declared(b, f) THEN b.text[f] \cup {"prefix"} ELSE b.text[f]]
           c == DeclareRepeats(b, same)
           d == [b EXCEPT !.text = text]
<1>1. c = d
  BY Zenon DEF DeclareRepeats
<1>2. DOMAIN text = Texts /\ \A f \in Texts : text[f] = IF f \in same /\ ~ Declared(b, f) THEN b.text[f] \cup {"prefix"} ELSE b.text[f]
  OBVIOUS
<1> HIDE DEF text, c
<1>3. Shape(d) /\ d.of = b.of /\ d.leg = b.leg /\ d.row = b.row /\ d.text = text
  BY <1>2, TextsTell
<1> HIDE DEF d
<1> QED BY <1>1, <1>2, <1>3, Zenon DEF c

(* Neither touches more than the reader's phrase and the labels.           *)
LEMMA PrefixKeeps ==
    ASSUME NEW b, NEW c, Shape(b), Shape(c), c.leg = b.leg, c.row = b.row, c.of.labelled \in {b.of.labelled, {}},
           \A f \in BriefFields \ {"labelled"} : c.of[f] = b.of[f],
           \A f \in Texts : c.text[f] \in {b.text[f], b.text[f] \cup {"prefix"}}
    PROVE  Keeps(b, c) /\ SameWords(b, c, {"prefix"})
<1>1. \A f \in Texts : TextKept(b.text[f], c.text[f])
  BY DEF TextKept, Cites, Regimes
<1>2. \A f \in Kept \cup {"chances", "calendar"} : f \in BriefFields \ {"labelled"}
  BY DEF Kept, BriefFields
<1>3. CalendarKept(b.of.calendar, c.of.calendar)
  BY <1>2 DEF CalendarKept
<1>4. Keeps(b, c)
  BY <1>1, <1>2, <1>3 DEF Keeps
<1>5. SameWords(b, c, {"prefix"})
  BY DEF SameWords
<1> QED BY <1>4, <1>5

(* The layout writes five fields, and the lines above the cards agree with *)
(* the cards.                                                              *)
LEMMA BuildTells ==
    ASSUME NEW b, Shape(b), NEW lines
    PROVE LET laid == [InstrumentSections(b) EXCEPT !.of.predictions = lines]
              c == [laid EXCEPT !.of.notice = NeedsNotice(laid)]
          IN /\ But(b, c, {"crypto_rows", "ai_rows", "summary", "predictions", "notice"}, {})
             /\ SummaryAgrees(c)
<1> DEFINE laid == [InstrumentSections(b) EXCEPT !.of.predictions = lines]
           c == [laid EXCEPT !.of.notice = NeedsNotice(laid)]
           i == InstrumentSections(b)
           cr == GroupCryptoRows(b.of.crypto_rows)
           ar == GroupAiRows(b.of.ai_rows)
           su == [m \in Desks |-> SummaryOf(b, m)]
           of == [b.of EXCEPT !.crypto_rows = cr, !.ai_rows = ar, !.summary = su]
           d == [b EXCEPT !.of = of]
<1>0. {"crypto_rows", "ai_rows", "summary", "predictions", "notice", "regime", "legs"} \subseteq BriefFields
  BY DEF BriefFields
<1>1. DOMAIN b.of = BriefFields /\ DOMAIN b = {"of", "text", "leg", "row"}
  BY DEF Shape
<1>2. i = [b EXCEPT !.of.crypto_rows = cr, !.of.ai_rows = ar, !.of.summary = su]
  BY <1>0, <1>1 DEF InstrumentSections
<1>3. \A m \in Desks : su[m] = SummaryOf(b, m)
  OBVIOUS
<1> HIDE DEF cr, ar, su, i
<1>4. i = d
  BY <1>0, <1>1, <1>2
<1>5. /\ DOMAIN of = BriefFields /\ of.summary = su
      /\ \A f \in BriefFields \ {"crypto_rows", "ai_rows", "summary"} : of[f] = b.of[f]
  BY <1>0, <1>1
<1> HIDE DEF of
<1>6. Shape(d) /\ d.of = of /\ d.leg = b.leg /\ d.row = b.row /\ d.text = b.text
  BY <1>5, OfTells
<1> HIDE DEF d
<1>7. But(b, i, {"crypto_rows", "ai_rows", "summary"}, {}) /\ i.of.summary = su
  BY <1>4, <1>5, <1>6 DEF But
<1>8. But(i, laid, {"predictions"}, {})
  <2>1. LET x == [i EXCEPT !.of["predictions"] = lines] IN But(i, x, {"predictions"}, {}) /\ x.of["predictions"] = lines
    BY <1>0, <1>7, OfOneTells DEF But
  <2> QED BY <2>1 DEF i
<1> HIDE DEF laid
<1> DEFINE n == NeedsNotice(laid)
<1>9. But(laid, c, {"notice"}, {})
  <2> HIDE DEF n
  <2>1. Shape(laid)
    BY <1>8 DEF But
  <2>2. LET x == [laid EXCEPT !.of["notice"] = n] IN But(laid, x, {"notice"}, {}) /\ x.of["notice"] = n
    BY <1>0, <2>1, OfOneTells
  <2> QED BY <2>2 DEF n
<1> HIDE DEF c, n
<1>10. But(b, c, {"crypto_rows", "ai_rows", "summary", "predictions", "notice"}, {})
  BY <1>7, <1>8, <1>9 DEF But
<1>11. SummaryAgrees(c)
  <2>1. c.of.summary = su
    BY <1>0, <1>7, <1>8, <1>9 DEF But
  <2>2. c.leg = b.leg /\ c.of.regime = b.of.regime /\ c.of.legs = b.of.legs
    BY <1>0, <1>10 DEF But
  <2>3. \A m \in Desks : SummaryOf(c, m) = SummaryOf(b, m)
    BY <2>2 DEF SummaryOf
  <2> QED BY <1>3, <2>1, <2>3 DEF SummaryAgrees
<1> QED BY <1>10, <1>11 DEF c, laid

(* The last pass over the text puts the scorecard's regime where another   *)
(* stood, in every text.                                                   *)
LEMMA RenderTells ==
    ASSUME NEW b, Shape(b), Agreed \in Regimes, RegimeAgrees(b)
    PROVE LET c == [b EXCEPT !.text = [f \in Texts |-> Normalized(@[f], Agreed)]]
          IN But(b, c, {}, Texts) /\ Keeps(b, c) /\ RegimeAgrees(c) /\ TextsAgree(c) /\ SameWords(b, c, Regimes)
<1> DEFINE text == [f \in Texts |-> Normalized(b.text[f], Agreed)]
           c == [b EXCEPT !.text = [f \in Texts |-> Normalized(@[f], Agreed)]]
           d == [b EXCEPT !.text = text]
<1>1. c = d
  BY Zenon
<1>2. DOMAIN text = Texts /\ \A f \in Texts : text[f] = Normalized(b.text[f], Agreed)
  OBVIOUS
<1> HIDE DEF text, c
<1>3. Shape(d) /\ d.of = b.of /\ d.leg = b.leg /\ d.row = b.row /\ d.text = text
  BY <1>2, TextsTell
<1> HIDE DEF d
<1>4. But(b, c, {}, Texts) /\ \A f \in Texts : c.text[f] = Normalized(b.text[f], Agreed)
  BY <1>1, <1>2, <1>3 DEF But
<1>5. \A f \in Texts : TextKept(b.text[f], c.text[f])
  BY <1>4, NormalizedKept
<1>6. Keeps(b, c)
  BY <1>4, <1>5, ButKeeps
<1>7. SameWords(b, c, Regimes)
  BY <1>4 DEF SameWords, Normalized
<1>8. RegimeAgrees(c)
  <2>1. c.of.regime = Agreed /\ c.of = b.of /\ c.row = b.row /\ Agreed # "none" /\ b.of.regime = Agreed
    <3>1. Agreed # "none"
      BY DEF Regimes
    <3> QED BY <1>1, <1>3, <3>1 DEF RegimeAgrees
  <2>2. NormalizedTexts \subseteq Texts /\ "budget" \in NormalizedTexts /\ "note" \in NormalizedTexts
    BY DEF NormalizedTexts, Texts
  <2>3. \A f \in NormalizedTexts : c.text[f] \cap Regimes \subseteq {Agreed}
    BY <1>4, <2>2 DEF Normalized
  <2>4. Names(c.text["budget"], Agreed)
    <3>1. Names(b.text["budget"], Agreed)
      BY <2>1 DEF RegimeAgrees
    <3>2. c.text["budget"] = Normalized(b.text["budget"], Agreed)
      BY <1>4, <2>2
    <3>3. CASE b.text["budget"] \cap Regimes = {}
      BY <3>1, <3>2, <3>3 DEF Normalized
    <3>4. CASE b.text["budget"] \cap Regimes # {}
      BY <3>2, <3>4 DEF Normalized, Names
    <3> QED BY <3>3, <3>4
  <2>5. Agreed # "risk_off" => LooseOff \notin c.text["note"]
    <3>1. c.text["note"] = Normalized(b.text["note"], Agreed)
      BY <1>4, <2>2
    <3> QED BY <2>1, <3>1 DEF Normalized, RegimeAgrees, LooseOff, Regimes
  <2>6. \A a \in c.of.rows : c.row[a].mode \in {"none", c.of.regime}
    BY <2>1 DEF RegimeAgrees
  <2> QED BY <2>1, <2>3, <2>4, <2>5, <2>6 DEF RegimeAgrees
<1>9. TextsAgree(c)
  <2>1. c.of.regime = Agreed
    BY <1>1, <1>3 DEF RegimeAgrees, Regimes
  <2> QED BY <1>4, <2>1 DEF TextsAgree, Normalized
<1> QED BY <1>4, <1>6, <1>7, <1>8, <1>9 DEF c
Deviates(d) == \A path \in DOMAIN d : <<path, d[path]>> \in Slips

(* A slip is one of a field, a text, a setting, a leg or a row.            *)
LEMMA SlipsAre ==
    ASSUME NEW path, NEW v, <<path, v>> \in Slips
    PROVE  \/ \E f \in DOMAIN BriefSlips : path = <<"brief", f>> /\ v \in BriefSlips[f]
           \/ \E f \in DOMAIN TextSlips : path = <<"text", f>> /\ v \in TextSlips[f]
           \/ \E f \in DOMAIN EnvSlips : path = <<"env", f>> /\ v \in EnvSlips[f]
           \/ \E a \in Assets : \E f \in DOMAIN LegSlips : path = <<"leg", a, f>> /\ v \in LegSlips[f]
           \/ \E a \in Assets : \E f \in DOMAIN RowSlips : path = <<"row", a, f>> /\ v \in RowSlips[f]
<1>1. ASSUME NEW kind, NEW table, <<path, v>> \in SlipsOf(kind, table)
      PROVE  \E f \in DOMAIN table : path = <<kind, f>> /\ v \in table[f]
  <2>1. PICK f \in DOMAIN table : \E w \in table[f] : <<path, v>> = <<<<kind, f>>, w>>
    BY <1>1 DEF SlipsOf
  <2> QED BY <2>1
<1>2. ASSUME NEW kind, NEW table, <<path, v>> \in SlipsOfEach(kind, table)
      PROVE  \E a \in Assets : \E f \in DOMAIN table : path = <<kind, a, f>> /\ v \in table[f]
  <2>1. PICK a \in Assets, f \in DOMAIN table : \E w \in table[f] : <<path, v>> = <<<<kind, a, f>>, w>>
    BY <1>2 DEF SlipsOfEach
  <2> QED BY <2>1
<1>3. \/ <<path, v>> \in SlipsOf("brief", BriefSlips) \/ <<path, v>> \in SlipsOf("text", TextSlips)
      \/ <<path, v>> \in SlipsOf("env", EnvSlips) \/ <<path, v>> \in SlipsOfEach("leg", LegSlips)
      \/ <<path, v>> \in SlipsOfEach("row", RowSlips)
  BY DEF Slips
<1> QED BY <1>1, <1>2, <1>3

(* The answers that are tried deviate by slips only.                       *)
LEMMA WithDeviates ==
    /\ Deviates(<<>>)
    /\ \A t, u \in Slips : Deviates(With(t, u))
<1>1. Deviates(<<>>)
  BY DEF Deviates
<1>2. ASSUME NEW t \in Slips PROVE t = <<t[1], t[2]>>
  <2>1. \E x, y : t = <<x, y>>
    BY DEF Slips, SlipsOf, SlipsOfEach
  <2> QED BY <2>1
<1>3. ASSUME NEW t \in Slips, NEW u \in Slips PROVE Deviates(With(t, u))
  <2>1. t = <<t[1], t[2]>> /\ u = <<u[1], u[2]>>
    BY <1>2
  <2>2. ASSUME NEW path \in DOMAIN With(t, u) PROVE <<path, With(t, u)[path]>> \in Slips
    <3>1. path \in {t[1], u[1]} /\ With(t, u)[path] = IF path = t[1] THEN t[2] ELSE u[2]
      BY <2>2 DEF With
    <3> QED BY <2>1, <3>1
  <2> QED BY <2>2 DEF Deviates
<1> QED BY <1>1, <1>3

(* What an answer gives is the usual value or one of its slips.            *)
LEMMA GivenIs ==
    ASSUME NEW d, Deviates(d), NEW s
    PROVE  /\ \A f : LET v == Given(d, <<"brief", f>>, s) IN v = s \/ (f \in DOMAIN BriefSlips /\ v \in BriefSlips[f])
           /\ \A f : LET v == Given(d, <<"env", f>>, s) IN v = s \/ (f \in DOMAIN EnvSlips /\ v \in EnvSlips[f])
           /\ \A a, f : LET v == Given(d, <<"leg", a, f>>, s) IN v = s \/ (f \in DOMAIN LegSlips /\ v \in LegSlips[f])
           /\ \A a, f : LET v == Given(d, <<"row", a, f>>, s) IN v = s \/ (f \in DOMAIN RowSlips /\ v \in RowSlips[f])
<1>1. ASSUME NEW path, Given(d, path, s) # s PROVE <<path, Given(d, path, s)>> \in Slips
  <2>1. path \in DOMAIN d /\ Given(d, path, s) = d[path]
    BY <1>1 DEF Given
  <2> QED BY <2>1 DEF Deviates
<1>2. \A f : LET v == Given(d, <<"brief", f>>, s) IN v = s \/ (f \in DOMAIN BriefSlips /\ v \in BriefSlips[f])
  <2> SUFFICES ASSUME NEW f, Given(d, <<"brief", f>>, s) # s
               PROVE  f \in DOMAIN BriefSlips /\ Given(d, <<"brief", f>>, s) \in BriefSlips[f]
    OBVIOUS
  <2> DEFINE p == <<"brief", f>>
             v == Given(d, p, s)
  <2>1. <<p, v>> \in Slips
    BY <1>1
  <2>2. p[1] = "brief" /\ p[2] = f
    OBVIOUS
  <2> HIDE DEF p, v
  <2>3. \E g \in DOMAIN BriefSlips : p = <<"brief", g>> /\ v \in BriefSlips[g]
    BY <2>1, <2>2, SlipsAre
  <2> QED BY <2>2, <2>3 DEF p, v
<1>3. \A f : LET v == Given(d, <<"env", f>>, s) IN v = s \/ (f \in DOMAIN EnvSlips /\ v \in EnvSlips[f])
  <2> SUFFICES ASSUME NEW f, Given(d, <<"env", f>>, s) # s
               PROVE  f \in DOMAIN EnvSlips /\ Given(d, <<"env", f>>, s) \in EnvSlips[f]
    OBVIOUS
  <2> DEFINE p == <<"env", f>>
             v == Given(d, p, s)
  <2>1. <<p, v>> \in Slips
    BY <1>1
  <2>2. p[1] = "env" /\ p[2] = f
    OBVIOUS
  <2> HIDE DEF p, v
  <2>3. \E g \in DOMAIN EnvSlips : p = <<"env", g>> /\ v \in EnvSlips[g]
    BY <2>1, <2>2, SlipsAre
  <2> QED BY <2>2, <2>3 DEF p, v
<1>4. \A a, f : LET v == Given(d, <<"leg", a, f>>, s) IN v = s \/ (f \in DOMAIN LegSlips /\ v \in LegSlips[f])
  <2> SUFFICES ASSUME NEW a, NEW f, Given(d, <<"leg", a, f>>, s) # s
               PROVE  f \in DOMAIN LegSlips /\ Given(d, <<"leg", a, f>>, s) \in LegSlips[f]
    OBVIOUS
  <2> DEFINE p == <<"leg", a, f>>
             v == Given(d, p, s)
  <2>1. <<p, v>> \in Slips
    BY <1>1
  <2>2. p[1] = "leg" /\ p[3] = f
    OBVIOUS
  <2> HIDE DEF p, v
  <2>3. \E x \in Assets : \E g \in DOMAIN LegSlips : p = <<"leg", x, g>> /\ v \in LegSlips[g]
    BY <2>1, <2>2, SlipsAre
  <2> QED BY <2>2, <2>3 DEF p, v
<1>5. \A a, f : LET v == Given(d, <<"row", a, f>>, s) IN v = s \/ (f \in DOMAIN RowSlips /\ v \in RowSlips[f])
  <2> SUFFICES ASSUME NEW a, NEW f, Given(d, <<"row", a, f>>, s) # s
               PROVE  f \in DOMAIN RowSlips /\ Given(d, <<"row", a, f>>, s) \in RowSlips[f]
    OBVIOUS
  <2> DEFINE p == <<"row", a, f>>
             v == Given(d, p, s)
  <2>1. <<p, v>> \in Slips
    BY <1>1
  <2>2. p[1] = "row" /\ p[3] = f
    OBVIOUS
  <2> HIDE DEF p, v
  <2>3. \E x \in Assets : \E g \in DOMAIN RowSlips : p = <<"row", x, g>> /\ v \in RowSlips[g]
    BY <2>1, <2>2, SlipsAre
  <2> QED BY <2>2, <2>3 DEF p, v
<1> QED BY <1>2, <1>3, <1>4, <1>5

Kinds == {"macro", "spot", "rsi", "ma20", "ma50", "quality", "liquidation", "yield_odd", "macro_na", "ma20_na", "filing_na"}
Events == {"dated", "undated", "generic", "generic_billions", "billions", "halving_undated"}

(* The usual values the proof needs, and the slips from them.              *)
LEMMA BriefValues ==
    /\ DOMAIN SoundBrief = BriefFields /\ DOMAIN SoundLeg = LegFields /\ DOMAIN SoundRow = RowFields
    /\ SoundBrief.legs = Assets /\ SoundBrief.rows = Assets
    /\ SoundBrief.body = [m \in Desks |-> 40] /\ SoundBrief.chances = <<50, 30, 20>>
    /\ SoundBrief.calendar = <<"dated", "dated", "dated">>
    /\ SoundBrief.crypto_rows = <<"macro", "spot", "rsi", "ma20", "ma50", "quality", "liquidation">>
    /\ SoundLeg.share = 200 /\ SoundRow.mode = "neutral"
<1>1. DOMAIN SoundBrief = BriefFields
  BY DEF SoundBrief, BriefFields
<1>2. DOMAIN SoundLeg = LegFields /\ DOMAIN SoundRow = RowFields
  BY DEF SoundLeg, LegFields, SoundRow, RowFields
<1>3. SoundBrief.legs = Assets /\ SoundBrief.rows = Assets
  BY Zenon DEF SoundBrief
<1>4. SoundBrief.body = [m \in Desks |-> 40] /\ SoundBrief.chances = <<50, 30, 20>>
  BY Zenon DEF SoundBrief
<1>5. SoundBrief.calendar = <<"dated", "dated", "dated">>
  BY Zenon DEF SoundBrief
<1>6. SoundBrief.crypto_rows = <<"macro", "spot", "rsi", "ma20", "ma50", "quality", "liquidation">>
  BY Zenon DEF SoundBrief
<1>7. SoundLeg.share = 200 /\ SoundRow.mode = "neutral"
  BY Zenon DEF SoundLeg, SoundRow
<1> QED BY <1>1, <1>2, <1>3, <1>4, <1>5, <1>6, <1>7

(* The slips of the fields whose type matters.                             *)
LEMMA SlipValues ==
    /\ BriefSlips.legs = {{"BTC"}, {"BTC", "NVDA"}} /\ BriefSlips.rows = {{}, {"BTC", "MSFT"}}
    /\ BriefSlips.body = {[CRYPTO |-> 30, EQUITY |-> 40], [CRYPTO |-> 40, EQUITY |-> 33], [CRYPTO |-> 40, EQUITY |-> 30],
                          [CRYPTO |-> 22, EQUITY |-> 40]}
    /\ LegSlips.share = {Blank, 633, 2000} /\ RowSlips.mode = {"risk_on", "none"}
    /\ EnvSlips.agreed = {"none", "risk_off", "risk_on"}
<1>1. BriefSlips.legs = {{"BTC"}, {"BTC", "NVDA"}} /\ BriefSlips.rows = {{}, {"BTC", "MSFT"}}
  BY Zenon DEF BriefSlips
<1>2. BriefSlips.body = {[CRYPTO |-> 30, EQUITY |-> 40], [CRYPTO |-> 40, EQUITY |-> 33], [CRYPTO |-> 40, EQUITY |-> 30],
                         [CRYPTO |-> 22, EQUITY |-> 40]}
  BY Zenon DEF BriefSlips
<1>3. LegSlips.share = {Blank, 633, 2000} /\ RowSlips.mode = {"risk_on", "none"}
  BY Zenon DEF LegSlips, RowSlips
<1>4. EnvSlips.agreed = {"none", "risk_off", "risk_on"}
  BY Zenon DEF EnvSlips
<1> QED BY <1>1, <1>2, <1>3, <1>4

(* What the answers are, whatever the writer wrote.                        *)
Answer(b) ==
    /\ Shape(b)
    /\ b.of.legs \subseteq Assets /\ b.of.rows \subseteq Assets
    /\ \A m \in Desks : b.of.body[m] \in Int
    /\ b.of.chances \in Seq(Int) /\ b.of.calendar \in Seq(Events) /\ b.of.crypto_rows \in Seq(Kinds)
    /\ \A a \in Assets : b.leg[a].share \in Int /\ b.leg[a].share >= Blank
    /\ \A a \in Assets : b.row[a].mode \in Modes

(* Whatever the slips, what is written is an answer.                       *)
LEMMA WrittenIsAnswer ==
    ASSUME NEW d, Deviates(d)
    PROVE  Answer(Written(d))
<1> DEFINE b == Written(d)
<1>1. /\ DOMAIN b = {"of", "text", "leg", "row"}
      /\ b.of = [f \in BriefFields |-> Given(d, <<"brief", f>>, SoundBrief[f])]
      /\ b.text = [f \in Texts |-> Given(d, <<"text", f>>, SoundText[f])]
      /\ b.leg = [a \in Assets |-> [f \in LegFields |-> Given(d, <<"leg", a, f>>, SoundLeg[f])]]
      /\ b.row = [a \in Assets |-> [f \in RowFields |-> Given(d, <<"row", a, f>>, SoundRow[f])]]
  BY BriefValues DEF Written
<1> HIDE DEF b
<1>2. Shape(b)
  BY <1>1 DEF Shape
<1>3. \A f \in BriefFields : b.of[f] = SoundBrief[f] \/ b.of[f] \in BriefSlips[f]
  <2> SUFFICES ASSUME NEW f \in BriefFields PROVE b.of[f] = SoundBrief[f] \/ b.of[f] \in BriefSlips[f]
    OBVIOUS
  <2>1. b.of[f] = Given(d, <<"brief", f>>, SoundBrief[f])
    BY <1>1
  <2> QED BY <2>1, GivenIs
<1>4. {"legs", "rows", "body", "chances", "calendar", "crypto_rows"} \subseteq BriefFields
  BY DEF BriefFields
<1>5. b.of.legs \subseteq Assets
  <2>1. b.of.legs = SoundBrief.legs \/ b.of.legs \in BriefSlips.legs
    BY <1>3, <1>4
  <2> QED BY <2>1, BriefValues, SlipValues DEF Assets
<1>6. b.of.rows \subseteq Assets
  <2>1. b.of.rows = SoundBrief.rows \/ b.of.rows \in BriefSlips.rows
    BY <1>3, <1>4
  <2> QED BY <2>1, BriefValues, SlipValues DEF Assets
<1>7. \A m \in Desks : b.of.body[m] \in Int
  <2>1. b.of.body = SoundBrief.body \/ b.of.body \in BriefSlips.body
    BY <1>3, <1>4
  <2> QED BY <2>1, BriefValues, SlipValues DEF Desks
<1>8. b.of.chances \in Seq(Int)
  <2>1. b.of.chances = SoundBrief.chances \/ b.of.chances \in BriefSlips.chances
    BY <1>3, <1>4
  <2>2. /\ <<50, 30, 20>> \in Seq(Int) /\ <<50, 30>> \in Seq(Int) /\ <<50, 30, 30>> \in Seq(Int)
        /\ <<50, 30, 20, 10>> \in Seq(Int)
    OBVIOUS
  <2>4. \A x \in {<<50, 30>>, <<50, 30, 30>>, <<50, 30, 20, 10>>} : x \in Seq(Int)
    BY <2>2, Zenon
  <2>5. BriefSlips.chances = {<<50, 30>>, <<50, 30, 30>>, <<50, 30, 20, 10>>}
    BY Zenon DEF BriefSlips
  <2>6. \A x \in BriefSlips.chances : x \in Seq(Int)
    BY <2>4, <2>5, Zenon
  <2>7. SoundBrief.chances \in Seq(Int)
    BY <2>2, BriefValues, Zenon
  <2> QED BY <2>1, <2>6, <2>7, Zenon
<1>9. b.of.calendar \in Seq(Events)
  <2>1. b.of.calendar = SoundBrief.calendar \/ b.of.calendar \in BriefSlips.calendar
    BY <1>3, <1>4
  <2>2. {"dated", "undated", "generic", "generic_billions", "billions", "halving_undated"} \subseteq Events
    BY DEF Events
  <2>3. /\ <<"dated", "dated", "dated">> \in Seq(Events) /\ <<"dated", "dated", "generic">> \in Seq(Events)
        /\ <<"dated", "dated", "halving_undated">> \in Seq(Events) /\ <<"dated", "dated", "billions">> \in Seq(Events)
        /\ <<"dated", "dated", "dated", "generic_billions">> \in Seq(Events)
        /\ <<"dated", "undated", "dated">> \in Seq(Events)
    BY <2>2
  <2>4. \A x \in {<<"dated", "dated", "generic">>, <<"dated", "dated", "halving_undated">>,
                                 <<"dated", "dated", "billions">>, <<"dated", "dated", "dated", "generic_billions">>,
                                 <<"dated", "undated", "dated">>} : x \in Seq(Events)
    BY <2>3, Zenon
  <2>5. BriefSlips.calendar = {<<"dated", "dated", "generic">>, <<"dated", "dated", "halving_undated">>,
                                 <<"dated", "dated", "billions">>, <<"dated", "dated", "dated", "generic_billions">>,
                                 <<"dated", "undated", "dated">>}
    BY Zenon DEF BriefSlips
  <2>6. \A x \in BriefSlips.calendar : x \in Seq(Events)
    BY <2>4, <2>5, Zenon
  <2>7. SoundBrief.calendar \in Seq(Events)
    BY <2>3, BriefValues, Zenon
  <2> QED BY <2>1, <2>6, <2>7, Zenon
<1>10. b.of.crypto_rows \in Seq(Kinds)
  <2>1. b.of.crypto_rows = SoundBrief.crypto_rows \/ b.of.crypto_rows \in BriefSlips.crypto_rows
    BY <1>3, <1>4
  <2>2. {"macro", "spot", "rsi", "ma20", "ma50", "quality", "liquidation", "yield_odd", "ma20_na", "filing_na"} \subseteq Kinds
    BY DEF Kinds
  <2>3. /\ <<"macro", "spot", "rsi", "ma20", "ma50", "quality", "liquidation">> \in Seq(Kinds)
        /\ <<"macro", "rsi">> \in Seq(Kinds) /\ <<"yield_odd", "spot", "ma20", "ma50", "quality">> \in Seq(Kinds)
        /\ <<"spot", "ma20_na", "ma50", "quality", "filing_na">> \in Seq(Kinds)
    BY <2>2
  <2>4. \A x \in {<<"macro", "rsi">>, <<"yield_odd", "spot", "ma20", "ma50", "quality">>,
                                    <<"spot", "ma20_na", "ma50", "quality", "filing_na">>} : x \in Seq(Kinds)
    BY <2>3, Zenon
  <2>5. BriefSlips.crypto_rows = {<<"macro", "rsi">>, <<"yield_odd", "spot", "ma20", "ma50", "quality">>,
                                    <<"spot", "ma20_na", "ma50", "quality", "filing_na">>}
    BY Zenon DEF BriefSlips
  <2>6. \A x \in BriefSlips.crypto_rows : x \in Seq(Kinds)
    BY <2>4, <2>5, Zenon
  <2>7. SoundBrief.crypto_rows \in Seq(Kinds)
    BY <2>3, BriefValues, Zenon
  <2> QED BY <2>1, <2>6, <2>7, Zenon
<1>11. ASSUME NEW a \in Assets PROVE b.leg[a].share \in Int /\ b.leg[a].share >= Blank
  <2>1. b.leg[a].share = Given(d, <<"leg", a, "share">>, SoundLeg.share)
    BY <1>1 DEF LegFields
  <2>2. b.leg[a].share = SoundLeg.share \/ b.leg[a].share \in LegSlips.share
    BY <2>1, GivenIs
  <2> QED BY <2>2, BriefValues, SlipValues DEF Blank
<1>12. ASSUME NEW a \in Assets PROVE b.row[a].mode \in Modes
  <2>1. b.row[a].mode = Given(d, <<"row", a, "mode">>, SoundRow.mode)
    BY <1>1 DEF RowFields
  <2>2. b.row[a].mode = SoundRow.mode \/ b.row[a].mode \in RowSlips.mode
    BY <2>1, GivenIs
  <2> QED BY <2>2, BriefValues, SlipValues DEF Modes, Regimes
<1> QED BY <1>2, <1>5, <1>6, <1>7, <1>8, <1>9, <1>10, <1>11, <1>12 DEF Answer, b

(* What a text owes to the regime shrinks only where "risk_off" goes, to a *)
(* sum only where one has many digits, and it grows only from a round sum. *)
LEMMA Extents ==
    ASSUME NEW t, NEW u, TextKept(t, u)
    PROVE  /\ RegimeExtent(t) \in Int /\ CiteExtent(t) \in Int
           /\ "risk_off" \notin t => RegimeExtent(t) <= RegimeExtent(u)
           /\ "ma20_digits" \notin t => CiteExtent(t) <= CiteExtent(u)
           /\ "ma20_near" \notin t => CiteExtent(u) <= CiteExtent(t)
<1>1. /\ RegimeExtent(t) \in Int /\ CiteExtent(t) \in Int
      /\ "risk_off" \notin t => RegimeExtent(t) <= RegimeExtent(u)
  BY DEF RegimeExtent, CiteExtent, TextKept, Regimes
<1>2. \A s : s \cap Cites # {} <=> "ma20_near" \in s \/ "ma20_digits" \in s \/ "ma20_cited" \in s
  BY DEF Cites
<1>3. "ma20_digits" \notin t => CiteExtent(t) <= CiteExtent(u)
  BY <1>2 DEF CiteExtent, TextKept
<1>4. "ma20_near" \notin t => CiteExtent(u) <= CiteExtent(t)
  BY <1>2 DEF CiteExtent, TextKept
<1> QED BY <1>1, <1>3, <1>4

(* A reason that had no label, named no regime that can be renamed to a    *)
(* shorter one and gave no sum of many digits is as long as before, or     *)
(* longer.                                                                 *)
LEMMA ReasonsLast ==
    ASSUME NEW w, NEW b, Answer(w), Keeps(w, b), NEW m \in Desks, m \notin w.of.labelled,
           {"risk_off", "ma20_digits"} \cap w.text[m] = {}
    PROVE  ReasonLength(w, m) >= LeastReason[m] => ReasonLength(b, m) >= LeastReason[m]
<1> DEFINE n == w.of.body[m]
<1>1. n \in Int /\ b.of.body[m] = n
  BY DEF Answer, Keeps, Kept
<1>2. m \notin b.of.labelled
  BY DEF Keeps
<1>0. TextKept(w.text[m], b.text[m])
  <2>1. m \in Texts
    BY DEF Desks, Texts
  <2> QED BY <2>1 DEF Keeps
<1>3. "prefix" \in w.text[m] => "prefix" \in b.text[m]
  BY <1>0 DEF TextKept
<1>4. LeastReason[m] \in Int
  BY DEF LeastReason, Desks
<1> HIDE DEF n
<1> DEFINE x == RegimeExtent(w.text[m])
           y == CiteExtent(w.text[m])
           z == RegimeExtent(b.text[m])
           v == CiteExtent(b.text[m])
<1>5. ReasonLength(w, m) = n + x + y + (IF "prefix" \in w.text[m] THEN 14 ELSE 0)
  BY <1>1 DEF ReasonLength, n, RegimeExtent, CiteExtent
<1>6. ReasonLength(b, m) = n + z + v + (IF "prefix" \in b.text[m] THEN 14 ELSE 0)
  BY <1>1, <1>2 DEF ReasonLength, RegimeExtent, CiteExtent
<1>7. x <= z /\ y <= v
  BY <1>0, Extents
<1>8. x \in Int /\ y \in Int /\ z \in Int /\ v \in Int
  BY DEF RegimeExtent, CiteExtent
<1> HIDE DEF x, y, z, v
<1> QED BY <1>1, <1>3, <1>4, <1>5, <1>6, <1>7, <1>8

(* A brief that keeps what was answered fails only what the answer fails:  *)
(* the thesis, but for one that gives a round sum,                         *)
LEMMA PhaseAIsOwn ==
    ASSUME NEW w, NEW b, Keeps(w, b), NEW i \in PhaseA(b)
    PROVE  i \in PhaseA(w) \/ (i = <<"phase_a", "thesis">> /\ "ma20_near" \in w.text["thesis"])
<1> DEFINE fits(x) == "said" \in x.text["thesis"] /\ ThesisLength(x.text["thesis"]) <= LongestThesis
<1>1. "ma20_near" \notin w.text["thesis"] /\ fits(w) => fits(b)
  <2> DEFINE t == w.text["thesis"]
             u == b.text["thesis"]
  <2>1. TextKept(t, u)
    BY DEF Keeps, Texts
  <2>2. /\ "said" \in t => "said" \in u
        /\ "full" \in u => "full" \in t
        /\ "overlong" \in u => "overlong" \in t
    BY <2>1 DEF TextKept
  <2>3. "ma20_near" \notin t => CiteExtent(u) <= CiteExtent(t)
    BY <2>1, Extents
  <2>4. CiteExtent(t) \in Int /\ CiteExtent(u) \in Int
    BY DEF CiteExtent
  <2> HIDE DEF t, u
  <2>5. "ma20_near" \notin t => ThesisLength(u) <= ThesisLength(t) /\ ThesisLength(u) \in Int /\ ThesisLength(t) \in Int
    BY <2>2, <2>3, <2>4 DEF ThesisLength
  <2> QED BY <2>2, <2>5 DEF LongestThesis, t, u
<1>2. "said" \in w.text["unless"] => "said" \in b.text["unless"]
  BY DEF Keeps, TextKept, Texts
<1>3. b.of.supports = w.of.supports /\ b.of.contras = w.of.contras /\ b.of.assumptions = w.of.assumptions
  BY DEF Keeps, Kept
<1> DEFINE rest(x) == Unless(x.of.supports \in 2..3, "phase_a", "supports")
                       \cup Unless(x.of.contras \in 2..3, "phase_a", "contras")
                       \cup Unless(x.of.assumptions \in 2..4, "phase_a", "assumptions")
                       \cup Unless("said" \in x.text["unless"], "phase_a", "unless")
<1>4. \A x : PhaseA(x) = Unless(fits(x), "phase_a", "thesis") \cup rest(x)
  BY Zenon DEF PhaseA
<1>5. rest(b) \subseteq rest(w)
  BY <1>2, <1>3 DEF Unless
<1>6. Unless(fits(b), "phase_a", "thesis") = IF fits(b) THEN {} ELSE {<<"phase_a", "thesis">>}
  BY Zenon DEF Unless
<1>7. Unless(fits(w), "phase_a", "thesis") = IF fits(w) THEN {} ELSE {<<"phase_a", "thesis">>}
  BY Zenon DEF Unless
<1> HIDE DEF fits, rest
<1>8. CASE i \in rest(b)
  BY <1>4, <1>5, <1>8
<1>9. CASE i \in Unless(fits(b), "phase_a", "thesis")
  BY <1>1, <1>4, <1>6, <1>7, <1>9
<1> QED BY <1>4, <1>8, <1>9

(* the chances,                                                            *)
LEMMA PhaseBIsOwn ==
    ASSUME NEW w, NEW b, Keeps(w, b) PROVE PhaseB(b) \subseteq PhaseB(w)
<1>1. "said" \in w.text["framing"] => "said" \in b.text["framing"]
  BY DEF Keeps, TextKept, Texts
<1>2. b.of.pricing = w.of.pricing
  BY DEF Keeps, Kept
<1>3. Chances(w.of.chances) => Chances(b.of.chances)
  BY DEF Keeps
<1>4. \A x : PhaseB(x) = Unless("said" \in x.text["framing"], "phase_b", "framing")
                          \cup Unless(Chances(x.of.chances), "phase_b", "chances")
                          \cup Unless(x.of.pricing = "canonical", "phase_b", "pricing")
  BY Zenon DEF PhaseB, Chances
<1>5. \A x : PhaseB(x) = (IF "said" \in x.text["framing"] THEN {} ELSE {<<"phase_b", "framing">>})
                          \cup (IF Chances(x.of.chances) THEN {} ELSE {<<"phase_b", "chances">>})
                          \cup (IF x.of.pricing = "canonical" THEN {} ELSE {<<"phase_b", "pricing">>})
  BY <1>4, Zenon DEF Unless
<1> DEFINE kb == Chances(b.of.chances)
           kw == Chances(w.of.chances)
<1>6. /\ PhaseB(b) = (IF "said" \in b.text["framing"] THEN {} ELSE {<<"phase_b", "framing">>})
                          \cup (IF kb THEN {} ELSE {<<"phase_b", "chances">>})
                          \cup (IF b.of.pricing = "canonical" THEN {} ELSE {<<"phase_b", "pricing">>})
      /\ PhaseB(w) = (IF "said" \in w.text["framing"] THEN {} ELSE {<<"phase_b", "framing">>})
                          \cup (IF kw THEN {} ELSE {<<"phase_b", "chances">>})
                          \cup (IF w.of.pricing = "canonical" THEN {} ELSE {<<"phase_b", "pricing">>})
  BY <1>5
<1>7. kw => kb
  BY <1>3
<1> HIDE DEF kb, kw
<1> QED BY <1>1, <1>2, <1>6, <1>7

(* the cycle, but for a calendar that lost generic rows,                   *)
LEMMA PhaseCIsOwn ==
    ASSUME NEW w, NEW b, Answer(w), Keeps(w, b), NEW i \in PhaseC(b)
    PROVE  i \in PhaseC(w) \/ (i = <<"phase_c", "calendar">> /\ Generics \cap Range(w.of.calendar) # {})
<1> DEFINE legs(x) == UNION {Unless(x.leg[a].liquidity, "phase_c", a) : a \in x.of.legs}
<1>1. \A x : PhaseC(x) = Unless("said" \in x.text["cycle"], "phase_c", "cycle")
                          \cup Unless("said" \in x.text["valuation"], "phase_c", "valuation")
                          \cup Unless(Len(x.of.calendar) \in 3..6, "phase_c", "calendar")
                          \cup Unless("undated" \notin Range(x.of.calendar), "phase_c", "dates")
                          \cup legs(x)
  BY Zenon DEF PhaseC
<1>2. "said" \in w.text["cycle"] => "said" \in b.text["cycle"]
  BY DEF Keeps, TextKept, Texts
<1>3. "said" \in w.text["valuation"] => "said" \in b.text["valuation"]
  BY DEF Keeps, TextKept, Texts
<1>4. CalendarKept(w.of.calendar, b.of.calendar)
  BY DEF Keeps
<1>5. legs(b) = legs(w)
  <2>1. b.of.legs = w.of.legs /\ w.of.legs \subseteq Assets
    BY DEF Keeps, Kept, Answer
  <2>2. \A a \in w.of.legs : b.leg[a].liquidity = w.leg[a].liquidity
    BY <2>1 DEF Keeps
  <2>3. \A a \in w.of.legs : Unless(b.leg[a].liquidity, "phase_c", a) = Unless(w.leg[a].liquidity, "phase_c", a)
    BY <2>2
  <2> QED BY <2>1, <2>3
<1> HIDE DEF legs
<1>6. CASE i \in Unless("said" \in b.text["cycle"], "phase_c", "cycle")
  <2>1. i \in Unless("said" \in w.text["cycle"], "phase_c", "cycle")
    BY <1>2, <1>6 DEF Unless
  <2> QED BY <1>1, <2>1
<1>7. CASE i \in Unless("said" \in b.text["valuation"], "phase_c", "valuation")
  <2>1. i \in Unless("said" \in w.text["valuation"], "phase_c", "valuation")
    BY <1>3, <1>7 DEF Unless
  <2> QED BY <1>1, <2>1
<1>8. CASE i \in Unless(Len(b.of.calendar) \in 3..6, "phase_c", "calendar")
  <2>1. CASE Generics \cap Range(w.of.calendar) # {}
    BY <1>8, <2>1 DEF Unless
  <2>2. CASE Generics \cap Range(w.of.calendar) = {}
    <3>1. Len(b.of.calendar) = Len(w.of.calendar)
      BY <1>4, <2>2 DEF CalendarKept
    <3>2. i \in Unless(Len(w.of.calendar) \in 3..6, "phase_c", "calendar")
      BY <1>8, <3>1
    <3> QED BY <1>1, <3>2
  <2> QED BY <2>1, <2>2
<1>9. CASE i \in Unless("undated" \notin Range(b.of.calendar), "phase_c", "dates")
  <2>1. "undated" \in Range(b.of.calendar) => "undated" \in Range(w.of.calendar)
    BY <1>4 DEF CalendarKept
  <2>2. i \in Unless("undated" \notin Range(w.of.calendar), "phase_c", "dates")
    BY <1>9, <2>1 DEF Unless
  <2> QED BY <1>1, <2>2
<1>10. CASE i \in legs(b)
  BY <1>1, <1>5, <1>10
<1> QED BY <1>1, <1>6, <1>7, <1>8, <1>9, <1>10

(* and every rule of the schema, but for that thesis, that calendar and a  *)
(* reason that was made shorter (_structured_business_rules).              *)
LEMMA IssuesAreOwn ==
    ASSUME NEW w, NEW b, Answer(w), Keeps(w, b), RegimeAgrees(b), \A a \in Assets : w.row[a].category = "own",
           NEW p \in BOOLEAN, NEW on, NEW i \in RuleIssues(b, p, on)
    PROVE  \/ i \in RuleIssues(w, p, on)
           \/ i = <<"phase_c", "calendar">> /\ Generics \cap Range(w.of.calendar) # {}
           \/ i = <<"phase_a", "thesis">> /\ "ma20_near" \in w.text["thesis"]
           \/ i[1] = "reason" /\ (i[2] \in w.of.labelled \/ {"risk_off", "ma20_digits"} \cap w.text[i[2]] # {})
<1> DEFINE news(x)  == UNION {Unless(x.of.news[m] >= 3, "news", m) : m \in Desks}
           tier(x)  == Unless(Tagged(x) >= 6 \/ p, "tier", "missing")
           wrong(x) == Unless(p => Tagged(x) \in 3..5, "tier", "wrong")
           rows(x)  == Unless(x.of.rows # {}, "rows", "none")
           why(x)   == UNION {Unless(ReasonLength(x, m) >= LeastReason[m], "reason", m) : m \in Desks}
           risk(x)  == Unless(Names(x.text["budget"], x.of.regime), "budget", "regime")
           own(x)   == UNION {Unless(x.row[a].category = "own", "category", a) : a \in x.of.rows}
           way(x)   == UNION {Unless(x.leg[a].direction = x.row[a].direction, "direction", a) : a \in x.of.legs \cap x.of.rows}
           plans(x) == UNION {Unless(x.leg[a].stars >= 2 => x.leg[a].scenarios, "scenarios", a) : a \in x.of.legs}
           pa(x)    == IF "phase_a" \in on THEN PhaseA(x) ELSE {}
           pb(x)    == IF "phase_b" \in on THEN PhaseB(x) ELSE {}
           pc(x)    == IF "phase_c" \in on THEN PhaseC(x) ELSE {}
<1>1. \A x : RuleIssues(x, p, on) = news(x) \cup tier(x) \cup wrong(x) \cup rows(x) \cup why(x) \cup risk(x) \cup own(x)
                                     \cup way(x) \cup plans(x) \cup pa(x) \cup pb(x) \cup pc(x)
  BY Zenon DEF RuleIssues
<1>2. /\ b.of.news = w.of.news /\ b.of.rows = w.of.rows /\ b.of.legs = w.of.legs
      /\ w.of.legs \subseteq Assets /\ w.of.rows \subseteq Assets
  BY DEF Keeps, Kept, Answer
<1>3. news(b) = news(w)
  BY <1>2
<1>4. tier(b) = tier(w) /\ wrong(b) = wrong(w) /\ rows(b) = rows(w)
  BY <1>2 DEF Tagged
<1> DEFINE shorter == i[1] = "reason" /\ (i[2] \in w.of.labelled \/ {"risk_off", "ma20_digits"} \cap w.text[i[2]] # {})
<1>5. ASSUME i \in why(b) PROVE i \in why(w) \/ shorter
  <2>1. PICK m \in Desks : i \in Unless(ReasonLength(b, m) >= LeastReason[m], "reason", m)
    BY <1>5
  <2>2. i = <<"reason", m>> /\ ~ (ReasonLength(b, m) >= LeastReason[m])
    BY <2>1 DEF Unless
  <2>3. CASE m \in w.of.labelled \/ {"risk_off", "ma20_digits"} \cap w.text[m] # {}
    BY <2>2, <2>3
  <2>4. CASE m \notin w.of.labelled /\ {"risk_off", "ma20_digits"} \cap w.text[m] = {}
    <3>1. ~ (ReasonLength(w, m) >= LeastReason[m])
      BY <2>2, <2>4, ReasonsLast
    <3>2. i \in Unless(ReasonLength(w, m) >= LeastReason[m], "reason", m)
      BY <2>2, <3>1 DEF Unless
    <3> QED BY <3>2
  <2> QED BY <2>3, <2>4
<1>6. risk(b) = {}
  BY Zenon DEF RegimeAgrees, Unless
<1>7. own(b) = {}
  <2>1. \A a \in b.of.rows : b.row[a].category = "own"
    BY <1>2 DEF Keeps
  <2> QED BY <2>1 DEF Unless
<1>8. way(b) = way(w)
  <2>1. \A a \in Assets : b.leg[a].direction = w.leg[a].direction /\ b.row[a].direction = w.row[a].direction
    BY DEF Keeps
  <2> QED BY <1>2, <2>1
<1>9. plans(b) = plans(w)
  <2>1. \A a \in Assets : b.leg[a].stars = w.leg[a].stars /\ b.leg[a].scenarios = w.leg[a].scenarios
    BY DEF Keeps
  <2> QED BY <1>2, <2>1
<1>10. pb(b) \subseteq pb(w)
  BY PhaseBIsOwn
<1> DEFINE longer == i = <<"phase_a", "thesis">> /\ "ma20_near" \in w.text["thesis"]
<1>14. i \in pa(b) => i \in pa(w) \/ longer
  BY PhaseAIsOwn
<1>11. i \in pc(b) => i \in pc(w) \/ (i = <<"phase_c", "calendar">> /\ Generics \cap Range(w.of.calendar) # {})
  BY PhaseCIsOwn
<1> HIDE DEF news, tier, wrong, rows, why, risk, own, way, plans, pa, pb, pc, shorter, longer
<1>12. i \in news(b) \cup tier(b) \cup wrong(b) \cup rows(b) \cup why(b) \cup way(b) \cup plans(b) \cup pa(b) \cup pb(b) \cup pc(b)
  BY <1>1, <1>6, <1>7
<1>13. news(w) \cup tier(w) \cup wrong(w) \cup rows(w) \cup why(w) \cup way(w) \cup plans(w) \cup pa(w) \cup pb(w) \cup pc(w)
         \subseteq RuleIssues(w, p, on)
  BY <1>1
<1>15. \/ i \in RuleIssues(w, p, on)
       \/ i = <<"phase_c", "calendar">> /\ Generics \cap Range(w.of.calendar) # {}
       \/ longer \/ shorter
  BY <1>3, <1>4, <1>5, <1>8, <1>9, <1>10, <1>11, <1>12, <1>13, <1>14
<1> QED BY <1>15 DEF longer, shorter

(* Parsing keeps the answer an answer, and every category its desk's.      *)
LEMMA ParsedIsAnswer ==
    ASSUME NEW w, Answer(w)
    PROVE  LET c == Parsed(w)
           IN /\ Answer(c)
              /\ \A a \in Assets : c.row[a].category = "own"
              /\ \A a \in Assets : \A f \in LegFields \ {"invalidation"} : c.leg[a][f] = w.leg[a][f]
              /\ c.of.legs = w.of.legs /\ c.of.rows = w.of.rows /\ c.of.regime = w.of.regime
              /\ c.of.labelled = w.of.labelled
<1> DEFINE c   == Parsed(w)
           of  == [w.of EXCEPT !.pricing = ParsedPricing(@), !.stamps = "utc8",
                               !.chatter = ParsedChatter(@), !.agency = ParsedAgency(@),
                               !.crypto_rows = ParsedRows(@), !.ai_rows = ParsedRows(@)]
           text == [f \in Texts |-> Unechoed(w.text[f]) \cup (IF f = "conflict" THEN {"said"} ELSE {})]
           leg == [a \in Assets |-> ParsedLeg(w.leg[a])]
           row == [a \in Assets |-> ParsedRow(w, a)]
<1>1. c = [of |-> of, text |-> text, leg |-> leg, row |-> row]
  BY Zenon DEF Parsed
<1>2. /\ DOMAIN of = BriefFields
      /\ \A f \in BriefFields \ {"pricing", "stamps", "chatter", "agency", "crypto_rows", "ai_rows"} : of[f] = w.of[f]
      /\ of.crypto_rows = ParsedRows(w.of.crypto_rows)
  BY DEF Answer, Shape, BriefFields
<1>3. ASSUME NEW a \in Assets
      PROVE  /\ DOMAIN leg[a] = LegFields
             /\ \A f \in LegFields \ {"invalidation"} : leg[a][f] = w.leg[a][f]
  <2>1. DOMAIN w.leg[a] = LegFields
    BY DEF Answer, Shape
  <2>2. leg[a] = ParsedLeg(w.leg[a])
    OBVIOUS
  <2> QED BY <2>1, <2>2 DEF ParsedLeg
<1>4. ASSUME NEW a \in Assets
      PROVE  DOMAIN row[a] = RowFields /\ row[a].category = "own" /\ row[a].mode = w.row[a].mode
  <2> DEFINE r == [w.row[a] EXCEPT !.direction = RowDirection(w, a), !.gap = @ \/ w.row[a].scored]
  <2>1. DOMAIN w.row[a] = RowFields
    BY DEF Answer, Shape
  <2>2. row[a] = [r EXCEPT !.category = "own"]
    BY Zenon DEF ParsedRow, DeskCategory
  <2>3. DOMAIN r = RowFields /\ r.mode = w.row[a].mode
    BY <2>1
  <2> HIDE DEF r, row
  <2>4. "category" \in RowFields
    BY DEF RowFields
  <2> QED BY <2>2, <2>3, <2>4
<1>5. DOMAIN text = Texts /\ DOMAIN leg = Assets /\ DOMAIN row = Assets
  OBVIOUS
<1> HIDE DEF c, of, text, leg, row
<1>6. c.of = of /\ c.text = text /\ c.leg = leg /\ c.row = row /\ DOMAIN c = {"of", "text", "leg", "row"}
  BY <1>1
<1>7. Shape(c)
  BY <1>2, <1>3, <1>4, <1>5, <1>6 DEF Shape
<1>8. {"legs", "rows", "regime", "labelled", "body", "chances", "calendar"}
        \subseteq BriefFields \ {"pricing", "stamps", "chatter", "agency", "crypto_rows", "ai_rows"}
  BY DEF BriefFields
<1>9. \A f \in {"legs", "rows", "regime", "labelled", "body", "chances", "calendar"} : c.of[f] = w.of[f]
  BY <1>2, <1>6, <1>8
<1>10. c.of.crypto_rows \in Seq(Kinds)
  <2> DEFINE rows == w.of.crypto_rows
             new  == ParsedRows(rows)
  <2>1. rows \in Seq(Kinds) /\ "macro_na" \in Kinds
    BY DEF Answer, Kinds
  <2>2. new = [i \in DOMAIN rows |-> IF rows[i] = "yield_odd" THEN "macro_na" ELSE rows[i]]
    BY Zenon DEF ParsedRows
  <2>3. c.of.crypto_rows = new
    BY <1>2, <1>6
  <2> HIDE DEF rows, new
  <2>4. DOMAIN rows = 1..Len(rows) /\ Len(rows) \in Nat /\ \A i \in 1..Len(rows) : rows[i] \in Kinds
    BY <2>1
  <2>5. new \in [1..Len(rows) -> Kinds]
    BY <2>1, <2>2, <2>4
  <2> QED BY <2>3, <2>4, <2>5
<1>11. \A a \in Assets : c.leg[a].share = w.leg[a].share
  BY <1>3, <1>6 DEF LegFields
<1>12. Answer(c)
  BY <1>4, <1>6, <1>7, <1>9, <1>10, <1>11 DEF Answer
<1> QED BY <1>3, <1>4, <1>6, <1>9, <1>12 DEF c

(* What the writer answered, as it was parsed.                             *)
Wrote == Parsed(Written(slips))
Taken == Deviates(slips) /\ Accepted(Written(slips))

(* What an accepted answer is once it is parsed,                           *)
LEMMA AcceptedIs ==
    ASSUME NEW d, Deviates(d), Accepted(Written(d))
    PROVE  LET c == Parsed(Written(d))
           IN /\ Answer(c) /\ c.of.regime \in Regimes
              /\ \A a \in Assets : c.row[a].category = "own"
              /\ \A a \in c.of.legs : c.leg[a].stars \in 1..4
              /\ c.of.labelled = Written(d).of.labelled
<1> DEFINE w == Written(d)
           c == Parsed(w)
<1>1. Answer(w)
  BY WrittenIsAnswer
<1>2. w.of.regime \in Regimes /\ \A a \in w.of.legs : w.leg[a].stars \in 1..4
  BY Zenon DEF Accepted, LegAccepted
<1> HIDE DEF w
<1>3. /\ Answer(c)
      /\ \A a \in Assets : c.row[a].category = "own"
      /\ \A a \in Assets : \A f \in LegFields \ {"invalidation"} : c.leg[a][f] = w.leg[a][f]
      /\ c.of.legs = w.of.legs /\ c.of.regime = w.of.regime
      /\ c.of.labelled = w.of.labelled
  BY <1>1, ParsedIsAnswer
<1> HIDE DEF c
<1>4. \A a \in w.of.legs : a \in Assets /\ c.leg[a].stars = w.leg[a].stars
  BY <1>1, <1>3 DEF Answer, LegFields
<1> QED BY <1>2, <1>3, <1>4 DEF c, w

(* in the state,                                                           *)
LEMMA WroteIs ==
    ASSUME Taken
    PROVE  /\ Answer(Wrote) /\ Wrote.of.regime \in Regimes
           /\ \A a \in Assets : Wrote.row[a].category = "own"
           /\ \A a \in Wrote.of.legs : Wrote.leg[a].stars \in 1..4
           /\ Wrote.of.labelled = Written(slips).of.labelled
  BY AcceptedIs DEF Taken, Wrote

(* and what the scorecard may say.                                         *)
LEMMA AgreedIs == ASSUME Taken PROVE Agreed \in Modes
<1>1. Agreed = Given(slips, <<"env", "agreed">>, Settings.agreed)
  BY DEF Agreed, Setting
<1>2. Settings.agreed = "neutral"
  BY DEF Settings
<1>3. Agreed = "neutral" \/ Agreed \in EnvSlips.agreed
  BY <1>1, <1>2, GivenIs DEF Taken
<1> QED BY <1>3, SlipValues DEF Modes, Regimes

Used(l) == ~ (Unpriced(l) /\ l.ratios)

(* What was answered before stays used, and what is answered now must be.  *)
LEMMA UsedStays ==
    ASSUME AnswersUsed(brief), Keeps(brief, brief'), slips' = slips, NEW X, answered' = answered \cup X,
           \A a \in US : Used(brief.leg[a]) \/ <<"quote", a>> \in X => Used(brief'.leg[a]),
           <<"index", "SPX">> \in X => "index_low" \notin brief'.text["valuation"],
           <<"band", "ma20">> \in X => \A f \in CitingTexts : {"ma20_near", "ma20_digits"} \cap brief'.text[f] = {},
           \/ \A m \in Desks : {<<"again", m>>, <<"header", m>>} \cap (answered \cup X) = {}
           \/ \A m \in Desks : /\ Declared(brief, m) => Declared(brief', m)
                               /\ Again(m) /\ {<<"again", m>>, <<"header", m>>} \cap X # {} => Declared(brief', m)
    PROVE  AnswersUsed(brief)'
<1>1. \A a \in US : <<"quote", a>> \in answered' => Used(brief'.leg[a])
  BY DEF AnswersUsed, Used
<1>2. <<"index", "SPX">> \in answered' => "index_low" \notin brief'.text["valuation"]
  <2>1. "valuation" \in Texts
    BY DEF Texts
  <2>2. "index_low" \in brief'.text["valuation"] => "index_low" \in brief.text["valuation"]
    BY <2>1 DEF Keeps, TextKept
  <2> QED BY <2>2 DEF AnswersUsed
<1>3. <<"band", "ma20">> \in answered' => \A f \in CitingTexts : {"ma20_near", "ma20_digits"} \cap brief'.text[f] = {}
  <2>1. CitingTexts \subseteq Texts
    BY DEF CitingTexts
  <2>2. \A f \in CitingTexts : {"ma20_near", "ma20_digits"} \cap brief'.text[f] \subseteq brief.text[f]
    BY <2>1 DEF Keeps, TextKept
  <2> QED BY <2>2 DEF AnswersUsed
<1>4. \A m \in Desks : Again(m)' <=> Again(m)
  BY DEF Keeps, Kept, Again, Yesterday, Setting
<1>5. ASSUME NEW m \in Desks, Again(m)'
      PROVE  /\ <<"again", m>> \in answered' => Declared(brief', m)
             /\ m \in Written(slips').of.labelled /\ ~ Declared(brief', m) => <<"header", m>> \notin answered'
  <2>1. CASE \A n \in Desks : {<<"again", n>>, <<"header", n>>} \cap (answered \cup X) = {}
    BY <2>1, Zenon
  <2>2. CASE /\ Declared(brief, m) => Declared(brief', m)
             /\ Again(m) /\ {<<"again", m>>, <<"header", m>>} \cap X # {} => Declared(brief', m)
    <3>1. Again(m)
      BY <1>4, <1>5
    <3>2. <<"again", m>> \in answered => Declared(brief, m)
      BY <3>1, Zenon DEF AnswersUsed
    <3>3. m \in Written(slips).of.labelled /\ ~ Declared(brief, m) => <<"header", m>> \notin answered
      BY <3>1, Zenon DEF AnswersUsed
    <3>4. CASE Declared(brief', m)
      BY <3>4
    <3>5. CASE ~ Declared(brief', m)
      <4>1. ~ Declared(brief, m) /\ <<"again", m>> \notin X /\ <<"header", m>> \notin X
        BY <2>2, <3>1, <3>5, Zenon
      <4>2. <<"again", m>> \notin answered' /\ (m \in Written(slips).of.labelled => <<"header", m>> \notin answered')
        BY <3>2, <3>3, <4>1
      <4> QED BY <4>2
    <3> QED BY <3>4, <3>5
  <2> QED BY <2>1, <2>2
<1> QED BY <1>1, <1>2, <1>3, <1>5, Zenon DEF AnswersUsed, Used

Repairs == {"align", "dashboard", "hygiene", "anchor", "shares", "quotes", "headers", "declare", "layout"}
BeforeDashboard == {"align", "dashboard"}
BeforeHygiene == BeforeDashboard \cup {"hygiene"}
BeforeShares == BeforeHygiene \cup {"anchor", "shares"}
BeforeHeaders == BeforeShares \cup {"quotes", "headers"}

BriefInv ==
    /\ step = "write" => answered = {}
    /\ step \notin {"write", "rejected"} =>
         /\ Taken /\ Keeps(Wrote, brief) /\ brief.of.regime \in Regimes
         /\ AnswersUsed(brief)
         /\ step \in BeforeHeaders => \A m \in Desks : {<<"again", m>>, <<"header", m>>} \cap answered = {}
         /\ step = "align" => brief = Wrote
         /\ step \in BeforeDashboard => brief.of.crypto_rows = Wrote.of.crypto_rows
         /\ step \in BeforeHygiene => /\ brief.of.calendar = Wrote.of.calendar
                                      /\ brief.of.chances = Wrote.of.chances
         /\ step \in BeforeShares => \A a \in Assets : brief.leg[a].share = Wrote.leg[a].share
         /\ step # "align" => RegimeAgrees(brief)
         /\ step \notin BeforeHygiene => NoBleed(brief)
         /\ step \notin BeforeShares => CapsKept(brief)
         /\ step \in {"built", "refused", "rendered"} => SummaryAgrees(brief)
         /\ step = "rendered" => TextsAgree(brief)
         /\ step = "refused" => unmet = RuleIssues(brief, PartialTier(brief), On)

(* Nothing in the settings or in what was written moves after the answer.  *)
LEMMA SettingsStay ==
    ASSUME slips' = slips
    PROVE  Wrote' = Wrote /\ Agreed' = Agreed /\ On' = On /\ (Taken' <=> Taken)
  BY DEF Wrote, Agreed, On, Setting, Taken

(* The scorecard stays, so a brief agrees now or then.                     *)
LEMMA AgreesNow ==
    ASSUME slips' = slips
    PROVE  (RegimeAgrees(brief)' <=> RegimeAgrees(brief')) /\ (TextsAgree(brief)' <=> TextsAgree(brief'))
  BY DEF RegimeAgrees, TextsAgree, Agreed, Setting

(* The invariant is kept by every step: the answer,                        *)
LEMMA WriteStep == ASSUME BriefInv, Write PROVE BriefInv'
<1>1. step = "write" /\ answered = {} /\ answered' = {}
  BY DEF BriefInv, Write, Parse
<1>2. PICK d : Deviates(d) /\ Parse(d)
  <2>1. CASE Parse(<<>>)
    BY <2>1, WithDeviates
  <2>2. CASE \E t, u \in Slips : Parse(With(t, u))
    BY <2>2, WithDeviates
  <2> QED BY <2>1, <2>2 DEF Write
<1>3. slips' = d
  BY <1>2 DEF Parse
<1>4. CASE ~ Accepted(Written(d))
  BY <1>1, <1>2, <1>4 DEF Parse, BriefInv
<1>5. CASE Accepted(Written(d))
  <2>1. step' = "align" /\ brief' = Wrote'
    BY <1>2, <1>3, <1>5 DEF Parse, Wrote
  <2>2. Taken'
    BY <1>2, <1>3, <1>5 DEF Taken
  <2>3. Answer(Wrote') /\ Wrote'.of.regime \in Regimes
    <3>1. Wrote' = Parsed(Written(d))
      BY <1>3 DEF Wrote
    <3> QED BY <1>2, <1>5, <3>1, AcceptedIs
  <2>4. Keeps(Wrote', brief')
    BY <2>1, <2>3, KeepsItself DEF Answer
  <2>5. AnswersUsed(brief)'
    BY <1>1 DEF AnswersUsed
  <2> QED BY <1>1, <2>1, <2>2, <2>3, <2>4, <2>5
          DEF BriefInv, BeforeHeaders, BeforeShares, BeforeHygiene, BeforeDashboard
<1> QED BY <1>4, <1>5

(* What the invariant says at the step under way, for the steps to cite.   *)
LEMMA Now ==
    ASSUME BriefInv, step \in Repairs \cup {"built"}
    PROVE  /\ Taken /\ Keeps(Wrote, brief) /\ brief.of.regime \in Regimes /\ AnswersUsed(brief)
           /\ Answer(Wrote) /\ Shape(brief)
           /\ brief.of.legs = Wrote.of.legs /\ brief.of.rows = Wrote.of.rows
           /\ brief.of.legs \subseteq Assets /\ brief.of.rows \subseteq Assets
           /\ step # "align" => RegimeAgrees(brief)
<1>1. step \notin {"write", "rejected"}
  BY DEF Repairs
<1>2. Taken /\ Keeps(Wrote, brief) /\ brief.of.regime \in Regimes /\ AnswersUsed(brief)
      /\ (step # "align" => RegimeAgrees(brief))
  BY <1>1 DEF BriefInv
<1>3. Answer(Wrote)
  BY <1>2, WroteIs
<1> QED BY <1>2, <1>3 DEF Keeps, Kept, Answer

(* the regime,                                                             *)
LEMMA AlignStep == ASSUME BriefInv, Align PROVE BriefInv'
<1>1. step = "align" /\ step' = "dashboard" /\ slips' = slips /\ answered' = answered
      /\ brief' = FixMisbrandedNote(CoerceRowModes(CoerceSections(brief)))
  BY DEF Align, Goes, Quietly
<1>2. /\ Taken /\ Keeps(Wrote, brief) /\ AnswersUsed(brief) /\ brief = Wrote
      /\ \A m \in Desks : {<<"again", m>>, <<"header", m>>} \cap answered = {}
  BY <1>1 DEF BriefInv, BeforeHeaders, BeforeShares, BeforeHygiene, BeforeDashboard
<1>3. Answer(Wrote) /\ Wrote.of.regime \in Regimes /\ Agreed \in Modes
  BY <1>2, WroteIs, AgreedIs
<1>4. /\ Keeps(brief, brief') /\ RegimeAgrees(brief') /\ brief'.of.regime \in Regimes /\ brief'.leg = brief.leg
      /\ \A f \in BriefFields \ {"regime"} : brief'.of[f] = brief.of[f]
  <2>1. Shape(brief) /\ brief.of.regime \in Regimes /\ brief.of.rows \subseteq Assets
        /\ \A a \in brief.of.rows : brief.row[a].mode \in Modes
    BY <1>2, <1>3 DEF Answer
  <2> QED BY <1>1, <1>3, <2>1, AlignKeeps
<1>5. Wrote' = Wrote /\ Taken' /\ RegimeAgrees(brief)'
  BY <1>1, <1>2, <1>4, SettingsStay, AgreesNow
<1>6. Keeps(Wrote', brief')
  BY <1>2, <1>4, <1>5, KeepsOn
<1>7. AnswersUsed(brief)'
  <2>1. answered' = answered \cup {}
    BY <1>1
  <2>2. \A a \in US : brief'.leg[a] = brief.leg[a]
    BY <1>4
  <2> QED BY <1>1, <1>2, <1>4, <2>1, <2>2, UsedStays
<1>8. /\ brief'.of.crypto_rows = Wrote'.of.crypto_rows /\ brief'.of.calendar = Wrote'.of.calendar
      /\ brief'.of.chances = Wrote'.of.chances
      /\ \A a \in Assets : brief'.leg[a].share = Wrote'.leg[a].share
  BY <1>2, <1>4, <1>5 DEF BriefFields
<1> QED BY <1>1, <1>2, <1>4, <1>5, <1>6, <1>7, <1>8
        DEF BriefInv, BeforeHeaders, BeforeShares, BeforeHygiene, BeforeDashboard

(* the dashboard,                                                          *)
LEMMA DashboardStep == ASSUME BriefInv, Dashboard PROVE BriefInv'
<1>1. step = "dashboard" /\ step' = "hygiene" /\ slips' = slips
  BY DEF Dashboard, Goes
<1>2. PICK bands :
        /\ brief' = NoteLiquidation(NormalizeCites(SyncRsi([brief EXCEPT !.of.crypto_rows = WithBands(@, bands)])))
        /\ answered' = answered \cup {<<"band", n>> : n \in bands}
  BY DEF Dashboard
<1>3. /\ Taken /\ Keeps(Wrote, brief) /\ AnswersUsed(brief) /\ Answer(Wrote) /\ Shape(brief)
      /\ brief.of.rows \subseteq Assets /\ brief.of.regime \in Regimes /\ RegimeAgrees(brief)
  BY <1>1, Now DEF Repairs
<1>4. /\ \A m \in Desks : {<<"again", m>>, <<"header", m>>} \cap answered = {}
      /\ brief.of.crypto_rows = Wrote.of.crypto_rows /\ brief.of.calendar = Wrote.of.calendar
      /\ brief.of.chances = Wrote.of.chances /\ \A a \in Assets : brief.leg[a].share = Wrote.leg[a].share
  BY <1>1 DEF BriefInv, BeforeHeaders, BeforeShares, BeforeHygiene, BeforeDashboard
<1>5. /\ Keeps(brief, brief') /\ But(brief, brief', {"crypto_rows", "rsi_row"}, CitingTexts)
      /\ \A f \in Texts : brief'.text[f] \cap RegimeWords = brief.text[f] \cap RegimeWords
      /\ "ma20" \in bands => \A f \in CitingTexts : {"ma20_near", "ma20_digits"} \cap brief'.text[f] = {}
  <2>1. brief.of.crypto_rows \in Seq(Kinds) /\ {"ma20", "ma50"} \subseteq Kinds
    BY <1>3, <1>4 DEF Answer, Kinds
  <2> DEFINE e == NoteLiquidation(NormalizeCites(SyncRsi([brief EXCEPT !.of.crypto_rows = WithBands(@, bands)])))
  <2>3. brief' = e
    BY <1>2
  <2>4. Shape(brief)
    BY <1>3
  <2>2. /\ Keeps(brief, e) /\ But(brief, e, {"crypto_rows", "rsi_row"}, CitingTexts)
        /\ \A f \in Texts : e.text[f] \cap RegimeWords = brief.text[f] \cap RegimeWords
        /\ "ma20" \in bands => \A f \in CitingTexts : SumsAreOwn(e.text[f])
    BY <2>1, <2>4, DashboardKeeps
  <2> QED BY <2>2, <2>3 DEF SumsAreOwn
<1>6. /\ brief'.leg = brief.leg /\ brief'.row = brief.row
      /\ \A f \in BriefFields \ {"crypto_rows", "rsi_row"} : brief'.of[f] = brief.of[f]
  BY <1>5 DEF But
<1>7. /\ brief'.of.regime = brief.of.regime /\ brief'.of.rows = brief.of.rows
      /\ brief'.of.calendar = brief.of.calendar /\ brief'.of.chances = brief.of.chances
  BY <1>6 DEF BriefFields
<1>8. Wrote' = Wrote /\ Taken'
  BY <1>1, <1>3, SettingsStay
<1>9. RegimeAgrees(brief)'
  <2>1. \A f \in NormalizedTexts : f \in Texts
    BY DEF NormalizedTexts, Texts
  <2>2. RegimeAgrees(brief')
    BY <1>3, <1>5, <1>6, <1>7, <2>1, RegimeStays
  <2> QED BY <1>1, <2>2, AgreesNow
<1>10. Keeps(Wrote', brief')
  BY <1>3, <1>5, <1>8, KeepsOn
<1>11. \A m \in Desks : {<<"again", m>>, <<"header", m>>} \cap answered' = {}
  BY <1>2, <1>4
<1>12. AnswersUsed(brief)'
  <2> DEFINE X == {<<"band", n>> : n \in bands}
  <2>1. answered' = answered \cup X
    BY <1>2
  <2>2. /\ \A a : <<"quote", a>> \notin X
        /\ <<"index", "SPX">> \notin X
        /\ <<"band", "ma20">> \in X => "ma20" \in bands
    OBVIOUS
  <2> HIDE DEF X
  <2>3. \A a \in US : Used(brief.leg[a]) \/ <<"quote", a>> \in X => Used(brief'.leg[a])
    BY <1>6, <2>2
  <2>4. \A m \in Desks : {<<"again", m>>, <<"header", m>>} \cap (answered \cup X) = {}
    BY <1>11, <2>1
  <2> QED BY <1>1, <1>3, <1>5, <2>1, <2>2, <2>3, <2>4, UsedStays
<1> QED BY <1>1, <1>3, <1>4, <1>6, <1>7, <1>8, <1>9, <1>10, <1>11, <1>12
        DEF BriefInv, BeforeHeaders, BeforeShares, BeforeHygiene, BeforeDashboard

(* hygiene,                                                                *)
LEMMA CleanStep == ASSUME BriefInv, Clean PROVE BriefInv'
<1>1. step = "hygiene" /\ step' = "anchor" /\ slips' = slips /\ answered' = answered /\ brief' = Hygiene(brief)
  BY DEF Clean, Goes, Quietly
<1>2. /\ Taken /\ Keeps(Wrote, brief) /\ AnswersUsed(brief) /\ Answer(Wrote) /\ Shape(brief)
      /\ brief.of.rows \subseteq Assets /\ brief.of.regime \in Regimes /\ RegimeAgrees(brief)
  BY <1>1, Now DEF Repairs
<1>3. /\ \A m \in Desks : {<<"again", m>>, <<"header", m>>} \cap answered = {}
      /\ brief.of.calendar = Wrote.of.calendar /\ brief.of.chances = Wrote.of.chances
      /\ \A a \in Assets : brief.leg[a].share = Wrote.leg[a].share
  BY <1>1 DEF BriefInv, BeforeHeaders, BeforeShares, BeforeHygiene
<1>4. /\ Keeps(brief, brief') /\ NoBleed(brief') /\ brief'.row = brief.row
      /\ brief'.of.regime = brief.of.regime
      /\ \A a \in Assets : \A f \in LegFields \ {"trigger"} : brief'.leg[a][f] = brief.leg[a][f]
      /\ \A f \in NormalizedTexts : brief'.text[f] = brief.text[f]
  <2>1. brief.of.calendar \in Seq(Events) /\ "dated" \in Events /\ brief.of.chances \in Seq(Int)
    BY <1>2, <1>3 DEF Answer, Events
  <2> DEFINE e == Hygiene(brief)
  <2>2. /\ Keeps(brief, e) /\ NoBleed(e) /\ e.row = brief.row
        /\ e.of.regime = brief.of.regime
        /\ \A a \in Assets : \A f \in LegFields \ {"trigger"} : e.leg[a][f] = brief.leg[a][f]
        /\ \A f \in NormalizedTexts : e.text[f] = brief.text[f]
    BY <1>2, <2>1, HygieneKeeps
  <2>3. brief' = e
    BY <1>1
  <2> QED BY <2>2, <2>3
<1>5. Wrote' = Wrote /\ Taken'
  BY <1>1, <1>2, SettingsStay
<1>6. RegimeAgrees(brief)'
  <2>1. brief'.of.rows = brief.of.rows
    BY <1>4 DEF Keeps, Kept
  <2>2. RegimeAgrees(brief')
    BY <1>2, <1>4, <2>1, RegimeStays
  <2> QED BY <1>1, <2>2, AgreesNow
<1>7. Keeps(Wrote', brief')
  BY <1>2, <1>4, <1>5, KeepsOn
<1>8. \A a \in Assets : brief'.leg[a].share = brief.leg[a].share
  BY <1>4 DEF LegFields
<1>9. AnswersUsed(brief)'
  <2>1. answered' = answered \cup {}
    BY <1>1
  <2>2. \A a \in US : brief'.leg[a].usable = brief.leg[a].usable /\ brief'.leg[a].ratios = brief.leg[a].ratios
    BY <1>4 DEF LegFields, US, Of
  <2>3. \A a \in US : Used(brief.leg[a]) => Used(brief'.leg[a])
    BY <2>2 DEF Used, Unpriced
  <2> QED BY <1>1, <1>2, <1>3, <1>4, <2>1, <2>3, UsedStays
<1> QED BY <1>1, <1>2, <1>3, <1>4, <1>5, <1>6, <1>7, <1>8, <1>9
        DEF BriefInv, BeforeHeaders, BeforeShares, BeforeHygiene, BeforeDashboard

(* A step that leaves the legs alone and the texts but for these words.    *)
LEMMA LegsStay ==
    ASSUME NEW b, NEW c, CapsKept(b), c.of.regime = b.of.regime, c.of.legs = b.of.legs,
           \A a \in Assets : c.leg[a].share = b.leg[a].share
    PROVE  CapsKept(c)
<1>1. {"NVDA", "MSFT"} \subseteq Assets /\ US \subseteq Assets
  BY DEF Assets, US, Of
<1>2. \A a \in US : c.leg[a].share = b.leg[a].share
  BY <1>1
<1>3. c.leg["NVDA"].share = b.leg["NVDA"].share /\ c.leg["MSFT"].share = b.leg["MSFT"].share
  BY <1>1
<1> QED BY <1>2, <1>3 DEF CapsKept

(* the level of the index,                                                 *)
LEMMA AnchorStep == ASSUME BriefInv, AnchorIndex PROVE BriefInv'
<1>1. step = "anchor" /\ step' = "shares" /\ slips' = slips
  BY DEF AnchorIndex, Goes, Quietly
<1>2. /\ Taken /\ Keeps(Wrote, brief) /\ AnswersUsed(brief) /\ Answer(Wrote) /\ Shape(brief)
      /\ brief.of.rows \subseteq Assets /\ brief.of.regime \in Regimes /\ RegimeAgrees(brief)
  BY <1>1, Now DEF Repairs
<1>3. /\ \A m \in Desks : {<<"again", m>>, <<"header", m>>} \cap answered = {}
      /\ \A a \in Assets : brief.leg[a].share = Wrote.leg[a].share
      /\ NoBleed(brief)
  BY <1>1 DEF BriefInv, BeforeHeaders, BeforeShares, BeforeHygiene, BeforeDashboard
<1>4. PICK X :
        /\ answered' = answered \cup X /\ X \subseteq {<<"index", "SPX">>}
        /\ Keeps(brief, brief') /\ But(brief, brief', {}, {"valuation"})
        /\ SameWords(brief, brief', {"index_low", "index_close"})
        /\ X # {} => "index_low" \notin brief'.text["valuation"]
  <2>1. CASE brief' = brief /\ answered' = answered
    <3>1. answered' = answered \cup {} /\ {} \subseteq {<<"index", "SPX">>}
      BY <2>1
    <3>2. Keeps(brief, brief') /\ But(brief, brief', {}, {"valuation"})
          /\ SameWords(brief, brief', {"index_low", "index_close"})
      BY <1>2, <2>1, KeepsItself DEF But, SameWords
    <3> QED BY <3>1, <3>2
  <2>2. CASE /\ brief' = [brief EXCEPT !.text["valuation"] = Mark(@, "index_low", "index_close")]
             /\ answered' = answered \cup {<<"index", "SPX">>}
    <3> DEFINE c == [brief EXCEPT !.text["valuation"] = Mark(@, "index_low", "index_close")]
    <3>1. /\ Keeps(brief, c) /\ But(brief, c, {}, {"valuation"}) /\ SameWords(brief, c, {"index_low", "index_close"})
          /\ "index_low" \notin c.text["valuation"]
      BY <1>2, AnchorTells
    <3>2. brief' = c
      BY <2>2
    <3> QED BY <2>2, <3>1, <3>2
  <2> QED BY <2>1, <2>2 DEF AnchorIndex, Quietly
<1>5. /\ brief'.leg = brief.leg /\ brief'.row = brief.row
      /\ brief'.of.regime = brief.of.regime /\ brief'.of.rows = brief.of.rows
      /\ brief'.of.calendar = brief.of.calendar
  BY <1>4 DEF But, BriefFields
<1>6. Wrote' = Wrote /\ Taken'
  BY <1>1, <1>2, SettingsStay
<1>7. RegimeAgrees(brief)'
  <2>1. {"index_low", "index_close"} \cap RegimeWords = {}
    BY DEF RegimeWords, Regimes, LooseOff
  <2>2. RegimeAgrees(brief')
    BY <1>2, <1>4, <1>5, <2>1, RegimeWordsStay
  <2> QED BY <1>1, <2>2, AgreesNow
<1>8. NoBleed(brief')
  <2>1. {"index_low", "index_close"} \cap {"rest", "bleed"} = {}
    OBVIOUS
  <2> QED BY <1>3, <1>4, <1>5, <2>1, NoBleedStays
<1>9. Keeps(Wrote', brief')
  BY <1>2, <1>4, <1>6, KeepsOn
<1>10. \A m \in Desks : {<<"again", m>>, <<"header", m>>} \cap (answered \cup X) = {}
  BY <1>3, <1>4
<1>11. AnswersUsed(brief)'
  <2>1. \A a : <<"quote", a>> \notin X
    BY <1>4
  <2>2. <<"band", "ma20">> \notin X
    BY <1>4
  <2>3. \A a \in US : Used(brief.leg[a]) \/ <<"quote", a>> \in X => Used(brief'.leg[a])
    BY <1>5, <2>1
  <2> QED BY <1>1, <1>2, <1>4, <1>10, <2>2, <2>3, UsedStays
<1> QED BY <1>1, <1>2, <1>3, <1>4, <1>5, <1>6, <1>7, <1>8, <1>9, <1>10, <1>11
        DEF BriefInv, BeforeHeaders, BeforeShares, BeforeHygiene, BeforeDashboard

(* the positions, cut once and for all,                                    *)
LEMMA SizeStep == ASSUME BriefInv, SizePositions PROVE BriefInv'
<1>1. step = "shares" /\ step' = "quotes" /\ slips' = slips /\ answered' = answered /\ brief' = PositionShares(brief)
  BY DEF SizePositions, Goes, Quietly
<1>2. /\ Taken /\ Keeps(Wrote, brief) /\ AnswersUsed(brief) /\ Answer(Wrote) /\ Shape(brief)
      /\ brief.of.rows \subseteq Assets /\ brief.of.regime \in Regimes /\ RegimeAgrees(brief)
      /\ brief.of.legs = Wrote.of.legs
  BY <1>1, Now DEF Repairs
<1>3. /\ \A m \in Desks : {<<"again", m>>, <<"header", m>>} \cap answered = {}
      /\ \A a \in Assets : brief.leg[a].share = Wrote.leg[a].share
      /\ NoBleed(brief)
  BY <1>1 DEF BriefInv, BeforeHeaders, BeforeShares, BeforeHygiene, BeforeDashboard
<1>4. /\ Shape(brief') /\ brief'.of = brief.of /\ brief'.text = brief.text /\ brief'.row = brief.row
      /\ CapsKept(brief')
      /\ \A a \in Assets : \A f \in LegFields \ {"share"} : brief'.leg[a][f] = brief.leg[a][f]
  <2>1. US \subseteq Assets
    BY DEF US, Of
  <2>2. \A a \in Assets : brief.leg[a].stars = Wrote.leg[a].stars
    BY <1>2 DEF Keeps
  <2>3. \A a \in Wrote.of.legs : Wrote.leg[a].stars \in 1..4
    BY <1>2, WroteIs
  <2>4. \A a \in US \cap brief.of.legs : brief.leg[a].stars \in 1..4 /\ brief.leg[a].share \in Int /\ brief.leg[a].share >= Blank
    BY <1>2, <1>3, <2>1, <2>2, <2>3 DEF Answer
  <2> DEFINE c == PositionShares(brief)
  <2>5. /\ Shape(c) /\ c.of = brief.of /\ c.text = brief.text /\ c.row = brief.row /\ CapsKept(c)
        /\ \A a \in Assets : \A f \in LegFields \ {"share"} : c.leg[a][f] = brief.leg[a][f]
    BY <1>2, <2>4, CapsAreKept
  <2> QED BY <1>1, <2>5
<1>5. Keeps(brief, brief')
  BY <1>4, LegsKeep
<1>6. Wrote' = Wrote /\ Taken'
  BY <1>1, <1>2, SettingsStay
<1>7. RegimeAgrees(brief)'
  <2>1. RegimeAgrees(brief')
    BY <1>2, <1>4 DEF RegimeAgrees
  <2> QED BY <1>1, <2>1, AgreesNow
<1>8. NoBleed(brief')
  BY <1>3, <1>4 DEF NoBleed
<1>9. Keeps(Wrote', brief')
  BY <1>2, <1>5, <1>6, KeepsOn
<1>10. AnswersUsed(brief)'
  <2>1. answered' = answered \cup {}
    BY <1>1
  <2>2. \A a \in US : brief'.leg[a].usable = brief.leg[a].usable /\ brief'.leg[a].ratios = brief.leg[a].ratios
    BY <1>4 DEF LegFields, US, Of
  <2>3. \A a \in US : Used(brief.leg[a]) => Used(brief'.leg[a])
    BY <2>2 DEF Used, Unpriced
  <2> QED BY <1>1, <1>2, <1>3, <1>5, <2>1, <2>3, UsedStays
<1> QED BY <1>1, <1>2, <1>3, <1>4, <1>6, <1>7, <1>8, <1>9, <1>10
        DEF BriefInv, BeforeHeaders, BeforeShares, BeforeHygiene, BeforeDashboard

(* the quotes that answered,                                               *)
LEMMA QuotesStep == ASSUME BriefInv, BackfillPrices PROVE BriefInv'
<1>1. step = "quotes" /\ step' = "headers" /\ slips' = slips
  BY DEF BackfillPrices, Goes, Quietly
<1>2. /\ Taken /\ Keeps(Wrote, brief) /\ AnswersUsed(brief) /\ Answer(Wrote) /\ Shape(brief)
      /\ brief.of.rows \subseteq Assets /\ brief.of.regime \in Regimes /\ RegimeAgrees(brief)
  BY <1>1, Now DEF Repairs
<1>3. /\ \A m \in Desks : {<<"again", m>>, <<"header", m>>} \cap answered = {}
      /\ NoBleed(brief) /\ CapsKept(brief)
  BY <1>1 DEF BriefInv, BeforeHeaders, BeforeShares, BeforeHygiene, BeforeDashboard
<1> DEFINE Filled(X) ==
             /\ answered' = answered \cup X /\ X \subseteq {<<"quote", a>> : a \in US}
             /\ Shape(brief') /\ brief'.of = brief.of /\ brief'.text = brief.text /\ brief'.row = brief.row
             /\ \A a \in Assets : \A f \in LegFields \ {"usable"} : brief'.leg[a][f] = brief.leg[a][f]
             /\ \A a \in US : Used(brief.leg[a]) \/ <<"quote", a>> \in X => Used(brief'.leg[a])
<1>4. \E X : Filled(X)
  <2>1. CASE brief' = brief /\ answered' = answered
    <3>1. answered' = answered \cup {} /\ {} \subseteq {<<"quote", a>> : a \in US}
      BY <2>1
    <3>2. \A a \in US : Used(brief.leg[a]) \/ <<"quote", a>> \in {} => Used(brief'.leg[a])
      BY <2>1
    <3>3. Filled({})
      BY <1>2, <2>1, <3>1, <3>2
    <3> HIDE DEF Filled
    <3> QED BY <3>3
  <2>2. ASSUME NEW got \in SUBSET (US \cap brief.of.legs),
               brief' = [brief EXCEPT !.leg = [a \in Assets |-> IF a \in US \cap brief.of.legs
                                                                THEN Backfilled(brief.leg[a], Quoted(got, a)) ELSE brief.leg[a]]],
               answered' = answered \cup {<<"quote", a>> : a \in got}
        PROVE  \E X : Filled(X)
    <3> DEFINE legs == US \cap brief.of.legs
               leg == [a \in Assets |-> IF a \in legs THEN Backfilled(brief.leg[a], Quoted(got, a)) ELSE brief.leg[a]]
               X == {<<"quote", a>> : a \in got}
    <3>1. brief' = [brief EXCEPT !.leg = leg]
      BY <2>2, Zenon
    <3>2. /\ Shape(brief') /\ brief'.of = brief.of /\ brief'.text = brief.text /\ brief'.row = brief.row
          /\ \A a \in Assets : \A f \in LegFields \ {"usable"} : brief'.leg[a][f] = brief.leg[a][f]
          /\ \A a \in Assets : ~ (Unpriced(brief.leg[a]) /\ brief.leg[a].ratios) => ~ (Unpriced(brief'.leg[a]) /\ brief'.leg[a].ratios)
          /\ \A a \in Assets : a \in legs \cap got => ~ (Unpriced(brief'.leg[a]) /\ brief'.leg[a].ratios)
      <4>1. Shape(brief)
        BY <1>2
      <4>2. DOMAIN leg = Assets
        OBVIOUS
      <4>3. \A a \in Assets : leg[a] = IF a \in legs THEN Backfilled(brief.leg[a], Quoted(got, a)) ELSE brief.leg[a]
        OBVIOUS
      <4> HIDE DEF leg, legs
      <4>4. /\ \A a \in Assets : DOMAIN leg[a] = LegFields
            /\ \A a \in Assets : \A f \in LegFields \ {"usable"} : leg[a][f] = brief.leg[a][f]
            /\ \A a \in Assets : ~ (Unpriced(brief.leg[a]) /\ brief.leg[a].ratios) => ~ (Unpriced(leg[a]) /\ leg[a].ratios)
            /\ \A a \in Assets : a \in legs \cap got => ~ (Unpriced(leg[a]) /\ leg[a].ratios)
        <5> SUFFICES ASSUME NEW a \in Assets
                     PROVE  /\ DOMAIN leg[a] = LegFields
                            /\ \A f \in LegFields \ {"usable"} : leg[a][f] = brief.leg[a][f]
                            /\ ~ (Unpriced(brief.leg[a]) /\ brief.leg[a].ratios) => ~ (Unpriced(leg[a]) /\ leg[a].ratios)
                            /\ a \in legs \cap got => ~ (Unpriced(leg[a]) /\ leg[a].ratios)
          BY Zenon
        <5>1. DOMAIN brief.leg[a] = LegFields
          BY <4>1 DEF Shape
        <5>2. CASE a \notin legs
          BY <4>3, <5>1, <5>2
        <5>3. CASE a \in legs
          <6>1. leg[a] = Backfilled(brief.leg[a], Quoted(got, a))
            BY <4>3, <5>3
          <6>2. a \in got => {"current", "entry"} \subseteq Quoted(got, a)
            BY DEF Quoted
          <6> QED BY <5>1, <6>1, <6>2, BackfillTells
        <5> QED BY <5>2, <5>3
      <4>5. Shape(brief') /\ brief'.of = brief.of /\ brief'.text = brief.text /\ brief'.row = brief.row /\ brief'.leg = leg
        BY <3>1, <4>1, <4>2, <4>4, SharesTell
      <4> QED BY <4>4, <4>5
    <3>3. got \subseteq legs /\ US \subseteq Assets
      BY DEF US, Of
    <3>4. answered' = answered \cup X /\ X \subseteq {<<"quote", a>> : a \in US}
      BY <2>2
    <3>5. \A a : <<"quote", a>> \in X => a \in got
      OBVIOUS
    <3> HIDE DEF leg, X, legs
    <3>6. \A a \in US : Used(brief.leg[a]) \/ <<"quote", a>> \in X => Used(brief'.leg[a])
      BY <3>1, <3>2, <3>3, <3>5 DEF Used
    <3>7. Filled(X)
      BY <3>1, <3>2, <3>4, <3>6
    <3> HIDE DEF Filled
    <3> QED BY <3>7
  <2> HIDE DEF Filled
  <2> QED BY <2>1, <2>2, Zenon DEF BackfillPrices, Quietly
<1>0. PICK X : Filled(X)
  BY <1>4, Zenon
<1>5. Keeps(brief, brief')
  BY <1>0, LegsKeep
<1>6. Wrote' = Wrote /\ Taken'
  BY <1>1, <1>2, SettingsStay
<1>7. RegimeAgrees(brief)'
  <2>1. RegimeAgrees(brief')
    BY <1>2, <1>0 DEF RegimeAgrees
  <2> QED BY <1>1, <2>1, AgreesNow
<1>8. NoBleed(brief') /\ CapsKept(brief')
  <2>1. \A a \in Assets : brief'.leg[a].share = brief.leg[a].share
    BY <1>0 DEF LegFields
  <2>2. NoBleed(brief')
    BY <1>3, <1>0 DEF NoBleed
  <2> QED BY <1>3, <1>0, <2>1, <2>2, LegsStay
<1>9. Keeps(Wrote', brief')
  BY <1>2, <1>5, <1>6, KeepsOn
<1>10. \A m \in Desks : {<<"again", m>>, <<"header", m>>} \cap (answered \cup X) = {}
  BY <1>3, <1>0
<1>11. AnswersUsed(brief)'
  <2>1. <<"index", "SPX">> \notin X /\ <<"band", "ma20">> \notin X
    BY <1>0
  <2> QED BY <1>1, <1>2, <1>0, <1>5, <1>10, <2>1, UsedStays
<1> QED BY <1>1, <1>2, <1>0, <1>6, <1>7, <1>8, <1>9, <1>10, <1>11
        DEF BriefInv, BeforeHeaders, BeforeShares, BeforeHygiene, BeforeDashboard

(* Only a reason's mark, and the labels that are taken off, move.          *)
LEMMA PrefixStays ==
    ASSUME NEW b, NEW c, SameWords(b, c, {"prefix"}), c.leg = b.leg, c.row = b.row,
           \A f \in BriefFields \ {"labelled"} : c.of[f] = b.of[f],
           b.of.regime \in Regimes, b.of.rows \subseteq Assets, RegimeAgrees(b), NoBleed(b), CapsKept(b)
    PROVE  RegimeAgrees(c) /\ NoBleed(c) /\ CapsKept(c) /\ c.of.regime \in Regimes
<1>1. c.of.regime = b.of.regime /\ c.of.rows = b.of.rows /\ c.of.legs = b.of.legs /\ c.of.calendar = b.of.calendar
  BY DEF BriefFields
<1>2. {"prefix"} \cap RegimeWords = {} /\ {"prefix"} \cap {"rest", "bleed"} = {}
  BY DEF RegimeWords, Regimes, LooseOff
<1>3. RegimeAgrees(c)
  BY <1>1, <1>2, RegimeWordsStay
<1>4. NoBleed(c)
  BY <1>1, <1>2, NoBleedStays
<1> QED BY <1>1, <1>3, <1>4, LegsStay

(* the labels, which only go where they are declared or yesterday's picks  *)
(* are not known,                                                          *)
LEMMA HeadersStep == ASSUME BriefInv, RepeatHeaders PROVE BriefInv'
<1>1. step = "headers" /\ step' = "declare" /\ slips' = slips
  BY DEF RepeatHeaders, Goes
<1>2. PICK got \in SUBSET (brief.of.labelled \cap Yesterday) :
        /\ brief' = NormalizeHeaders(brief, {m \in got : Again(m)})
        /\ answered' = answered \cup {<<"header", m>> : m \in got}
  BY DEF RepeatHeaders
<1>3. /\ Taken /\ Keeps(Wrote, brief) /\ AnswersUsed(brief) /\ Answer(Wrote) /\ Shape(brief)
      /\ brief.of.rows \subseteq Assets /\ brief.of.regime \in Regimes /\ RegimeAgrees(brief)
  BY <1>1, Now DEF Repairs
<1>4. /\ \A m \in Desks : {<<"again", m>>, <<"header", m>>} \cap answered = {}
      /\ NoBleed(brief) /\ CapsKept(brief)
  BY <1>1 DEF BriefInv, BeforeHeaders, BeforeShares, BeforeHygiene, BeforeDashboard
<1> DEFINE same == {m \in got : Again(m)}
           c    == NormalizeHeaders(brief, same)
           X    == {<<"header", m>> : m \in got}
<1>5. brief' = c /\ answered' = answered \cup X
  BY <1>2
<1>6. /\ Shape(c) /\ c.leg = brief.leg /\ c.row = brief.row /\ c.of.labelled = {}
      /\ \A f \in BriefFields \ {"labelled"} : c.of[f] = brief.of[f]
      /\ \A f \in Texts : c.text[f] = IF f \in brief.of.labelled \cap same THEN brief.text[f] \cup {"prefix"} ELSE brief.text[f]
  <2> HIDE DEF same
  <2>1. Shape(brief)
    BY <1>3
  <2>2. c = NormalizeHeaders(brief, same)
    OBVIOUS
  <2> HIDE DEF c
  <2>3. Shape(c) /\ c.leg = brief.leg /\ c.row = brief.row /\ c.of.labelled = {}
    BY <2>1, <2>2, HeadersTell
  <2>4. \A f \in BriefFields \ {"labelled"} : c.of[f] = brief.of[f]
    BY <2>1, <2>2, HeadersTell
  <2>5. \A f \in Texts : c.text[f] = IF f \in brief.of.labelled \cap same THEN brief.text[f] \cup {"prefix"} ELSE brief.text[f]
    BY <2>1, <2>2, HeadersTell
  <2> QED BY <2>3, <2>4, <2>5
<1>7. /\ \A m : <<"header", m>> \in X => m \in got
      /\ \A m : <<"again", m>> \notin X /\ <<"quote", m>> \notin X /\ <<"index", m>> \notin X /\ <<"band", m>> \notin X
  OBVIOUS
<1>8. \A m : m \in same <=> m \in got /\ Again(m)
  OBVIOUS
<1> HIDE DEF c, X, same
<1>9. Keeps(brief, c) /\ SameWords(brief, c, {"prefix"})
  BY <1>3, <1>6, PrefixKeeps
<1>10. Wrote' = Wrote /\ Taken'
  BY <1>1, <1>3, SettingsStay
<1>11. RegimeAgrees(c) /\ NoBleed(c) /\ CapsKept(c) /\ c.of.regime \in Regimes
  BY <1>3, <1>4, <1>6, <1>9, PrefixStays
<1>12. RegimeAgrees(brief)'
  BY <1>1, <1>5, <1>11, AgreesNow
<1>13. Keeps(Wrote', brief')
  BY <1>3, <1>5, <1>9, <1>10, KeepsOn
<1>14. AnswersUsed(brief)'
  <2>1. \A a \in US : Used(brief.leg[a]) \/ <<"quote", a>> \in X => Used(brief'.leg[a])
    BY <1>5, <1>6, <1>7
  <2>2. ASSUME NEW m \in Desks
        PROVE  /\ m \in Written(slips').of.labelled /\ ~ Declared(brief', m) /\ Again(m)' => <<"header", m>> \notin answered'
               /\ <<"again", m>> \notin answered'
    <3>1. Again(m)' <=> Again(m)
      BY <1>1, <1>5, <1>6 DEF Again, Yesterday, Setting, BriefFields
    <3>2. m \in got /\ Again(m) => Declared(brief', m)
      <4>1. m \in Texts
        BY DEF Desks, Texts
      <4>2. m \in got => m \in brief.of.labelled
        BY <1>2
      <4> QED BY <1>5, <1>6, <1>8, <4>1, <4>2 DEF Declared
    <3>3. <<"header", m>> \notin answered /\ <<"again", m>> \notin answered
      BY <1>4
    <3> QED BY <1>5, <1>7, <3>1, <3>2, <3>3
  <2>3. \A a \in US : <<"quote", a>> \in answered' => Used(brief'.leg[a])
    BY <1>3, <1>5, <1>7, <2>1 DEF AnswersUsed, Used
  <2>4. <<"index", "SPX">> \in answered' => "index_low" \notin brief'.text["valuation"]
    <3>1. "valuation" \in Texts /\ <<"index", "SPX">> \notin X
      BY <1>7 DEF Texts
    <3> QED BY <1>3, <1>5, <1>9, <3>1 DEF AnswersUsed, Keeps, TextKept
  <2>5. <<"band", "ma20">> \in answered' => \A f \in CitingTexts : {"ma20_near", "ma20_digits"} \cap brief'.text[f] = {}
    <3>1. CitingTexts \subseteq Texts /\ <<"band", "ma20">> \notin X
      BY <1>7 DEF CitingTexts
    <3> QED BY <1>3, <1>5, <1>9, <3>1 DEF AnswersUsed, Keeps, TextKept
  <2> QED BY <2>2, <2>3, <2>4, <2>5, Zenon DEF AnswersUsed, Used
<1> QED BY <1>1, <1>5, <1>10, <1>11, <1>12, <1>13, <1>14
        DEF BriefInv, BeforeHeaders, BeforeShares, BeforeHygiene, BeforeDashboard

(* the declarations,                                                       *)
LEMMA DeclareStep == ASSUME BriefInv, RepeatDisclaimer PROVE BriefInv'
<1>1. step = "declare" /\ step' = "layout" /\ slips' = slips
  BY DEF RepeatDisclaimer, Goes
<1>2. PICK got :
        /\ brief' = DeclareRepeats(brief, {m \in got : Again(m)})
        /\ answered' = answered \cup {<<"again", m>> : m \in got}
  BY DEF RepeatDisclaimer
<1>3. /\ Taken /\ Keeps(Wrote, brief) /\ AnswersUsed(brief) /\ Answer(Wrote) /\ Shape(brief)
      /\ brief.of.rows \subseteq Assets /\ brief.of.regime \in Regimes /\ RegimeAgrees(brief)
  BY <1>1, Now DEF Repairs
<1>4. NoBleed(brief) /\ CapsKept(brief)
  BY <1>1 DEF BriefInv, BeforeShares, BeforeHygiene, BeforeDashboard
<1> DEFINE same == {m \in got : Again(m)}
           c    == DeclareRepeats(brief, same)
           X    == {<<"again", m>> : m \in got}
<1>5. brief' = c /\ answered' = answered \cup X
  BY <1>2
<1>6. /\ Shape(c) /\ c.leg = brief.leg /\ c.row = brief.row /\ c.of = brief.of
      /\ \A f \in Texts : c.text[f] = IF f \in same /\ ~ Declared(brief, f) THEN brief.text[f] \cup {"prefix"} ELSE brief.text[f]
  <2> HIDE DEF same
  <2>1. Shape(brief)
    BY <1>3
  <2> QED BY <2>1, DeclareTells, Zenon
<1>7. /\ \A m : <<"again", m>> \in X => m \in got
      /\ \A m : <<"header", m>> \notin X /\ <<"quote", m>> \notin X /\ <<"index", m>> \notin X /\ <<"band", m>> \notin X
  OBVIOUS
<1>8. \A m : m \in same <=> m \in got /\ Again(m)
  OBVIOUS
<1> HIDE DEF c, X, same
<1>9. Keeps(brief, c) /\ SameWords(brief, c, {"prefix"})
  BY <1>3, <1>6, PrefixKeeps
<1>10. Wrote' = Wrote /\ Taken'
  BY <1>1, <1>3, SettingsStay
<1>11. RegimeAgrees(c) /\ NoBleed(c) /\ CapsKept(c) /\ c.of.regime \in Regimes
  BY <1>3, <1>4, <1>6, <1>9, PrefixStays
<1>12. RegimeAgrees(brief)'
  BY <1>1, <1>5, <1>11, AgreesNow
<1>13. Keeps(Wrote', brief')
  BY <1>3, <1>5, <1>9, <1>10, KeepsOn
<1>14. AnswersUsed(brief)'
  <2>1. \A a \in US : Used(brief.leg[a]) \/ <<"quote", a>> \in X => Used(brief'.leg[a])
    BY <1>5, <1>6, <1>7
  <2>2. ASSUME NEW m \in Desks
        PROVE  /\ Declared(brief, m) => Declared(brief', m)
               /\ Again(m) /\ {<<"again", m>>, <<"header", m>>} \cap X # {} => Declared(brief', m)
    <3>1. m \in Texts
      BY DEF Desks, Texts
    <3>2. Declared(brief, m) => Declared(c, m)
      BY <1>6, <3>1 DEF Declared
    <3>3. m \in got /\ Again(m) => Declared(c, m)
      <4>1. CASE Declared(brief, m)
        BY <3>2, <4>1
      <4>2. CASE ~ Declared(brief, m)
        BY <1>6, <1>8, <3>1, <4>2 DEF Declared
      <4> QED BY <4>1, <4>2
    <3> QED BY <1>5, <1>7, <3>2, <3>3
  <2>3. <<"index", "SPX">> \notin X /\ <<"band", "ma20">> \notin X
    BY <1>7
  <2>4. Keeps(brief, brief')
    BY <1>5, <1>9
  <2> QED BY <1>1, <1>3, <1>5, <2>1, <2>2, <2>3, <2>4, UsedStays
<1> QED BY <1>1, <1>5, <1>10, <1>11, <1>12, <1>13, <1>14
        DEF BriefInv, BeforeHeaders, BeforeShares, BeforeHygiene, BeforeDashboard

(* Once the repairs are done no text, leg or field they wrote is touched.  *)
LEMMA LaidOut ==
    ASSUME NEW b, NEW c, Shape(b), b.of.regime \in Regimes, b.of.rows \subseteq Assets,
           But(b, c, {"crypto_rows", "ai_rows", "summary", "predictions", "notice"}, {}),
           RegimeAgrees(b), NoBleed(b), CapsKept(b)
    PROVE  /\ Keeps(b, c) /\ RegimeAgrees(c) /\ NoBleed(c) /\ CapsKept(c) /\ c.of.regime = b.of.regime
           /\ c.leg = b.leg /\ \A m \in Desks : Declared(c, m) <=> Declared(b, m)
<1>1. /\ c.leg = b.leg /\ c.row = b.row /\ \A f \in Texts : c.text[f] = b.text[f]
      /\ c.of.regime = b.of.regime /\ c.of.rows = b.of.rows /\ c.of.legs = b.of.legs /\ c.of.calendar = b.of.calendar
      /\ c.of.labelled = b.of.labelled
  BY DEF But, BriefFields
<1>2. Keeps(b, c)
  BY ButKeeps DEF Kept
<1>3. SameWords(b, c, {})
  BY <1>1 DEF SameWords
<1>4. RegimeAgrees(c)
  BY <1>1, <1>3, RegimeWordsStay
<1>5. NoBleed(c)
  BY <1>1, <1>3, NoBleedStays
<1>6. CapsKept(c)
  BY <1>1, LegsStay
<1>7. \A m \in Desks : Declared(c, m) <=> Declared(b, m)
  BY <1>1 DEF Declared, Desks, Texts
<1> QED BY <1>1, <1>2, <1>4, <1>5, <1>6, <1>7

(* Nothing answered, no leg touched: what was used stays used.             *)
LEMMA UsedQuietly ==
    ASSUME AnswersUsed(brief), Keeps(brief, brief'), slips' = slips, answered' = answered, brief'.leg = brief.leg,
           \A m \in Desks : Declared(brief, m) => Declared(brief', m)
    PROVE  AnswersUsed(brief)'
<1> DEFINE X == {}
<1>1. answered' = answered \cup X
  OBVIOUS
<1>2. \A x : x \notin X
  OBVIOUS
<1> HIDE DEF X
<1>3. \A a \in US : Used(brief.leg[a]) \/ <<"quote", a>> \in X => Used(brief'.leg[a])
  BY <1>2
<1>4. \A m \in Desks : /\ Declared(brief, m) => Declared(brief', m)
                       /\ Again(m) /\ {<<"again", m>>, <<"header", m>>} \cap X # {} => Declared(brief', m)
  BY <1>2
<1>5. <<"index", "SPX">> \notin X /\ <<"band", "ma20">> \notin X
  BY <1>2
<1> QED BY <1>1, <1>3, <1>4, <1>5, UsedStays

(* the layout and the rules,                                               *)
LEMMA BuildStep == ASSUME BriefInv, Build PROVE BriefInv'
<1>1. step = "layout" /\ step' \in {"built", "refused"} /\ slips' = slips /\ answered' = answered
  BY DEF Build
<1>2. PICK lines :
        LET laid == [InstrumentSections(brief) EXCEPT !.of.predictions = lines]
            b == [laid EXCEPT !.of.notice = NeedsNotice(laid)]
        IN brief' = b /\ unmet' = RuleIssues(b, PartialTier(b), On)
  BY DEF Build
<1>3. /\ Taken /\ Keeps(Wrote, brief) /\ AnswersUsed(brief) /\ Answer(Wrote) /\ Shape(brief)
      /\ brief.of.rows \subseteq Assets /\ brief.of.regime \in Regimes /\ RegimeAgrees(brief)
  BY <1>1, Now DEF Repairs
<1>4. NoBleed(brief) /\ CapsKept(brief)
  BY <1>1 DEF BriefInv, BeforeShares, BeforeHygiene, BeforeDashboard
<1> DEFINE laid == [InstrumentSections(brief) EXCEPT !.of.predictions = lines]
           c == [laid EXCEPT !.of.notice = NeedsNotice(laid)]
<1>5. But(brief, c, {"crypto_rows", "ai_rows", "summary", "predictions", "notice"}, {}) /\ SummaryAgrees(c)
  BY <1>3, BuildTells
<1>6. brief' = c /\ unmet' = RuleIssues(c, PartialTier(c), On)
  BY <1>2
<1> HIDE DEF c, laid
<1>7. /\ Keeps(brief, c) /\ RegimeAgrees(c) /\ NoBleed(c) /\ CapsKept(c) /\ c.of.regime = brief.of.regime
      /\ c.leg = brief.leg /\ \A m \in Desks : Declared(c, m) <=> Declared(brief, m)
  BY <1>3, <1>4, <1>5, LaidOut
<1>8. Wrote' = Wrote /\ Taken'
  BY <1>1, <1>3, SettingsStay
<1>9. RegimeAgrees(brief)'
  BY <1>1, <1>6, <1>7, AgreesNow
<1>10. Keeps(Wrote', brief')
  BY <1>3, <1>6, <1>7, <1>8, KeepsOn
<1>11. AnswersUsed(brief)'
  BY <1>1, <1>3, <1>6, <1>7, UsedQuietly
<1>12. unmet' = RuleIssues(brief, PartialTier(brief), On)'
  BY <1>1, <1>6 DEF PartialTier, On, Setting
<1> QED BY <1>1, <1>3, <1>5, <1>6, <1>7, <1>8, <1>9, <1>10, <1>11, <1>12
        DEF BriefInv, BeforeHeaders, BeforeShares, BeforeHygiene, BeforeDashboard

(* and the last pass over the text.                                        *)
LEMMA RenderStep == ASSUME BriefInv, Render PROVE BriefInv'
<1>1. /\ step = "built" /\ step' = "rendered" /\ slips' = slips /\ answered' = answered
      /\ brief' = IF Agreed = "none" THEN brief
                  ELSE [brief EXCEPT !.text = [f \in Texts |-> Normalized(@[f], Agreed)]]
  BY DEF Render, Goes, Quietly
<1>2. /\ Taken /\ Keeps(Wrote, brief) /\ AnswersUsed(brief) /\ Answer(Wrote) /\ Shape(brief)
      /\ brief.of.rows \subseteq Assets /\ brief.of.regime \in Regimes /\ RegimeAgrees(brief)
  BY <1>1, Now
<1>3. NoBleed(brief) /\ CapsKept(brief) /\ SummaryAgrees(brief)
  BY <1>1 DEF BriefInv, BeforeShares, BeforeHygiene, BeforeDashboard
<1>4. /\ But(brief, brief', {}, Texts) /\ Keeps(brief, brief') /\ SameWords(brief, brief', Regimes)
      /\ RegimeAgrees(brief') /\ TextsAgree(brief')
  <2>1. CASE Agreed = "none"
    BY <1>1, <1>2, <2>1, KeepsItself DEF But, SameWords, TextsAgree
  <2>2. CASE Agreed # "none"
    <3>1. Agreed \in Regimes
      BY <1>2, <2>2, AgreedIs DEF Modes
    <3> DEFINE c == [brief EXCEPT !.text = [f \in Texts |-> Normalized(@[f], Agreed)]]
    <3>2. /\ But(brief, c, {}, Texts) /\ Keeps(brief, c) /\ SameWords(brief, c, Regimes)
          /\ RegimeAgrees(c) /\ TextsAgree(c)
      BY <1>2, <3>1, RenderTells
    <3>3. brief' = c
      BY <1>1, <2>2
    <3> QED BY <3>2, <3>3
  <2> QED BY <2>1, <2>2
<1>5. /\ brief'.leg = brief.leg /\ brief'.of.regime = brief.of.regime /\ brief'.of.legs = brief.of.legs
      /\ brief'.of.calendar = brief.of.calendar /\ brief'.of.summary = brief.of.summary
      /\ brief'.of.labelled = brief.of.labelled
  BY <1>4 DEF But, BriefFields
<1>6. NoBleed(brief')
  <2>1. Regimes \cap {"rest", "bleed"} = {}
    BY DEF Regimes
  <2> QED BY <1>3, <1>4, <1>5, <2>1, NoBleedStays
<1>7. CapsKept(brief')
  BY <1>3, <1>5, LegsStay
<1>8. SummaryAgrees(brief')
  BY <1>3, <1>5 DEF SummaryAgrees, SummaryOf
<1>9. Wrote' = Wrote /\ Taken'
  BY <1>1, <1>2, SettingsStay
<1>10. RegimeAgrees(brief)' /\ TextsAgree(brief)'
  BY <1>1, <1>4, AgreesNow
<1>11. Keeps(Wrote', brief')
  BY <1>2, <1>4, <1>9, KeepsOn
<1>12. AnswersUsed(brief)'
  <2>1. \A m \in Desks : Declared(brief, m) => Declared(brief', m)
    <3>1. \A m \in Desks : {"again", "prefix"} \cap brief.text[m] \subseteq brief'.text[m]
      <4>1. Desks \subseteq Texts
        BY DEF Desks, Texts
      <4> QED BY <1>4, <4>1 DEF Keeps, TextKept
    <3> QED BY <1>5, <3>1 DEF Declared
  <2> QED BY <1>1, <1>2, <1>4, <1>5, <2>1, UsedQuietly
<1> QED BY <1>1, <1>2, <1>4, <1>5, <1>6, <1>7, <1>8, <1>9, <1>10, <1>11, <1>12
        DEF BriefInv, BeforeHeaders, BeforeShares, BeforeHygiene, BeforeDashboard

(* So it holds.                                                            *)
LEMMA BriefInvHolds == BriefSpec => []BriefInv
<1>1. BriefInit => BriefInv
  BY DEF BriefInit, BriefInv
<1>2. BriefInv /\ [BriefNext]_briefVars => BriefInv'
  <2> SUFFICES ASSUME BriefInv, [BriefNext]_briefVars PROVE BriefInv'
    OBVIOUS
  <2>1. CASE UNCHANGED briefVars
    <3>1. slips' = slips /\ brief' = brief /\ step' = step /\ answered' = answered /\ unmet' = unmet
      BY <2>1 DEF briefVars
    <3>2. Wrote' = Wrote /\ (Taken' <=> Taken) /\ On' = On
      BY <3>1, SettingsStay
    <3>3. /\ AnswersUsed(brief)' <=> AnswersUsed(brief)
          /\ RegimeAgrees(brief)' <=> RegimeAgrees(brief)
          /\ TextsAgree(brief)' <=> TextsAgree(brief)
          /\ PartialTier(brief)' <=> PartialTier(brief)
      BY <3>1 DEF AnswersUsed, RegimeAgrees, TextsAgree, PartialTier, Agreed, Again, Yesterday, On, Setting
    <3>4. RuleIssues(brief, PartialTier(brief), On)' = RuleIssues(brief, PartialTier(brief), On)
      BY <3>1 DEF PartialTier, On, Setting
    <3> QED BY <3>1, <3>2, <3>3, <3>4 DEF BriefInv
  <2> QED BY <2>1, WriteStep, AlignStep, DashboardStep, CleanStep, AnchorStep, SizeStep, QuotesStep, HeadersStep,
             DeclareStep, BuildStep, RenderStep DEF BriefNext
<1> QED BY <1>1, <1>2, PTL DEF BriefSpec

(* The repairs hold in every brief that is built or rendered, in whatever  *)
(* order services failed or answered: its regime is the scorecard's, in    *)
(* the eight texts aligned first and once rendered in all of them, the     *)
(* caps hold, the summary agrees with the cards, every answer was used and *)
(* no sum of the calendar bleeds into the news                             *)
(* (assemble_daily_brief_report, post_process_html_for_gate).              *)
THEOREM RepairsAreKept == BriefSpec => []RepairsHold
<1>1. BriefInv => RepairsHold
  BY DEF BriefInv, RepairsHold, BeforeShares, BeforeHygiene, BeforeDashboard
<1> QED BY <1>1, BriefInvHolds, PTL

(* A brief that is refused was refused for what the writer wrote, and not  *)
(* for what the repairs made of it, but for the cases named: generic rows  *)
(* taken from the calendar, a round sum that grows in the thesis, and a    *)
(* reason that loses its label, a longer regime's name or a sum's digits   *)
(* (_structured_business_rules after the repairs).                         *)
THEOREM RefusalsAreOwn == BriefSpec => []RefusalsAreTheWriters
<1>1. BriefInv => RefusalsAreTheWriters
  <2> SUFFICES ASSUME BriefInv, step = "refused", NEW i \in unmet
               PROVE  \/ i \in RuleIssues(Wrote, PartialTier(Wrote), On)
                      \/ i = <<"phase_c", "calendar">> /\ Generics \cap Range(Wrote.of.calendar) # {}
                      \/ i = <<"phase_a", "thesis">> /\ "ma20_near" \in Wrote.text["thesis"]
                      \/ i[1] = "reason" /\ (i[2] \in Wrote.of.labelled
                                             \/ {"risk_off", "ma20_digits"} \cap Wrote.text[i[2]] # {})
    BY DEF RefusalsAreTheWriters, Wrote
  <2>1. /\ Taken /\ Keeps(Wrote, brief) /\ RegimeAgrees(brief)
        /\ unmet = RuleIssues(brief, PartialTier(brief), On)
    BY DEF BriefInv
  <2>2. Answer(Wrote) /\ \A a \in Assets : Wrote.row[a].category = "own"
    BY <2>1, WroteIs
  <2> DEFINE p == PartialTier(brief)
  <2>3. p = PartialTier(Wrote) /\ p \in BOOLEAN
    BY <2>1 DEF PartialTier, Tagged, Keeps, Kept
  <2>4. i \in RuleIssues(brief, p, On)
    BY <2>1
  <2> HIDE DEF p
  <2> QED BY <2>1, <2>2, <2>3, <2>4, IssuesAreOwn
<1> QED BY <1>1, BriefInvHolds, PTL
===============================================================================
