----------------------------- MODULE BriefSchema -----------------------------
(***************************************************************************)
(* What a language model may answer for the daily brief, what the schema   *)
(* (schemas.py) makes of it or refuses, and the rules an assembled report  *)
(* must obey.  A text is the set of the things in it that any step tells   *)
(* apart; a dashboard is the sequence of the kinds of its rows.            *)
(***************************************************************************)
EXTENDS Integers, FiniteSets, SequencesExt

Assets == {"BTC", "NVDA", "MSFT"}
Desk   == [BTC |-> "CRYPTO", NVDA |-> "EQUITY", MSFT |-> "EQUITY"]
Desks  == {"CRYPTO", "EQUITY"}
Of(desk) == {a \in Assets : Desk[a] = desk}

Regimes == {"risk_on", "risk_off", "neutral"}
Modes   == Regimes \cup {"none"}

(* A line that names a regime only under a condition ("if", "when").       *)
Supposed == [risk_on |-> "if_risk_on", risk_off |-> "if_risk_off", neutral |-> "if_neutral"]
LooseOff == "risk-off"    \* spelled otherwise than the token

(* A sum given for the twenty days' average: a round one, one with more    *)
(* digits than the dashboard prints, or the dashboard's own.               *)
Cites == {"ma20_near", "ma20_digits", "ma20_cited"}

Blank   == -1             \* no position given
-----------------------------------------------------------------------------
(* Answers: d gives the parts that differ from a sound one.                *)

Given(d, path, sound) == IF path \in DOMAIN d THEN d[path] ELSE sound

Prices == {"current", "entry", "target", "stop"}
SoundLeg == [direction |-> "LONG", stars |-> 3, scenarios |-> TRUE, invalidation |-> TRUE,
             share |-> 200, usable |-> Prices, ratios |-> TRUE, liquidity |-> TRUE, trigger |-> "plain"]
SoundRow == [direction |-> "LONG", side |-> "none", geometry |-> "LONG", gap |-> TRUE, scored |-> TRUE,
             confidence |-> 3, scenarios |-> TRUE, narrative |-> TRUE, category |-> "own", mode |-> "neutral"]

Texts == {"card", "story", "budget", "macro", "bridge", "note", "CRYPTO", "EQUITY", "thesis", "unless",
          "framing", "cycle", "valuation", "exec", "crypto_news", "ai_news", "headline", "conflict"}

SoundBrief ==
    [regime |-> "neutral", legs |-> Assets, rows |-> Assets, labelled |-> {},
     body |-> [m \in Desks |-> 40], news |-> [m \in Desks |-> 3], stamps |-> "utc8", pricing |-> "canonical",
     chatter |-> {"unconfirmed", "B", "msm"}, scenario_k |-> FALSE, chances |-> <<50, 30, 20>>,
     supports |-> 2, contras |-> 2, assumptions |-> 2,
     calendar |-> <<"dated", "dated", "dated">>, rsi_card |-> "none", rsi_row |-> "up", spot |-> 70,
     crypto_rows |-> <<"macro", "spot", "rsi", "ma20", "ma50", "quality", "liquidation">>,
     ai_rows |-> <<"quote", "filing", "listed_heat">>, highlights |-> {"new"}, filing |-> "none",
     agency |-> "none", notice |-> FALSE, predictions |-> 0, summary |-> [m \in Desks |-> {}]]

SoundText == [f \in Texts |-> CASE f = "budget"          -> {"neutral"}
                                [] f \in {"thesis", "unless", "framing", "cycle", "valuation"} -> {"said"}
                                [] OTHER                 -> {}]

(* The other values a part takes in the answers, and those of a setting.   *)
BriefSlips ==
    [regime |-> {"risk_off", "bullish"}, legs |-> {{"BTC"}, {"BTC", "NVDA"}}, rows |-> {{}, {"BTC", "MSFT"}},
     labelled |-> {{"CRYPTO"}, {"EQUITY"}},
     body |-> {[CRYPTO |-> 30, EQUITY |-> 40], [CRYPTO |-> 40, EQUITY |-> 33], [CRYPTO |-> 40, EQUITY |-> 30],
              [CRYPTO |-> 22, EQUITY |-> 40]},
     news |-> {[CRYPTO |-> 3, EQUITY |-> 2]}, pricing |-> {"alias", "none"},
     chatter |-> {{"A", "unconfirmed"}, {"A"}, {}}, scenario_k |-> {TRUE},
     chances |-> {<<50, 30>>, <<50, 30, 30>>, <<50, 30, 20, 10>>}, supports |-> {1}, assumptions |-> {5},
     calendar |-> {<<"dated", "dated", "generic">>, <<"dated", "dated", "halving_undated">>,
                   <<"dated", "dated", "billions">>, <<"dated", "dated", "dated", "generic_billions">>,
                   <<"dated", "undated", "dated">>},
     rsi_card |-> {"down"}, rsi_row |-> {"down"}, spot |-> {40},
     crypto_rows |-> {<<"macro", "rsi">>, <<"yield_odd", "spot", "ma20", "ma50", "quality">>,
                      <<"spot", "ma20_na", "ma50", "quality", "filing_na">>},
     ai_rows |-> {<<"filing_na", "filing_na", "filing_na", "heat", "quote">>,
                  <<"filing_na", "quote", "filing_na", "quote", "filing_na", "quote", "filing_na">>,
                  <<"title", "heat", "listed_heat", "listed_heat">>},
     highlights |-> {{"new", "repeated"}}, filing |-> {"cited", "uncited", "blank"},
     agency |-> {"whole", "torn"}, predictions |-> {1, 4}]
TextSlips ==
    [card |-> {{"risk_off"}}, story |-> {{"risk_on", "if_risk_off"}},
     budget |-> {{}, {"risk_off"}, {"if_risk_off"}, {LooseOff}}, macro |-> {{"yield_odd"}, {"contango"}},
     note |-> {{LooseOff}, {"risk_off"}}, CRYPTO |-> {{"again"}, {"echo", "risk_on"}, {"ma20_near"},
     {"ma20_digits"}}, EQUITY |-> {{"again"}, {"risk_off"}},
     thesis |-> {{}, {"said", "full", "ma20_near"}, {"said", "overlong"}},
     unless |-> {{"said", "backwardation"}}, framing |-> {{}, {"said", "overweight"}, {"said", "risk_on"}},
     cycle |-> {{"said", "halving"}}, valuation |-> {{}, {"said", "index_low"}, {"said", "na"}},
     exec |-> {{"slogan", "leaning"}, {"slogan", "figures"}, {"na", "low_confidence"}},
     crypto_news |-> {{"bleed", "rest"}, {"bleed"}, {"low_confidence", "proxy"}},
     ai_news |-> {{"beat", "stranger"}}, headline |-> {{"expected"}}]
LegSlips ==
    [direction |-> {"SHORT", "BUY", "none"}, stars |-> {1, 2, 5}, scenarios |-> {FALSE}, invalidation |-> {FALSE},
     share |-> {Blank, 633, 2000}, usable |-> {{}, {"current", "entry"}, {"target", "stop"}},
     ratios |-> {FALSE}, liquidity |-> {FALSE}, trigger |-> {"beat"}]
RowSlips ==
    [direction |-> {"none", "SHORT", "FLAT"}, side |-> {"SELL"}, geometry |-> {"none", "SHORT"}, gap |-> {FALSE},
     scored |-> {FALSE}, confidence |-> {2, 5}, scenarios |-> {FALSE}, category |-> {"other"},
     mode |-> {"risk_on", "none"}]
EnvSlips ==
    [agreed |-> {"none", "risk_off", "risk_on"}, yesterday |-> {{"CRYPTO"}, {"EQUITY"}},
     flipped |-> {{"ma", "quotes"}, {"auto_repeat"}, {"partial_news"}, {"phase_a"}, {"phase_b"}, {"phase_c"},
                  {"prediction"}}]

SlipsOf(kind, table) == UNION {{<<<<kind, f>>, v>> : v \in table[f]} : f \in DOMAIN table}
SlipsOfEach(kind, table) ==
    UNION {UNION {{<<<<kind, a, f>>, v>> : v \in table[f]} : f \in DOMAIN table} : a \in Assets}
Slips == SlipsOf("brief", BriefSlips) \cup SlipsOf("text", TextSlips) \cup SlipsOf("env", EnvSlips)
           \cup SlipsOfEach("leg", LegSlips) \cup SlipsOfEach("row", RowSlips)

(* The answer: the brief's own fields, its texts, legs and rows.           *)
Written(d) ==
    [of   |-> [f \in DOMAIN SoundBrief |-> Given(d, <<"brief", f>>, SoundBrief[f])],
     text |-> [f \in Texts |-> Given(d, <<"text", f>>, SoundText[f])],
     leg  |-> [a \in Assets |-> [f \in DOMAIN SoundLeg |-> Given(d, <<"leg", a, f>>, SoundLeg[f])]],
     row  |-> [a \in Assets |-> [f \in DOMAIN SoundRow |-> Given(d, <<"row", a, f>>, SoundRow[f])]]]
-----------------------------------------------------------------------------
(* Parsing: a value is put right, or the whole answer is refused.          *)

Side(word) == CASE word \in {"LONG", "BUY"}   -> "LONG"
                [] word \in {"SHORT", "SELL"} -> "SHORT"
                [] OTHER                      -> "none"

(* A row without a direction takes that of the desk's leg in its asset.    *)
BackfilledDirection(b, a) ==
    IF b.row[a].direction = "none" /\ a \in b.of.legs THEN Side(b.leg[a].direction) ELSE b.row[a].direction

(* Else its other fields tell, else its prices.                            *)
RowDirection(b, a) ==
    LET tells == SelectSeq(<<Side(BackfilledDirection(b, a)), Side(b.row[a].side), b.row[a].geometry>>,
                           LAMBDA s : s # "none")
    IN IF tells = <<>> THEN "none" ELSE tells[1]

(* The category is its desk's, whatever it said; a missing gap is computed.*)
DeskCategory(r) == [r EXCEPT !.category = "own"]
ParsedRow(b, a) ==
    DeskCategory([b.row[a] EXCEPT !.direction = RowDirection(b, a), !.gap = @ \/ b.row[a].scored])
RowAccepted(r) ==
    /\ r.direction # "none"
    /\ r.confidence \in 1..4
    /\ r.confidence >= 3 => r.scenarios /\ r.narrative

ParsedLeg(l) == [l EXCEPT !.invalidation = @ \/ l.stars >= 2]
LegAccepted(l) ==
    /\ l.direction \in {"LONG", "SHORT"}
    /\ l.stars \in 1..4
    /\ l.stars >= 2 => l.scenarios

ParsedPricing(p) == CASE p \in {"canonical", "alias"} -> "canonical" [] OTHER -> "none"

(* A rumour gets a grade, never the best one unconfirmed, and its two      *)
(* marks.                                                                  *)
ParsedChatter(marks) ==
    LET grade == CASE marks \cap {"A", "B", "C"} = {}           -> {"C"}
                   [] "A" \in marks /\ "unconfirmed" \in marks   -> {"B"}
                   [] OTHER                                      -> marks \cap {"A", "B", "C"}
    IN grade \cup {"unconfirmed", "msm"}

(* Treasury yields outside 0.1-9% are taken out of dashboard rows.         *)
ParsedRows(rows) == [i \in DOMAIN rows |-> IF rows[i] = "yield_odd" THEN "macro_na" ELSE rows[i]]

(* Every answer of a filing needs a citation that says something.          *)
FilingAccepted(f) == f \notin {"uncited", "blank"}
(* The agency's research is dropped when it is not whole.                  *)
ParsedAgency(a) == IF a = "whole" THEN a ELSE "none"

Accepted(b) ==
    /\ \A a \in b.of.rows : RowAccepted(ParsedRow(b, a))
    /\ \A a \in b.of.legs : LegAccepted(b.leg[a])
    /\ b.of.regime \in Regimes
    /\ FilingAccepted(b.of.filing)

(* The label the model repeated is taken off; an empty summary of the      *)
(* conflicts gets a sentence.                                              *)
Unechoed(text) == text \ {"echo"}
Parsed(b) ==
    [of   |-> [b.of EXCEPT !.pricing = ParsedPricing(@), !.stamps = "utc8",
                           !.chatter = ParsedChatter(@), !.agency = ParsedAgency(@),
                           !.crypto_rows = ParsedRows(@), !.ai_rows = ParsedRows(@)],
     text |-> [f \in Texts |-> Unechoed(b.text[f]) \cup (IF f = "conflict" THEN {"said"} ELSE {})],
     leg  |-> [a \in Assets |-> ParsedLeg(b.leg[a])],
     row  |-> [a \in Assets |-> ParsedRow(b, a)]]
-----------------------------------------------------------------------------
(* The rules of an assembled report: each issue, and what it is about.     *)

Unless(holds, rule, about) == IF holds THEN {} ELSE {<<rule, about>>}

Tagged(b) == b.of.news["CRYPTO"] + b.of.news["EQUITY"]

(* Characters a text owes to the regime and to the sum it gives, of each   *)
(* the longest.                                                            *)
RegimeExtent(t) == IF "risk_off" \in t THEN 8 ELSE IF t \cap Regimes # {} THEN 7 ELSE 0
CiteExtent(t) == IF "ma20_digits" \in t THEN 12
                 ELSE IF "ma20_cited" \in t THEN 10 ELSE IF "ma20_near" \in t THEN 7 ELSE 0

ReasonLength(b, m) == b.of.body[m] + RegimeExtent(b.text[m]) + CiteExtent(b.text[m])
                                   + (IF m \in b.of.labelled THEN 7 ELSE 0)
                                   + (IF "prefix" \in b.text[m] THEN 14 ELSE 0)
LeastReason == [CRYPTO |-> 34, EQUITY |-> 38]

ThesisLength(t) == CiteExtent(t) + (IF "overlong" \in t THEN 100 ELSE IF "full" \in t THEN 86 ELSE 40)
LongestThesis == 95

Names(text, regime) == {regime, Supposed[regime]} \cap text # {} \/ (regime = "risk_off" /\ LooseOff \in text)

PhaseA(b) ==
    Unless("said" \in b.text["thesis"] /\ ThesisLength(b.text["thesis"]) <= LongestThesis, "phase_a", "thesis")
      \cup Unless(b.of.supports \in 2..3, "phase_a", "supports")
      \cup Unless(b.of.contras \in 2..3, "phase_a", "contras")
      \cup Unless(b.of.assumptions \in 2..4, "phase_a", "assumptions")
      \cup Unless("said" \in b.text["unless"], "phase_a", "unless")

(* Three chances, the further ones not read, that add up to a hundred.     *)
PhaseB(b) ==
    LET c == b.of.chances
    IN Unless("said" \in b.text["framing"], "phase_b", "framing")
         \cup Unless(Len(c) >= 3 /\ c[1] + c[2] + c[3] = 100, "phase_b", "chances")
         \cup Unless(b.of.pricing = "canonical", "phase_b", "pricing")

PhaseC(b) ==
    Unless("said" \in b.text["cycle"], "phase_c", "cycle")
      \cup Unless("said" \in b.text["valuation"], "phase_c", "valuation")
      \cup Unless(Len(b.of.calendar) \in 3..6, "phase_c", "calendar")
      \cup Unless("undated" \notin Range(b.of.calendar), "phase_c", "dates")
      \cup UNION {Unless(b.leg[a].liquidity, "phase_c", a) : a \in b.of.legs}

(* partial is what main.py found before assembly: three to five news.      *)
RuleIssues(b, partial, on) ==
    (UNION {Unless(b.of.news[m] >= 3, "news", m) : m \in Desks})
      \cup Unless(Tagged(b) >= 6 \/ partial, "tier", "missing")
      \cup Unless(partial => Tagged(b) \in 3..5, "tier", "wrong")
      \cup Unless(b.of.rows # {}, "rows", "none")
      \cup (UNION {Unless(ReasonLength(b, m) >= LeastReason[m], "reason", m) : m \in Desks})
      \cup Unless(Names(b.text["budget"], b.of.regime), "budget", "regime")
      \cup (UNION {Unless(b.row[a].category = "own", "category", a) : a \in b.of.rows})
      \cup (UNION {Unless(b.leg[a].direction = b.row[a].direction, "direction", a) : a \in b.of.legs \cap b.of.rows})
      \cup (UNION {Unless(b.leg[a].stars >= 2 => b.leg[a].scenarios, "scenarios", a) : a \in b.of.legs})
      \cup (IF "phase_a" \in on THEN PhaseA(b) ELSE {})
      \cup (IF "phase_b" \in on THEN PhaseB(b) ELSE {})
      \cup (IF "phase_c" \in on THEN PhaseC(b) ELSE {})
=============================================================================
