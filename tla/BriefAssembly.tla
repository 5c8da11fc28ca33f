---------------------------- MODULE BriefAssembly ----------------------------
(***************************************************************************)
(* From the two desks' parsed answers to the daily brief                   *)
(* (report_render.assemble_daily_brief_report): a row of repairs, several  *)
(* of which ask a service that may not answer, then the rules of the       *)
(* schema, the templates and a last pass over the text.                    *)
(***************************************************************************)
EXTENDS BriefSchema

VARIABLES slips,     \* path -> value, where the answer and the settings are not the usual ones
          brief,     \* the brief as it stands
          step,      \* the repair that comes next, or how it ended
          answered,  \* <<what was asked, about what>> of the calls that were answered
          unmet      \* issues of the rules the built report fails

briefVars == <<slips, brief, step, answered, unmet>>

Settings == [agreed |-> "neutral", flipped |-> {}, yesterday |-> {}]
DefaultSwitches == {"ma", "quotes", "auto_repeat", "rotation", "override"}

Setting(f) == Given(slips, <<"env", f>>, Settings[f])
Agreed     == Setting("agreed")          \* the regime of the scorecard, if there is one
Yesterday  == Setting("yesterday")       \* desks whose picks are those of yesterday
On == (DefaultSwitches \ Setting("flipped")) \cup (Setting("flipped") \ DefaultSwitches)

US == Of("EQUITY")
Mark(t, old, new) == IF old \in t THEN (t \ {old}) \cup {new} ELSE t
-----------------------------------------------------------------------------
(* The regime.                                                             *)

Normalized(t, regime) == IF t \cap Regimes = {} THEN t ELSE (t \ Regimes) \cup {regime}
NormalizedTexts == {"card", "story", "CRYPTO", "budget", "macro", "EQUITY", "bridge", "note"}

WithBudgetToken(t, regime) == IF Names(t, regime) THEN t ELSE t \cup {regime}

ToAgreed(b) ==
    IF Agreed = "none" THEN b
    ELSE [b EXCEPT !.of.regime = Agreed,
                   !.text = [f \in Texts |-> IF f \in NormalizedTexts THEN Normalized(@[f], Agreed) ELSE @[f]]]

CoerceSections_Mutant_BudgetFirst(b) ==
    LET c == ToAgreed([b EXCEPT !.text["budget"] = WithBudgetToken(@, b.of.regime)])
    IN [c EXCEPT !.text["macro"] = Mark(@, "yield_odd", "na"), !.text["bridge"] = Mark(@, "yield_odd", "na")]

(* Yields out of range go, and the risk budget names the regime at last.   *)
CoerceSections(b) ==
    LET c == ToAgreed(b)
    IN [c EXCEPT !.text["macro"] = Mark(@, "yield_odd", "na"), !.text["bridge"] = Mark(@, "yield_odd", "na"),
                 !.text["budget"] = WithBudgetToken(@, c.of.regime)]

CoerceRowModes(b) ==
    [b EXCEPT !.row = [a \in Assets |-> [b.row[a] EXCEPT !.mode = IF @ \in Regimes THEN b.of.regime ELSE @]]]

FixMisbrandedNote(b) ==
    IF b.of.regime = "risk_off" THEN b ELSE [b EXCEPT !.text["note"] = Mark(@, LooseOff, b.of.regime)]
-----------------------------------------------------------------------------
(* The crypto dashboard and what cites it.                                 *)

Band == [ma20 |-> {"ma20", "ma20_na"}, ma50 |-> {"ma50", "ma50_na"}]
MissingBands(rows) == {n \in DOMAIN Band : Band[n] \cap Range(rows) = {}}

RowAt(rows, kind) == SelectInSeq(rows, LAMBDA r : r = kind)
(* After the spot price, else before the RSI, else at the end.             *)
PlaceOfBands(rows) ==
    CASE "spot" \in Range(rows)                             -> RowAt(rows, "spot") + 1
      [] "spot" \notin Range(rows) /\ "rsi" \in Range(rows) -> RowAt(rows, "rsi")
      [] OTHER                                              -> Len(rows) + 1
WithBands(rows, bands) ==
    LET k == PlaceOfBands(rows)
    IN SubSeq(rows, 1, k - 1) \o (IF "ma20" \in bands THEN <<"ma20">> ELSE <<>>)
         \o (IF "ma50" \in bands THEN <<"ma50">> ELSE <<>>) \o SubSeq(rows, k, Len(rows))

SyncRsi(b) ==
    IF b.of.rsi_card # "none" /\ "rsi" \in Range(b.of.crypto_rows)
    THEN [b EXCEPT !.of.rsi_row = b.of.rsi_card] ELSE b

(* A sum given for an average in the crypto desk's texts, if within 0.3%   *)
(* of the dashboard's, becomes the dashboard's, longer or shorter.         *)
AsDashboard(t) == Mark(Mark(t, "ma20_near", "ma20_cited"), "ma20_digits", "ma20_cited")
CitingTexts == Texts \ {"card", "bridge", "note", "EQUITY", "ai_news", "headline"}
NormalizeCites(b) ==
    IF "ma20" \notin Range(b.of.crypto_rows) THEN b
    ELSE [b EXCEPT !.text = [f \in Texts |-> IF f \in CitingTexts THEN AsDashboard(@[f]) ELSE @[f]]]

NoteLiquidation(b) ==
    IF "liquidation" \in Range(b.of.crypto_rows) THEN b
    ELSE [b EXCEPT !.of.crypto_rows = Append(@, "liquidation")]
-----------------------------------------------------------------------------
(* Hygiene of the data.                                                    *)

Generics == {"generic", "generic_billions"}
WithEvent(events, e) ==
    IF e \in Generics THEN events ELSE Append(events, IF e \in {"halving", "halving_undated"} THEN "dated" ELSE e)
Scrubbing(events) ==
    LET kept[i \in 0..Len(events)] == IF i = 0 THEN <<>> ELSE WithEvent(kept[i - 1], events[i])
    IN kept
ScrubCalendar(b) == [b EXCEPT !.of.calendar = Scrubbing(@)[Len(@)]]

(* Under "neutral" three phrases that lean to the long side make way for   *)
(* others that name the regime, one of them "risk_on" as well.             *)
Softened(t) ==
    (t \ {"leaning", "overweight"}) \cup (IF "leaning" \in t THEN {"neutral"} ELSE {})
                                   \cup (IF "overweight" \in t THEN {"neutral", "risk_on"} ELSE {})

ScrubTexts(b) ==
    LET contango == "contango" \in b.text["macro"] \cup b.text["bridge"]
        soften(t) == IF b.of.regime = "neutral" THEN Softened(t) ELSE t
    IN [b EXCEPT !.text["cycle"]   = IF "halving" \in @ THEN @ \cup {"caveat"} ELSE @,
                 !.text["exec"]    = soften(IF "figures" \in @ THEN @ ELSE @ \ {"slogan"}),
                 !.text["framing"] = soften(@),
                 !.text["unless"]  = IF contango /\ "contango" \notin @ THEN @ \ {"backwardation"} ELSE @]

(* The three chances, and a price typed without its ten thousands.         *)
ScrubScenarios(b) ==
    [b EXCEPT !.of.chances = IF Len(@) >= 3 THEN SubSeq(@, 1, 3) ELSE @,
              !.of.scenario_k = @ /\ ~ (b.of.spot > 50 /\ "spot" \in Range(b.of.crypto_rows))]

(* A filing the crypto desk lacks is taken from the AI desk; two and more  *)
(* lacking rows of the AI desk in a row become one; the five rows of the   *)
(* quality tools are there, if need be without a value.                    *)
FillFilings(b) ==
    IF "filing" \notin Range(b.of.ai_rows) THEN b
    ELSE [b EXCEPT !.of.crypto_rows = [i \in DOMAIN @ |-> IF @[i] = "filing_na" THEN "filing" ELSE @[i]]]
CollapsedRows(rows) ==
    LET add(s, r) == IF r = "filing_na" /\ s # <<>> /\ Last(s) = r THEN s ELSE Append(s, r)
    IN FoldLeft(add, <<>>, rows)
CollapseFilings(b) == [b EXCEPT !.of.ai_rows = CollapsedRows(@)]
QualityTools == 5
FillQuality(b) ==
    IF "quality" \in Range(b.of.crypto_rows) THEN b
    ELSE [b EXCEPT !.of.crypto_rows = @ \o [i \in 1..QualityTools |-> "quality_na"]]

(* A sum of the calendar pasted into the takeaway of a news goes, unless   *)
(* nothing else would be left.                                             *)
StripBleed(b) ==
    IF {"billions", "generic_billions"} \cap Range(b.of.calendar) # {} /\ "rest" \in b.text["crypto_news"]
    THEN [b EXCEPT !.text["crypto_news"] = @ \ {"bleed"}] ELSE b

(* "Beat" and "miss" need a consensus in the headlines; a ticker that is   *)
(* not among the day's picks loses its dollar sign.                        *)
SoftenAiCopy(b) ==
    LET cue    == "expected" \in b.text["headline"]
        listed == US \cap (b.of.legs \cup b.of.rows)
    IN [b EXCEPT !.leg = [a \in Assets |-> IF a \in US /\ ~ cue THEN [b.leg[a] EXCEPT !.trigger = "plain"] ELSE b.leg[a]],
                 !.text["ai_news"] = (IF cue THEN @ ELSE @ \ {"beat"})
                                       \ (IF listed = {} THEN {} ELSE {"stranger"}),
                 !.of.highlights = @ \ {"repeated"}]

Hygiene(b) ==
    SoftenAiCopy(StripBleed(FillQuality(CollapseFilings(FillFilings(ScrubScenarios(ScrubTexts(ScrubCalendar(b))))))))
-----------------------------------------------------------------------------
(* Positions, in hundredths of a percent, and prices of the US legs.       *)

SingleCap   == [risk_off |-> 500, neutral |-> 1000, risk_on |-> 1500]
CombinedCap == [risk_off |-> 400, neutral |-> 1000, risk_on |-> 1500]
DefaultShare(regime, stars) ==
    LET s == 200 + 150 * stars IN IF s < SingleCap[regime] THEN s ELSE SingleCap[regime]

(* What the writer left open is filled, each US leg cut to the single cap, *)
(* and the two of them scaled to the combined one, rounded to a hundredth. *)
FillShares(b) ==
    [b EXCEPT !.leg = [a \in Assets |-> [b.leg[a] EXCEPT !.share =
        IF @ = Blank THEN DefaultShare(b.of.regime, b.leg[a].stars) ELSE @]]]
CutShare(b, a) == IF b.leg[a].share < SingleCap[b.of.regime] THEN b.leg[a].share ELSE SingleCap[b.of.regime]
Scaled(v, total, cap) == (2 * v * cap + total) \div (2 * total)
CapShares(b) ==
    LET cap   == CombinedCap[b.of.regime]
        total == CutShare(b, "NVDA") + CutShare(b, "MSFT")
        over  == US \subseteq b.of.legs /\ total > cap
        share(a) == IF over THEN Scaled(CutShare(b, a), total, cap) ELSE CutShare(b, a)
    IN [b EXCEPT !.leg = [a \in Assets |-> IF a \in US \cap b.of.legs THEN [b.leg[a] EXCEPT !.share = share(a)]
                                                                    ELSE b.leg[a]]]

PositionShares_Mutant_CapFirst(b) == FillShares(CapShares(b))
PositionShares(b) == CapShares(FillShares(b))

Unpriced(l) == {"current", "entry"} \ l.usable # {} \/ {"target", "stop"} \cap l.usable = {}

(* The quote stands in for the price and the entry; target and stop are    *)
(* derived only when both lack and the ratios can be read.                 *)
Quoted(got, a) == IF a \in got THEN {"current", "entry"} ELSE {}
Backfilled(l, quoted) ==
    LET given == l.usable \cup quoted
        known == {"current", "entry"} \cap given # {}
    IN [l EXCEPT !.usable = given \cup (IF known /\ l.ratios /\ {"target", "stop"} \cap given = {}
                                        THEN {"target", "stop"} ELSE {})]
-----------------------------------------------------------------------------
(* The reasons for picks that are yesterday's again.                       *)

Again(m) == m \in Yesterday /\ Of(m) \cap brief.of.rows # {}
Declared(b, m) == m \in b.of.labelled \/ {"again", "prefix"} \cap b.text[m] # {}

(* A leading "reason for repeating" becomes the reader's phrase when       *)
(* yesterday's picks are known to be the same, else it goes.               *)
NormalizeHeaders(b, same) ==
    [b EXCEPT !.of.labelled = {},
              !.text = [f \in Texts |-> IF f \in b.of.labelled \cap same THEN @[f] \cup {"prefix"} ELSE @[f]]]
DeclareRepeats(b, same) ==
    [b EXCEPT !.text = [f \in Texts |-> IF f \in same /\ ~ Declared(b, f) THEN @[f] \cup {"prefix"} ELSE @[f]]]
-----------------------------------------------------------------------------
(* The layout and the notice.                                              *)

(* The five quality rows belong to several groups and stand for the first. *)
Bucket == [macro |-> "Macro", macro_na |-> "Macro", quality |-> "Macro", quality_na |-> "Macro",
           liquidation |-> "Derivatives", spot |-> "Technical", rsi |-> "Technical", ma20 |-> "Technical",
           ma50 |-> "Technical", ma20_na |-> "Technical", filing |-> "Other", filing_na |-> "Other"]

(* A title before the first row of each group; the rows stay in place.     *)
GroupCryptoRows(rows) ==
    LET titled(s, r) == Append(IF Bucket[r] \in Range(s) THEN s ELSE Append(s, Bucket[r]), r)
    IN FoldLeft(titled, <<>>, SelectSeq(rows, LAMBDA r : r \in DOMAIN Bucket))

(* Of the models' popularity one row stays, if it is about a listed stock; *)
(* the rest is sorted under titles of the desk's own.                      *)
GroupAiRows(rows) ==
    LET titled(title, kinds) == LET found == SelectSeq(rows, LAMBDA r : r \in kinds)
                                IN IF found = <<>> THEN <<>> ELSE <<title>> \o found
        heat == titled("Demand", {"listed_heat"})
    IN titled("Tradeable", {"quote"}) \o titled("Fundamental", {"filing", "filing_na"})
         \o SubSeq(heat, 1, IF Len(heat) > 2 THEN 2 ELSE Len(heat))

(* The line above the trade cards.                                         *)
SummaryOf(b, m) == {<<a, b.leg[a].direction, b.leg[a].stars, b.of.regime>> : a \in Of(m) \cap b.of.legs}

InstrumentSections(b) ==
    [b EXCEPT !.of.crypto_rows = GroupCryptoRows(@), !.of.ai_rows = GroupAiRows(@),
              !.of.summary = [m \in Desks |-> SummaryOf(b, m)]]

(* What lacks a value (a price of no use reads N/A), the summary and the   *)
(* scorecard left out.                                                     *)
CountMissing(b) ==
    Cardinality({f \in Texts \ {"card", "exec"} : "na" \in b.text[f]})
      + Cardinality({p \in b.of.legs \X Prices : p[2] \notin b.leg[p[1]].usable})
      + Len(SelectSeq(b.of.crypto_rows \o b.of.ai_rows, LAMBDA r : r \in {"macro_na", "ma20_na", "filing_na", "quality_na"}))
Says(b, mark) == \E f \in Texts \ {"card", "exec"} : mark \in b.text[f]
NeedsNotice(b) == CountMissing(b) > 3 /\ ~ (Says(b, "low_confidence") /\ Says(b, "proxy"))
-----------------------------------------------------------------------------
BriefInit ==
    /\ slips = <<>> /\ brief = Written(<<>>)
    /\ step = "write" /\ answered = {} /\ unmet = {}

Goes(from, to) == step = from /\ step' = to
Quietly == UNCHANGED <<slips, answered, unmet>>

(* Three to five news are partial only when the switch allows it.          *)
PartialTier(b) == "partial_news" \in On /\ Tagged(b) \in 3..5

(* The answer and the settings differ from the usual in two parts at most. *)
With(t, u) == [path \in {t[1], u[1]} |-> IF path = t[1] THEN t[2] ELSE u[2]]

Parse(d) ==
    LET answer == Written(d)
        good   == Accepted(answer)
    IN /\ slips' = d
       /\ brief' = IF good THEN Parsed(answer) ELSE answer
       /\ step'  = IF good THEN "align" ELSE "rejected"
       /\ UNCHANGED <<answered, unmet>>

Write ==
    /\ step = "write"
    /\ Parse(<<>>) \/ \E t, u \in Slips : Parse(With(t, u))

Align ==
    /\ Goes("align", "dashboard")
    /\ brief' = FixMisbrandedNote(CoerceRowModes(CoerceSections(brief)))
    /\ Quietly

Dashboard ==
    /\ Goes("dashboard", "hygiene")
    /\ \E bands \in SUBSET (IF "ma" \in On THEN MissingBands(brief.of.crypto_rows) ELSE {}) :
         /\ brief' = NoteLiquidation(NormalizeCites(SyncRsi([brief EXCEPT !.of.crypto_rows = WithBands(@, bands)])))
         /\ answered' = answered \cup {<<"band", n>> : n \in bands}
    /\ UNCHANGED <<slips, unmet>>

Clean == Goes("hygiene", "anchor") /\ brief' = Hygiene(brief) /\ Quietly

(* A level of the index that is a share's price becomes the last close.    *)
AnchorIndex ==
    /\ Goes("anchor", "shares")
    /\ \/ brief' = brief /\ Quietly
       \/ /\ "index_low" \in brief.text["valuation"]
          /\ brief' = [brief EXCEPT !.text["valuation"] = Mark(@, "index_low", "index_close")]
          /\ answered' = answered \cup {<<"index", "SPX">>}
          /\ UNCHANGED <<slips, unmet>>

SizePositions == Goes("shares", "quotes") /\ brief' = PositionShares(brief) /\ Quietly

(* The call for the quotes may fail, or answer for some of the legs.       *)
BackfillPrices ==
    LET legs == US \cap brief.of.legs
    IN /\ Goes("quotes", "headers")
       /\ \/ brief' = brief /\ Quietly
          \/ /\ "quotes" \in On /\ \E a \in legs : Unpriced(brief.leg[a])
             /\ \E got \in SUBSET legs :
                  /\ brief' = [brief EXCEPT !.leg = [a \in Assets |-> IF a \in legs THEN Backfilled(brief.leg[a], Quoted(got, a))
                                                                                    ELSE brief.leg[a]]]
                  /\ answered' = answered \cup {<<"quote", a>> : a \in got}
             /\ UNCHANGED <<slips, unmet>>

(* Yesterday's picks are asked for, desk by desk, twice: the answer to the *)
(* first matters to a reason that opens with the label.                    *)
RepeatHeaders ==
    /\ Goes("headers", "declare")
    /\ \E got \in SUBSET (brief.of.labelled \cap Yesterday) :
         /\ brief' = NormalizeHeaders(brief, {m \in got : Again(m)})
         /\ answered' = answered \cup {<<"header", m>> : m \in got}
    /\ UNCHANGED <<slips, unmet>>

RepeatDisclaimer ==
    /\ Goes("declare", "layout")
    /\ \E got \in SUBSET (IF {"auto_repeat", "rotation", "override"} \subseteq On THEN Yesterday ELSE {}) :
         /\ brief' = DeclareRepeats(brief, {m \in got : Again(m)})
         /\ answered' = answered \cup {<<"again", m>> : m \in got}
    /\ UNCHANGED <<slips, unmet>>

(* Layout, prediction markets, the notice, and the rules.                  *)
Build ==
    /\ step = "layout"
    /\ \E lines \in IF "prediction" \notin On THEN {0}
                    ELSE IF brief.of.predictions >= 3 THEN {brief.of.predictions} ELSE {brief.of.predictions, 5} :
         LET laid == [InstrumentSections(brief) EXCEPT !.of.predictions = lines]
             b == [laid EXCEPT !.of.notice = NeedsNotice(laid)]
         IN brief' = b /\ unmet' = RuleIssues(b, PartialTier(b), On)
    /\ step' = IF unmet' = {} THEN "built" ELSE "refused"
    /\ UNCHANGED <<slips, answered>>

(* The last pass over the text (post_process_html_for_gate) aligns every   *)
(* regime it finds with the scorecard's, if there is one.                  *)
Render ==
    /\ Goes("built", "rendered")
    /\ brief' = IF Agreed = "none" THEN brief
                ELSE [brief EXCEPT !.text = [f \in Texts |-> Normalized(@[f], Agreed)]]
    /\ Quietly

BriefNext ==
    \/ Write \/ Align \/ Dashboard \/ Clean \/ AnchorIndex \/ SizePositions \/ BackfillPrices
    \/ RepeatHeaders \/ RepeatDisclaimer \/ Build \/ Render

BriefSpec == BriefInit /\ [][BriefNext]_briefVars
-----------------------------------------------------------------------------
(* The repairs hold in the brief that is built and rendered, whatever      *)
(* comes after them: its regime is the scorecard's, and so is every one    *)
(* the eight texts aligned at the start name unconditionally, and in the   *)
(* end every text (until the last pass the others may name another, and    *)
(* without a scorecard they may for good); the risk budget and the rows    *)
(* name the brief's; no US position exceeds its caps; a trade card, its    *)
(* line above and its row agree; what a service answered is in the brief;  *)
(* and picks known to be yesterday's are declared                          *)
(* (assemble_daily_brief_report, post_process_html_for_gate).              *)
RegimeAgrees(b) ==
    /\ Agreed # "none" => b.of.regime = Agreed
    /\ Agreed # "none" => \A f \in NormalizedTexts : b.text[f] \cap Regimes \subseteq {b.of.regime}
    /\ Names(b.text["budget"], b.of.regime)
    /\ \A a \in b.of.rows : b.row[a].mode \in {"none", b.of.regime}
    /\ b.of.regime # "risk_off" => LooseOff \notin b.text["note"]

TextsAgree(b) == Agreed # "none" => \A f \in Texts : b.text[f] \cap Regimes \subseteq {b.of.regime}

CapsKept(b) ==
    LET rounding == 1
    IN /\ \A a \in US \cap b.of.legs : b.leg[a].share \in 0..SingleCap[b.of.regime]
       /\ US \subseteq b.of.legs =>
            b.leg["NVDA"].share + b.leg["MSFT"].share <= CombinedCap[b.of.regime] + rounding

SummaryAgrees(b) == \A m \in Desks : b.of.summary[m] = SummaryOf(b, m)

AnswersUsed(b) ==
    /\ \A a \in US : <<"quote", a>> \in answered => ~ (Unpriced(b.leg[a]) /\ b.leg[a].ratios)
    /\ <<"index", "SPX">> \in answered => "index_low" \notin b.text["valuation"]
    /\ <<"band", "ma20">> \in answered => \A f \in CitingTexts : {"ma20_near", "ma20_digits"} \cap b.text[f] = {}
    /\ \A m \in Desks : Again(m) =>
         /\ <<"again", m>> \in answered => Declared(b, m)
         /\ m \in Written(slips).of.labelled /\ ~ Declared(b, m) => <<"header", m>> \notin answered

NoBleed(b) ==
    "rest" \in b.text["crypto_news"] /\ {"billions", "generic_billions"} \cap Range(b.of.calendar) # {}
        => "bleed" \notin b.text["crypto_news"]

RepairsHold ==
    /\ step \in {"built", "rendered"} =>
         RegimeAgrees(brief) /\ CapsKept(brief) /\ SummaryAgrees(brief) /\ AnswersUsed(brief) /\ NoBleed(brief)
    /\ step = "rendered" => TextsAgree(brief)

(* A brief that is refused was refused for what its writer wrote: an issue *)
(* of the built report is one of the parsed answer.  Four repairs are the  *)
(* exceptions: generic rows taken out can leave too short a calendar; a    *)
(* round sum that becomes the dashboard's can make the thesis too long;    *)
(* and a reason can become too short as its label is taken off, "risk_off" *)
(* makes way for a shorter word, or a sum loses digits                     *)
(* (_structured_business_rules after the repairs).                         *)
RefusalsAreTheWriters ==
    step = "refused" =>
        LET wrote == Parsed(Written(slips))
        IN \A i \in unmet :
             \/ i \in RuleIssues(wrote, PartialTier(wrote), On)
             \/ i = <<"phase_c", "calendar">> /\ Generics \cap Range(wrote.of.calendar) # {}
             \/ i = <<"phase_a", "thesis">> /\ "ma20_near" \in wrote.text["thesis"]
             \/ i[1] = "reason" /\ (i[2] \in wrote.of.labelled
                                    \/ {"risk_off", "ma20_digits"} \cap wrote.text[i[2]] # {})
=============================================================================
