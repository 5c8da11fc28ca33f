------------------------------- MODULE Tracker -------------------------------
(***************************************************************************)
(* The recommendation tracker (tracker.py): the job stores the             *)
(* recommendations of a report and checks the open ones against the        *)
(* latest closes, day after day, sometimes several times a day, sometimes  *)
(* not at all.  Two back ends: a JSONL file that is truncated and written  *)
(* anew (state_store.replace_jsonl), or BigQuery, where saving is a DELETE *)
(* followed by an insert and every closing is an UPDATE of its own.        *)
(*                                                                         *)
(* A report is a sequence of recommendations.  Recommendations dropped for *)
(* reasons other than their prices' order and their reward-to-risk ratio   *)
(* (unit sanity, missing fields) are reports without them.                 *)
(*                                                                         *)
(* Days are those of date.today().  BigQuery's CURRENT_DATE() is the day   *)
(* in UTC, which where the agent runs may be the day before.               *)
(***************************************************************************)
EXTENDS Integers, Sequences

CONSTANTS Names,    \* assets as reports spell them
          Canon,    \* [Names -> canonical keys]: BTC-SOL is BTC/SOL
          Quotes,   \* closes
          NoQuote,  \* a close that could not be fetched
          Reports,  \* what the QSREC blocks of a report may say
          Window,   \* 30 days
          Crypto,   \* the assets of the category CRYPTO; the others are EQUITY
          Placeholders,   \* an entry price known as dirt, and the close below which it is
          MaxDay, MaxRows, MaxFaults   \* bounds, for model checking

Directions == {"LONG", "SHORT"}
Results    == {"HIT_TARGET", "HIT_STOP", "EXPIRED"}

Rec == [name : Names, dir : Directions, entry : Nat, target : Nat, stop : Nat]

Row == [created : Nat, rec : Rec, date : Nat, status : Results \union {"OPEN"},
        exit : Quotes \union {NoQuote}, exitDate : Nat]

ASSUME TrackerConstants ==
    /\ Quotes \subseteq Nat /\ NoQuote \notin Quotes
    /\ Reports \subseteq Seq(Rec)
    /\ Crypto \subseteq Names /\ Placeholders \subseteq Nat \X Nat
    /\ Window \in Nat /\ MaxDay \in Nat /\ MaxRows \in Nat /\ MaxFaults \in Nat

VARIABLES backend,  \* TRACKER_STORE_BACKEND
          today,
          pc,       \* where the run of the day is
          store,    \* the rows
          pending,  \* the rows of a save whose insert is still to come
          created,  \* the last created_at
          scanned,  \* the day by which the check under way chose its rows
          quoted,   \* the assets the latest check had a close for
          faults    \* saves that read nothing, and rewrites cut off by a kill

vars == <<backend, today, pc, store, pending, created, scanned, quoted, faults>>

(* Operators named X_Mutant_<mistake> are not part of the specification:   *)
(* each is a plausible mistake in X that the runs must reject.             *)

Init == /\ backend \in {"jsonl", "bigquery"}
        /\ today = 0
        /\ pc = "idle"
        /\ store = {} /\ pending = {}
        /\ created = 0
        /\ scanned = 0
        /\ quoted = {}
        /\ faults = 0

(***************************************************************************)
(* _validate_rec (the ratio is rounded to three digits before it is        *)
(* compared), and the last recommendation per canonical asset.             *)
(***************************************************************************)
Reward(r) == IF r.dir = "LONG" THEN r.target - r.entry ELSE r.entry - r.target
Risk(r)   == IF r.dir = "LONG" THEN r.entry - r.stop ELSE r.stop - r.entry

ValidRec(r) ==
    /\ r.entry > 0 /\ r.target > 0 /\ r.stop > 0
    /\ Reward(r) > 0 /\ Risk(r) > 0
    /\ 10 * Reward(r) >= 8 * Risk(r)

(* Compares the names as spelled. *)
Accepted_Mutant_AsSpelled(report) ==
    {i \in 1..Len(report) :
        /\ ValidRec(report[i])
        /\ \A j \in (i + 1)..Len(report) :
              ValidRec(report[j]) => report[j].name # report[i].name}

Accepted(report) ==
    {i \in 1..Len(report) :
        /\ ValidRec(report[i])
        /\ \A j \in (i + 1)..Len(report) :
              ValidRec(report[j]) => Canon[report[j].name] # Canon[report[i].name]}

NewRows(report) ==
    {[created |-> created + i, rec |-> report[i], date |-> today, status |-> "OPEN",
      exit |-> NoQuote, exitDate |-> 0] : i \in Accepted(report)}

(***************************************************************************)
(* save_recommendations: the open rows of the day are replaced.            *)
(***************************************************************************)

(* Replaces the whole day. *)
Kept_Mutant_OtherDays(rows) == {r \in rows : r.date # today}

Kept(rows) == {r \in rows : ~ (r.date = today /\ r.status = "OPEN")}

(* Rewriting the file, when f faults have happened.  A kill between        *)
(* truncating and the last write leaves part of it (here: any part; what   *)
(* is left of a line, every later read skips, and a file cut inside a      *)
(* character reads as empty).                                              *)
Rewrite(rows, f, next) ==
    \/ store' = rows /\ pc' = next /\ faults' = f
    \/ /\ f < MaxFaults
       /\ store' \in SUBSET rows
       /\ pc' = "idle"
       /\ faults' = f + 1

(* A clean report on the local store.  A read that fails (OSError) is an   *)
(* empty store to the save, which writes the whole file anew.              *)
SaveLocal ==
    /\ pc = "idle" /\ backend = "jsonl"
    /\ \E report \in Reports :
          /\ created + Len(report) <= MaxRows
          /\ created' = created + Len(report)
          /\ \/ /\ Accepted(report) = {}
                /\ pc' = "check" /\ UNCHANGED <<store, faults>>
             \/ /\ Accepted(report) # {}
                /\ Rewrite(Kept(store) \union NewRows(report), faults, "check")
             \/ /\ Accepted(report) # {} /\ faults < MaxFaults
                /\ Rewrite(NewRows(report), faults + 1, "check")
    /\ UNCHANGED <<backend, today, pending, scanned, quoted>>

(* A clean report on BigQuery: the DELETE.  When it fails nothing is saved. *)
DeleteOpen ==
    /\ pc = "idle" /\ backend = "bigquery"
    /\ \E report \in Reports :
          /\ created + Len(report) <= MaxRows
          /\ created' = created + Len(report)
          /\ \/ /\ Accepted(report) # {}
                /\ store' = Kept(store)
                /\ pending' = NewRows(report)
                /\ pc' = "insert"
             \/ /\ pc' = "check"
                /\ UNCHANGED <<store, pending>>
    /\ UNCHANGED <<backend, today, scanned, quoted, faults>>

(* The insert, which reports rows it refused and is not repeated. *)
InsertRows ==
    /\ pc = "insert"
    /\ \E rows \in SUBSET pending : store' = store \union rows
    /\ pending' = {}
    /\ pc' = "check"
    /\ UNCHANGED <<backend, today, created, scanned, quoted, faults>>

(* A report that is not clean: nothing is saved. *)
SkipSave ==
    /\ pc = "idle"
    /\ pc' = "check"
    /\ UNCHANGED <<backend, today, store, pending, created, scanned, quoted, faults>>

(***************************************************************************)
(* check_and_update_positions.                                             *)
(***************************************************************************)

(* Tests a short position like a long one. *)
Outcome_Mutant_LongOnly(r, price) ==
    CASE price >= r.rec.target -> "HIT_TARGET"
      [] price <= r.rec.stop /\ price < r.rec.target -> "HIT_STOP"
      [] OTHER -> IF today - r.date >= Window THEN "EXPIRED" ELSE "OPEN"

Outcome(r, price) ==
    LET long == r.rec.dir = "LONG"
        hit  == IF long THEN price >= r.rec.target ELSE price <= r.rec.target
        stop == IF long THEN price <= r.rec.stop ELSE price >= r.rec.stop
    IN  CASE hit -> "HIT_TARGET"
          [] stop /\ ~ hit -> "HIT_STOP"
          [] OTHER -> IF today - r.date >= Window THEN "EXPIRED" ELSE "OPEN"

(* Open rows of the Window days before the day of the scan. *)
Scanned == {r \in store : r.status = "OPEN" /\ r.date >= scanned - Window}

(* The rows to check.  The query, or the read of the file, may fail: the   *)
(* check then finds nothing and ends.  Until it ends, nothing else writes. *)
ScanOpen ==
    /\ pc = "check"
    /\ \/ /\ scanned' = today
          /\ pc' = "quote"
       \/ /\ backend = "bigquery" /\ today > 0
          /\ scanned' = today - 1
          /\ pc' = "quote"
       \/ /\ pc' = "idle"
          /\ UNCHANGED scanned
    /\ quoted' = {}
    /\ UNCHANGED <<backend, today, store, pending, created, faults>>

Decided(quote) ==
    {r \in Scanned : /\ quote[r.rec.name] # NoQuote
                     /\ Outcome(r, quote[r.rec.name]) # "OPEN"}

Close(r, price) ==
    [r EXCEPT !.status = Outcome(r, price), !.exit = price, !.exitDate = today]

Closing(rows, quote) ==
    (store \ rows) \union {Close(r, quote[r.rec.name]) : r \in rows}

(* The closes are fetched, and the day is read again: it may be the next.  *)
(* The file is rewritten once; each UPDATE of BigQuery may fail by itself. *)
ClosePositions ==
    /\ pc = "quote"
    /\ \E quote \in [Names -> Quotes \union {NoQuote}] :
          /\ quoted' = {n \in Names : quote[n] # NoQuote}
          /\ \/ backend = "jsonl" /\ Decided(quote) # {}
                  /\ Rewrite(Closing(Decided(quote), quote), faults, "idle")
             \/ backend = "jsonl" /\ Decided(quote) = {}
                  /\ pc' = "idle" /\ UNCHANGED <<store, faults>>
             \/ backend = "bigquery"
                  /\ \E rows \in SUBSET Decided(quote) : store' = Closing(rows, quote)
                  /\ pc' = "idle" /\ UNCHANGED faults
    /\ scanned' = 0
    /\ UNCHANGED <<backend, today, pending, created>>

(***************************************************************************)
(* The calendar, and a run that dies.                                      *)
(***************************************************************************)

(* Fetching the closes may run over one midnight, never over two.          *)
NextDay ==
    /\ today < MaxDay
    /\ pc = "quote" => today <= scanned
    /\ today' = today + 1
    /\ UNCHANGED <<backend, pc, store, pending, created, scanned, quoted, faults>>

(* The run is killed, or save_recommendations raises (its callers do not   *)
(* guard it).                                                              *)
RunDies ==
    /\ pc # "idle"
    /\ pc' = "idle"
    /\ pending' = {}
    /\ scanned' = 0
    /\ quoted' = {}
    /\ UNCHANGED <<backend, today, store, created, faults>>

Next == \/ SaveLocal \/ DeleteOpen \/ InsertRows \/ SkipSave
        \/ ScanOpen \/ ClosePositions
        \/ NextDay \/ RunDies

Spec == Init /\ [][Next]_vars

(***************************************************************************)
(* load_previous_recs_block: of the last day before today, one row per     *)
(* asset and direction, an open one first, then the latest, and those      *)
(* rendered that look plausible.                                           *)
(***************************************************************************)

(* The first one instead of the latest. *)
Outranks_Mutant_Oldest(r, s) ==
    r.created < s.created

Outranks(r, s) ==
    \/ r.status = "OPEN" /\ s.status # "OPEN"
    \/ (r.status = "OPEN" <=> s.status = "OPEN") /\ r.created > s.created

SameKey(r, s) == Canon[r.rec.name] = Canon[s.rec.name] /\ r.rec.dir = s.rec.dir

LastDay(day) == {r \in store : /\ r.date < day
                               /\ \A s \in store : s.date < day => s.date <= r.date}

PreviousRecs(day) ==
    {r \in LastDay(day) : \A s \in LastDay(day) : SameKey(r, s) /\ s # r => Outranks(r, s)}

Gain(r, price) == IF r.rec.dir = "LONG" THEN price - r.rec.entry ELSE r.rec.entry - price

(* A move of more than this share, in percent, of the entry price. *)
MovedBy(r, price, percent) ==
    \/ 100 * Gain(r, price) > percent * r.rec.entry
    \/ 100 * Gain(r, price) < - percent * r.rec.entry

(* Left out of the block: dirt, and moves beyond belief at the row's age.  *)
(* (The tests for prices that are not positive or out of an asset's range  *)
(* are those a recommendation passed when it was saved.)                   *)
Omitted(r, price) ==
    /\ price # NoQuote
    /\ \/ r.rec.dir = "LONG" /\ \E p \in Placeholders : r.rec.entry = p[1] /\ price < p[2]
       \/ MovedBy(r, price, 1000)
       \/ r.rec.name \notin Crypto /\ today - r.date <= 2 /\ MovedBy(r, price, 35)
       \/ r.rec.name \in Crypto /\ today - r.date <= 1 /\ MovedBy(r, price, 55)

PreviousBlock(day, quote) ==
    {r \in PreviousRecs(day) : ~ Omitted(r, quote[r.rec.name])}

(***************************************************************************)
(* Properties.                                                             *)
(***************************************************************************)
TypeOK ==
    /\ backend \in {"jsonl", "bigquery"}
    /\ today \in 0..MaxDay
    /\ pc \in {"idle", "insert", "check", "quote"}
    /\ store \subseteq Row /\ pending \subseteq Row
    /\ created \in Nat /\ faults \in Nat /\ scanned \in 0..today
    /\ quoted \subseteq Names
    /\ \A r \in store \union pending : r.created <= created /\ r.date <= today
    /\ pending # {} => pc = "insert" /\ backend = "bigquery"

(* At most one open position per asset and day, under whatever names and   *)
(* directions a report and its re-runs list it, with inserts that fail.    *)
OneOpenPerAsset ==
    \A r, s \in store :
        /\ r.status = "OPEN" /\ s.status = "OPEN"
        /\ r.date = s.date /\ Canon[r.rec.name] = Canon[s.rec.name]
        => r = s

(* Results are history: re-runs of the day, failing back ends and kills    *)
(* keep them, but for a kill in the middle of a rewrite and a save whose   *)
(* read of the file failed.                                                *)
ClosedIsKept ==
    [][faults' = faults => {r \in store : r.status # "OPEN"} \subseteq store']_vars

(* A result means what the performance report makes of it: a target is a   *)
(* gain, a stop a loss, in both directions, and a position expires on the  *)
(* last day of the window, or on the day after when the check runs over    *)
(* midnight, between its stop and its target.                              *)
ResultsAgree ==
    \A r \in store :
        r.status # "OPEN" =>
            LET gain == Gain(r, r.exit)
                held == r.exitDate - r.date
            IN  /\ held \in 0..(Window + 1)
                /\ r.status = "HIT_TARGET" => gain >= Reward(r.rec) /\ gain > 0
                /\ r.status = "HIT_STOP" => gain <= - Risk(r.rec) /\ gain < 0
                /\ r.status = "EXPIRED" => /\ held >= Window
                                           /\ gain < Reward(r.rec) /\ gain > - Risk(r.rec)

(* The block of previous recommendations, whatever the closes: a position  *)
(* of its day that is still open is in it or its own close left it out,    *)
(* and no other row of its asset and direction stands in for it, although  *)
(* re-runs leave several.                                                  *)
PreviousShowsOpen ==
    \A day \in {today, today - 1} : \A r \in LastDay(day) : r.status = "OPEN" =>
        \A quote \in [Names -> Quotes \union {NoQuote}] :
            /\ r \in PreviousBlock(day, quote) \/ Omitted(r, quote[r.rec.name])
            /\ \A s \in PreviousBlock(day, quote) : SameKey(r, s) => s = r

(***************************************************************************)
(* What the documents say and the code does not do.                        *)
(***************************************************************************)

(* tracker.py:761 "EXPIRED >= 30 days": a check that has all the closes    *)
(* leaves no position open that is as old as the window.                   *)
OverdueExpires ==
    [][pc = "quote" /\ pc' = "idle" /\ quoted' = Names /\ backend = "jsonl" =>
          \A r \in store' : r.status = "OPEN" => today - r.date < Window]_vars
=============================================================================
