--------------------------- MODULE Tracker_proofs ---------------------------
(* Proofs about Tracker, for every window, every set of assets, closes and *)
(* reports, and both back ends.                                            *)
EXTENDS Tracker, TLAPS

(***************************************************************************)
(* One open position per asset and day.                                    *)
(***************************************************************************)

(* The rows that wait for their insert do not clash with one another nor   *)
(* with what the DELETE left.                                              *)
OpenInv ==
    /\ OneOpenPerAsset
    /\ \A r, s \in pending : Canon[r.rec.name] = Canon[s.rec.name] => r = s
    /\ \A r \in pending, s \in store : s.status = "OPEN" => s.date # r.date
    /\ backend = "jsonl" => pending = {}

(* Whatever a report lists, it yields one row per asset, all of today.     *)
LEMMA NewRowsDiffer ==
    ASSUME NEW report, Len(report) \in Nat
    PROVE  /\ \A r, s \in NewRows(report) : Canon[r.rec.name] = Canon[s.rec.name] => r = s
           /\ \A r \in NewRows(report) : r.date = today
<1>1. ASSUME NEW r \in NewRows(report), NEW s \in NewRows(report),
             Canon[r.rec.name] = Canon[s.rec.name]
      PROVE  r = s
  <2>1. PICK i \in Accepted(report) :
          r = [created |-> created + i, rec |-> report[i], date |-> today,
               status |-> "OPEN", exit |-> NoQuote, exitDate |-> 0]
    BY DEF NewRows
  <2>2. PICK j \in Accepted(report) :
          s = [created |-> created + j, rec |-> report[j], date |-> today,
               status |-> "OPEN", exit |-> NoQuote, exitDate |-> 0]
    BY DEF NewRows
  <2>3. Canon[report[i].name] = Canon[report[j].name]
    BY <1>1, <2>1, <2>2
  <2>4. /\ i \in Nat /\ j \in Nat /\ i <= Len(report) /\ j <= Len(report)
        /\ ValidRec(report[i]) /\ ValidRec(report[j])
    BY DEF Accepted
  <2>5. ~ (i < j)
    <3>1. i < j => j \in (i + 1)..Len(report)
      BY <2>4
    <3> QED
      BY <2>3, <2>4, <3>1 DEF Accepted
  <2>6. ~ (j < i)
    <3>1. j < i => i \in (j + 1)..Len(report)
      BY <2>4
    <3> QED
      BY <2>3, <2>4, <3>1 DEF Accepted
  <2>7. i = j
    BY <2>4, <2>5, <2>6
  <2> QED
    BY <2>1, <2>2, <2>7
<1>2. ASSUME NEW r \in NewRows(report) PROVE r.date = today
  <2>1. PICK i \in Accepted(report) :
          r = [created |-> created + i, rec |-> report[i], date |-> today,
               status |-> "OPEN", exit |-> NoQuote, exitDate |-> 0]
    BY DEF NewRows
  <2> QED
    BY <2>1
<1> QED
    BY <1>1, <1>2

(* Saving a report leaves one open row per asset and day.                  *)
LEMMA SavedIsOpenOnce ==
    ASSUME OneOpenPerAsset, NEW report, Len(report) \in Nat,
           store' \in SUBSET (Kept(store) \union NewRows(report))
    PROVE  OneOpenPerAsset'
<1> SUFFICES ASSUME NEW r \in store', NEW s \in store',
                    r.status = "OPEN", s.status = "OPEN",
                    r.date = s.date, Canon[r.rec.name] = Canon[s.rec.name]
             PROVE  r = s
    BY DEF OneOpenPerAsset
<1>1. /\ r \in Kept(store) \/ r \in NewRows(report)
      /\ s \in Kept(store) \/ s \in NewRows(report)
    OBVIOUS
<1>2. \A x \in Kept(store) : x \in store /\ (x.status = "OPEN" => x.date # today)
    BY DEF Kept
<1>3. CASE r \in Kept(store) /\ s \in Kept(store)
    BY <1>2, <1>3 DEF OneOpenPerAsset
<1>4. CASE r \in NewRows(report) /\ s \in NewRows(report)
    BY <1>4, NewRowsDiffer
<1>5. CASE r \in Kept(store) /\ s \in NewRows(report)
    BY <1>2, <1>5, NewRowsDiffer
<1>6. CASE r \in NewRows(report) /\ s \in Kept(store)
    BY <1>2, <1>6, NewRowsDiffer
<1> QED
    BY <1>1, <1>3, <1>4, <1>5, <1>6

(* A check only closes rows.                                               *)
LEMMA ClosingClosesOpen ==
    ASSUME NEW quote, NEW rows \in SUBSET Decided(quote)
    PROVE  /\ \A r \in Closing(rows, quote) : r.status = "OPEN" => r \in store
           /\ \A r \in store : r.status # "OPEN" => r \in Closing(rows, quote)
<1>1. \A r \in rows : /\ r \in store /\ r.status = "OPEN"
                      /\ Outcome(r, quote[r.rec.name]) # "OPEN"
    BY DEF Decided, Scanned
<1>2. \A r \in rows : Close(r, quote[r.rec.name]).status # "OPEN"
  <2> SUFFICES ASSUME NEW r \in rows
               PROVE  Close(r, quote[r.rec.name]).status # "OPEN"
      OBVIOUS
  <2>1. Outcome(r, quote[r.rec.name]) # "OPEN"
    BY <1>1
  <2> HIDE DEF Outcome
  <2> QED
    BY <2>1 DEF Close
<1> QED
    BY <1>1, <1>2 DEF Closing

LEMMA OpenInvStep ==
    ASSUME TrackerConstants, OpenInv, [Next]_vars
    PROVE  OpenInv'
<1>0. \A report \in Reports : Len(report) \in Nat
    BY DEF TrackerConstants
<1>1. CASE SaveLocal
  <2>1. backend' = backend /\ pending' = pending /\ pending = {}
    BY <1>1 DEF SaveLocal, OpenInv
  <2>2. PICK report \in Reports :
          \/ store' = store
          \/ store' \in SUBSET (Kept(store) \union NewRows(report))
    BY <1>1 DEF SaveLocal, Rewrite
  <2>3. OneOpenPerAsset'
    <3>1. CASE store' = store
      BY <3>1 DEF OpenInv, OneOpenPerAsset
    <3>2. CASE store' \in SUBSET (Kept(store) \union NewRows(report))
      BY <1>0, <3>2, SavedIsOpenOnce DEF OpenInv
    <3> QED
      BY <2>2, <3>1, <3>2
  <2> QED
    BY <2>1, <2>3 DEF OpenInv
<1>2. CASE DeleteOpen
  <2>1. backend = "bigquery" /\ backend' = backend
    BY <1>2 DEF DeleteOpen
  <2>2. CASE UNCHANGED <<store, pending>>
    BY <2>1, <2>2 DEF OpenInv, OneOpenPerAsset
  <2>3. CASE \E report \in Reports : store' = Kept(store) /\ pending' = NewRows(report)
    <3>1. PICK report \in Reports : store' = Kept(store) /\ pending' = NewRows(report)
      BY <2>3
    <3>2. Len(report) \in Nat
      BY <1>0
    <3>3. OneOpenPerAsset'
      BY <3>1, <3>2, SavedIsOpenOnce DEF OpenInv
    <3>4. \A r \in pending', s \in store' : s.status = "OPEN" => s.date # r.date
      BY <3>1, <3>2, NewRowsDiffer DEF Kept
    <3>5. \A r, s \in pending' : Canon[r.rec.name] = Canon[s.rec.name] => r = s
      BY <3>1, <3>2, NewRowsDiffer
    <3> QED
      BY <2>1, <3>3, <3>4, <3>5 DEF OpenInv
  <2> QED
    BY <1>2, <2>2, <2>3 DEF DeleteOpen
<1>3. CASE InsertRows
  <2>1. PICK rows \in SUBSET pending : store' = store \union rows
    BY <1>3 DEF InsertRows
  <2>2. pending' = {} /\ backend' = backend
    BY <1>3 DEF InsertRows
  <2>3. OneOpenPerAsset'
    <3> SUFFICES ASSUME NEW r \in store', NEW s \in store',
                        r.status = "OPEN", s.status = "OPEN",
                        r.date = s.date, Canon[r.rec.name] = Canon[s.rec.name]
                 PROVE  r = s
        BY DEF OneOpenPerAsset
    <3>1. CASE r \in store /\ s \in store
      BY <3>1 DEF OpenInv, OneOpenPerAsset
    <3>2. CASE r \in pending /\ s \in pending
      BY <3>2 DEF OpenInv
    <3>3. CASE r \in pending /\ s \in store
      BY <3>3 DEF OpenInv
    <3>4. CASE r \in store /\ s \in pending
      BY <3>4 DEF OpenInv
    <3> QED
      BY <2>1, <3>1, <3>2, <3>3, <3>4
  <2> QED
    BY <2>2, <2>3 DEF OpenInv
<1>4. CASE ClosePositions
  <2>1. \A r \in store' : r.status = "OPEN" => r \in store
    <3>1. PICK quote :
            \/ store' = store
            \/ \E rows \in SUBSET Decided(quote) :
                  store' \in SUBSET Closing(rows, quote)
      <4>1. PICK quote : \/ Rewrite(Closing(Decided(quote), quote), faults, "idle")
                         \/ UNCHANGED store
                         \/ \E rows \in SUBSET Decided(quote) :
                               store' = Closing(rows, quote)
        BY <1>4 DEF ClosePositions
      <4>2. CASE Rewrite(Closing(Decided(quote), quote), faults, "idle")
        BY <4>2 DEF Rewrite
      <4> QED
        BY <4>1, <4>2
    <3> QED
      BY <3>1, ClosingClosesOpen
  <2>2. backend' = backend /\ pending' = pending
    BY <1>4 DEF ClosePositions
  <2> QED
    BY <2>1, <2>2 DEF OpenInv, OneOpenPerAsset
<1>5. CASE SkipSave \/ ScanOpen \/ NextDay
    BY <1>5 DEF SkipSave, ScanOpen, NextDay, OpenInv, OneOpenPerAsset
<1>6. CASE RunDies
    BY <1>6 DEF RunDies, OpenInv, OneOpenPerAsset
<1>7. CASE UNCHANGED vars
    BY <1>7 DEF vars, OpenInv, OneOpenPerAsset
<1> QED
    BY <1>1, <1>2, <1>3, <1>4, <1>5, <1>6, <1>7 DEF Next

(* One open position per asset and day, whatever reports and re-runs list, *)
(* on both back ends, with failing inserts and torn rewrites.              *)
THEOREM OpenOnce == Spec => []OneOpenPerAsset
<1>1. Init => OpenInv
    BY DEF Init, OpenInv, OneOpenPerAsset
<1>2. OpenInv /\ [Next]_vars => OpenInv'
    BY TrackerConstants, OpenInvStep
<1>3. OpenInv => OneOpenPerAsset
    BY DEF OpenInv
<1> QED
    BY <1>1, <1>2, <1>3, PTL DEF Spec

(***************************************************************************)
(* Results are history.                                                    *)
(***************************************************************************)
FaultsAreNat == faults \in Nat

(* A rewrite that was not cut off wrote what it was given.                 *)
LEMMA UntornRewrite ==
    ASSUME NEW rows, NEW f \in Nat, NEW next, Rewrite(rows, f, next), faults' = f
    PROVE  store' = rows
BY DEF Rewrite

(* Results are kept by every step that is not a kill in a rewrite, for     *)
(* both back ends and any number of re-runs.                               *)
THEOREM ResultsAreKept == Spec => ClosedIsKept
<1>1. Init => FaultsAreNat
    BY DEF Init, FaultsAreNat
<1>2. FaultsAreNat /\ [Next]_vars => FaultsAreNat'
    BY DEF FaultsAreNat, Next, vars, SaveLocal, DeleteOpen, InsertRows, SkipSave,
           ScanOpen, ClosePositions, NextDay, RunDies, Rewrite
<1>3. FaultsAreNat /\ [Next]_vars =>
        [faults' = faults => {r \in store : r.status # "OPEN"} \subseteq store']_vars
  <2> SUFFICES ASSUME FaultsAreNat, Next, faults' = faults,
                      NEW r \in store, r.status # "OPEN"
               PROVE  r \in store'
      OBVIOUS
  <2> USE DEF FaultsAreNat
  <2>1. r \in Kept(store)
    BY DEF Kept
  <2>2. CASE SaveLocal
    <3>1. PICK report \in Reports :
            \/ store' = store
            \/ Rewrite(Kept(store) \union NewRows(report), faults, "check")
            \/ Rewrite(NewRows(report), faults + 1, "check")
      BY <2>2 DEF SaveLocal
    <3>2. ~ Rewrite(NewRows(report), faults + 1, "check")
      BY DEF Rewrite
    <3> QED
      BY <2>1, <3>1, <3>2, UntornRewrite
  <2>3. CASE DeleteOpen
    BY <2>1, <2>3 DEF DeleteOpen
  <2>4. CASE InsertRows
    BY <2>4 DEF InsertRows
  <2>5. CASE ClosePositions
    <3>1. PICK quote :
            \/ store' = store
            \/ \E rows \in SUBSET Decided(quote) : store' = Closing(rows, quote)
      <4>1. PICK quote : \/ Rewrite(Closing(Decided(quote), quote), faults, "idle")
                         \/ UNCHANGED store
                         \/ \E rows \in SUBSET Decided(quote) :
                               store' = Closing(rows, quote)
        BY <2>5 DEF ClosePositions
      <4> QED
        BY <4>1, UntornRewrite
    <3> QED
      BY <3>1, ClosingClosesOpen
  <2>6. CASE SkipSave \/ ScanOpen \/ NextDay \/ RunDies
    BY <2>6 DEF SkipSave, ScanOpen, NextDay, RunDies
  <2> QED
    BY <2>2, <2>3, <2>4, <2>5, <2>6 DEF Next
<1> QED
    BY <1>1, <1>2, <1>3, PTL DEF Spec, ClosedIsKept


(***************************************************************************)
(* Type correctness, and what the results mean.                            *)
(***************************************************************************)
(* A row has its shape and comes from a valid recommendation.              *)
Sound(r) ==
    /\ r \in Row
    /\ ValidRec(r.rec)
    /\ r.created <= created /\ r.date <= today

(* A row with a result was closed within its window, at a close that is    *)
(* where the result says.                                                  *)
Right(r) ==
    r.status # "OPEN" =>
        /\ r.exit \in Nat
        /\ r.exitDate - r.date \in 0..(Window + 1)
        /\ r.status = "HIT_TARGET" => Gain(r, r.exit) >= Reward(r.rec) /\ Gain(r, r.exit) > 0
        /\ r.status = "HIT_STOP" => Gain(r, r.exit) <= - Risk(r.rec) /\ Gain(r, r.exit) < 0
        /\ r.status = "EXPIRED" => /\ r.exitDate - r.date >= Window
                                   /\ Gain(r, r.exit) < Reward(r.rec) /\ Gain(r, r.exit) > - Risk(r.rec)

Control ==
    /\ backend \in {"jsonl", "bigquery"}
    /\ today \in 0..MaxDay
    /\ pc \in {"idle", "insert", "check", "quote"}
    /\ scanned \in 0..today
    /\ pc = "quote" => today <= scanned + 1
    /\ created \in Nat /\ faults \in Nat
    /\ quoted \subseteq Names
    /\ pending # {} => pc = "insert" /\ backend = "bigquery"

SoundInv ==
    /\ Control
    /\ \A r \in store \union pending : Sound(r) /\ Right(r)

LEMMA NewRowsSound ==
    ASSUME Control, NEW report \in Reports, created' = created + Len(report), today' = today
    PROVE  \A r \in NewRows(report) : Sound(r)' /\ Right(r)
<1> SUFFICES ASSUME NEW r \in NewRows(report)
             PROVE  Sound(r)' /\ Right(r)
    OBVIOUS
<1>1. PICK i \in Accepted(report) :
        r = [created |-> created + i, rec |-> report[i], date |-> today,
             status |-> "OPEN", exit |-> NoQuote, exitDate |-> 0]
    BY DEF NewRows
<1>2. report \in Seq(Rec)
    BY TrackerConstants
<1>3. i \in 1..Len(report) /\ ValidRec(report[i]) /\ report[i] \in Rec /\ Len(report) \in Nat
    BY <1>2 DEF Accepted
<1>4. created + i \in Nat /\ created + i <= created' /\ today \in Nat
    BY <1>3, TrackerConstants DEF Control
<1>5. r \in Row
    BY <1>1, <1>3, <1>4 DEF Row
<1>6. r.rec = report[i] /\ r.status = "OPEN" /\ r.created = created + i /\ r.date = today
    BY <1>1
<1>7. r.date <= today'
    BY <1>4, <1>6
<1> HIDE DEF ValidRec
<1> QED
    BY <1>3, <1>4, <1>5, <1>6, <1>7 DEF Sound, Right

LEMMA OldRowsSound ==
    ASSUME Control, NEW r, Sound(r), created' \in Nat, today' \in Nat,
           created <= created', today <= today'
    PROVE  Sound(r)'
<1>1. r.created \in Nat /\ r.date \in Nat /\ created \in Nat /\ today \in Nat
    BY TrackerConstants DEF Sound, Row, Control
<1>2. r.created <= created' /\ r.date <= today'
    BY <1>1 DEF Sound
<1> QED
    BY <1>2 DEF Sound

(* Closing a row at a close that decides it gives it the right result.     *)
LEMMA ClosedIsRight ==
    ASSUME Control, pc = "quote", NEW quote \in [Names -> Quotes \union {NoQuote}],
           NEW r \in Decided(quote), Sound(r)
    PROVE  Sound(Close(r, quote[r.rec.name])) /\ Right(Close(r, quote[r.rec.name]))
<1> DEFINE price == quote[r.rec.name]
           out == Outcome(r, price)
           c == Close(r, price)
<1>1. /\ r \in Row /\ r.status = "OPEN" /\ out # "OPEN"
      /\ r.date >= scanned - Window /\ r.date <= today /\ ValidRec(r.rec)
    BY DEF Decided, Scanned, Sound
<1>2. /\ r.date \in Nat /\ today \in Nat /\ Window \in Nat
      /\ r.rec \in Rec
    BY <1>1, TrackerConstants DEF Control, Row
<1>3. price \in Quotes /\ price \in Nat
    BY <1>2, TrackerConstants DEF Decided, Rec
<1>4. out \in Results
    BY <1>1 DEF Outcome, Results
<1>5. /\ c \in Row /\ c.rec = r.rec /\ c.date = r.date /\ c.created = r.created
      /\ c.status = out /\ c.exit = price /\ c.exitDate = today
    <2> HIDE DEF out, price
    <2>1. c = [r EXCEPT !.status = out, !.exit = price, !.exitDate = today]
      BY DEF Close, out
    <2> HIDE DEF c
    <2> QED
      BY <1>1, <1>2, <1>3, <1>4, <2>1 DEF Row
<1>6. /\ r.rec.entry \in Nat /\ r.rec.target \in Nat /\ r.rec.stop \in Nat
      /\ r.rec.dir \in Directions
      /\ Reward(r.rec) > 0 /\ Risk(r.rec) > 0
    BY <1>1, <1>2 DEF Rec, ValidRec
<1>7. today - r.date \in 0..(Window + 1)
  <2>1. scanned \in Nat /\ today <= scanned + 1
    BY <1>2 DEF Control
  <2> QED
    BY <1>1, <1>2, <2>1
<1> DEFINE gain == IF r.rec.dir = "LONG" THEN price - r.rec.entry ELSE r.rec.entry - price
<1>8. /\ out = "HIT_TARGET" => gain >= Reward(r.rec) /\ gain > 0
      /\ out = "HIT_STOP" => gain <= - Risk(r.rec) /\ gain < 0
      /\ out = "EXPIRED" => /\ today - r.date >= Window
                            /\ gain < Reward(r.rec) /\ gain > - Risk(r.rec)
    <2> HIDE DEF price
    <2>1. CASE r.rec.dir = "LONG"
      BY <1>2, <1>3, <1>6, <1>7, <2>1 DEF Outcome, Reward, Risk
    <2>2. CASE r.rec.dir = "SHORT"
      BY <1>2, <1>3, <1>6, <1>7, <2>2 DEF Outcome, Reward, Risk
    <2> QED
      BY <1>6, <2>1, <2>2 DEF Directions
<1>9. Gain(c, c.exit) = gain
    <2> HIDE DEF c, price
    <2> QED BY <1>5 DEF Gain
<1>10. Sound(c)
    <2> HIDE DEF c, price
    <2> QED BY <1>1, <1>5 DEF Sound
<1>11. Right(c)
    <2> HIDE DEF c, price, out, gain
    <2> QED BY <1>3, <1>5, <1>7, <1>8, <1>9 DEF Right
<1> QED
    BY <1>10, <1>11

LEMMA ClosingIsSound ==
    ASSUME SoundInv, pc = "quote", NEW quote \in [Names -> Quotes \union {NoQuote}],
           NEW rows \in SUBSET Decided(quote), NEW r \in Closing(rows, quote)
    PROVE  Sound(r) /\ Right(r)
<1>1. CASE r \in store
    BY <1>1 DEF SoundInv
<1>2. CASE \E s \in rows : r = Close(s, quote[s.rec.name])
  <2> PICK s \in rows : r = Close(s, quote[s.rec.name])
    BY <1>2
  <2>1. s \in Decided(quote) /\ Sound(s)
    BY DEF SoundInv, Decided, Scanned
  <2> QED
    BY <2>1, ClosedIsRight DEF SoundInv
<1> QED
    BY <1>1, <1>2 DEF Closing

LEMMA SoundStep ==
    ASSUME SoundInv, [Next]_vars
    PROVE  SoundInv'
<1> USE TrackerConstants
<1>1. CASE SaveLocal
  <2>1. PICK report \in Reports :
          /\ created' = created + Len(report)
          /\ \/ UNCHANGED <<store, faults>> /\ pc' = "check"
             \/ Rewrite(Kept(store) \union NewRows(report), faults, "check")
             \/ Rewrite(NewRows(report), faults + 1, "check")
    BY <1>1 DEF SaveLocal
  <2>2. /\ UNCHANGED <<backend, today, pending, scanned, quoted>>
        /\ pending = {} /\ Len(report) \in Nat
    BY <1>1 DEF SaveLocal, SoundInv, Control
  <2>3. Control'
    BY <2>1, <2>2 DEF SoundInv, Control, Rewrite
  <2>4. store' \subseteq store \union NewRows(report)
    BY <2>1 DEF Rewrite, Kept
  <2>5. \A r \in store : Sound(r)' /\ Right(r)
    BY <2>1, <2>2, OldRowsSound DEF SoundInv, Control
  <2>6. \A r \in NewRows(report) : Sound(r)' /\ Right(r)
    BY <2>1, <2>2, NewRowsSound DEF SoundInv
  <2> QED
    BY <2>2, <2>3, <2>4, <2>5, <2>6 DEF SoundInv, Right
<1>2. CASE DeleteOpen
  <2>1. PICK report \in Reports :
          /\ created' = created + Len(report)
          /\ store' \subseteq store
          /\ pending' \subseteq NewRows(report) \union pending
          /\ \/ pc' = "insert"
             \/ pc' = "check" /\ pending' = pending
    BY <1>2 DEF DeleteOpen, Kept
  <2>2. /\ UNCHANGED <<backend, today, scanned, quoted, faults>> /\ backend = "bigquery"
        /\ pending = {} /\ Len(report) \in Nat
    BY <1>2 DEF DeleteOpen, SoundInv, Control
  <2>3. Control'
    BY <2>1, <2>2 DEF SoundInv, Control
  <2>4. \A r \in store : Sound(r)' /\ Right(r)
    BY <2>1, <2>2, OldRowsSound DEF SoundInv, Control
  <2>5. \A r \in NewRows(report) : Sound(r)' /\ Right(r)
    BY <2>1, <2>2, NewRowsSound DEF SoundInv
  <2> QED
    BY <2>1, <2>2, <2>3, <2>4, <2>5 DEF SoundInv, Right
<1>3. CASE InsertRows
  <2>1. store' \subseteq store \union pending /\ pending' = {}
    BY <1>3 DEF InsertRows
  <2>2. Control' /\ created' = created /\ today' = today
    BY <1>3 DEF InsertRows, SoundInv, Control
  <2> QED
    BY <2>1, <2>2 DEF SoundInv, Sound, Right
<1>4. CASE ClosePositions
  <2>1. PICK quote \in [Names -> Quotes \union {NoQuote}] :
          /\ quoted' = {n \in Names : quote[n] # NoQuote}
          /\ pc' = "idle"
          /\ faults' \in {faults, faults + 1}
          /\ \/ store' = store
             \/ \E rows \in SUBSET Decided(quote) : store' \subseteq Closing(rows, quote)
    <3>1. PICK quote \in [Names -> Quotes \union {NoQuote}] :
            /\ quoted' = {n \in Names : quote[n] # NoQuote}
            /\ \/ Rewrite(Closing(Decided(quote), quote), faults, "idle")
               \/ UNCHANGED <<store, faults>> /\ pc' = "idle"
               \/ /\ \E rows \in SUBSET Decided(quote) : store' = Closing(rows, quote)
                  /\ pc' = "idle" /\ UNCHANGED faults
      BY <1>4 DEF ClosePositions
    <3>2. CASE Rewrite(Closing(Decided(quote), quote), faults, "idle")
      BY <3>1, <3>2 DEF Rewrite
    <3> QED
      BY <3>1, <3>2
  <2>2. /\ UNCHANGED <<backend, today, pending, created>> /\ scanned' = 0
        /\ pc = "quote"
    BY <1>4 DEF ClosePositions
  <2>3. Control'
    BY <2>1, <2>2 DEF SoundInv, Control
  <2>4. \A r \in store' : Sound(r) /\ Right(r)
    BY <2>1, <2>2, ClosingIsSound DEF SoundInv
  <2> QED
    BY <2>2, <2>3, <2>4 DEF SoundInv, Sound, Right
<1>5. CASE SkipSave \/ ScanOpen \/ RunDies
  <2>1. store' = store /\ pending' \subseteq pending /\ created' = created /\ today' = today
    BY <1>5 DEF SkipSave, ScanOpen, RunDies
  <2>2. Control'
    BY <1>5 DEF SkipSave, ScanOpen, RunDies, SoundInv, Control
  <2> QED
    BY <2>1, <2>2 DEF SoundInv, Sound, Right
<1>6. CASE NextDay
  <2>1. /\ UNCHANGED <<backend, pc, store, pending, created, scanned, quoted, faults>>
        /\ today' = today + 1 /\ (pc = "quote" => today <= scanned)
    BY <1>6 DEF NextDay
  <2>2. Control'
    BY <1>6 DEF NextDay, SoundInv, Control
  <2>3. \A r \in store \union pending : Sound(r)' /\ Right(r)
    BY <2>1, OldRowsSound DEF SoundInv, Control
  <2> QED
    BY <2>1, <2>2, <2>3 DEF SoundInv, Right
<1>7. CASE UNCHANGED vars
    BY <1>7 DEF vars, SoundInv, Control, Sound, Right
<1> QED
    BY <1>1, <1>2, <1>3, <1>4, <1>5, <1>6, <1>7 DEF Next

LEMMA SoundCorrect == Spec => []SoundInv
<1>1. Init => SoundInv
    BY TrackerConstants DEF Init, SoundInv, Control
<1>2. SoundInv /\ [Next]_vars => SoundInv'
    BY SoundStep
<1> QED
    BY <1>1, <1>2, PTL DEF Spec

(* Every row, saved or waiting for its insert, is a dated recommendation.  *)
THEOREM TrackerTyped == Spec => []TypeOK
<1>1. SoundInv => TypeOK
    BY DEF SoundInv, Control, Sound, TypeOK
<1> QED
    BY <1>1, SoundCorrect, PTL

(* Targets are gains, stops are losses, expiries lie between, in both      *)
(* directions, for every window and whatever days runs and re-runs fall on.*)
THEOREM ResultsMeanGains == Spec => []ResultsAgree
<1>1. SoundInv => ResultsAgree
    BY DEF SoundInv, Right, Gain, ResultsAgree
<1> QED
    BY <1>1, SoundCorrect, PTL

(* The block of previous recommendations never hides an open position      *)
(* behind another row of its asset, whatever the closes and whichever day  *)
(* is taken for today.                                                     *)
THEOREM PreviousIsComplete == Spec => []PreviousShowsOpen
<1>1. TypeOK /\ OneOpenPerAsset => PreviousShowsOpen
  <2> SUFFICES ASSUME TypeOK, OneOpenPerAsset,
                      NEW day \in {today, today - 1}, NEW r \in LastDay(day),
                      r.status = "OPEN", NEW quote \in [Names -> Quotes \union {NoQuote}]
               PROVE  /\ r \in PreviousBlock(day, quote) \/ Omitted(r, quote[r.rec.name])
                      /\ \A s \in PreviousBlock(day, quote) : SameKey(r, s) => s = r
    BY DEF PreviousShowsOpen
  <2>1. ASSUME NEW s \in LastDay(day), SameKey(r, s), s # r
        PROVE  Outranks(r, s) /\ ~ Outranks(s, r)
    <3>1. r \in store /\ s \in store /\ r.date <= s.date /\ s.date <= r.date
      BY DEF LastDay
    <3>2. r.date \in Nat /\ s.date \in Nat
      BY <3>1 DEF TypeOK, Row
    <3>3. s.status # "OPEN"
      BY <2>1, <3>1, <3>2 DEF OneOpenPerAsset, SameKey
    <3> QED
      BY <3>3 DEF Outranks
  <2>2. r \in PreviousRecs(day)
    BY <2>1 DEF PreviousRecs
  <2>3. ASSUME NEW s \in PreviousRecs(day), SameKey(r, s) PROVE s = r
    <3>1. s \in LastDay(day) /\ SameKey(s, r)
      BY <2>3 DEF PreviousRecs, SameKey
    <3>2. s # r => Outranks(s, r)
      BY <3>1 DEF PreviousRecs
    <3> QED
      BY <2>1, <2>3, <3>1, <3>2
  <2> QED
    BY <2>2, <2>3 DEF PreviousBlock
<1> QED
    BY <1>1, TrackerTyped, OpenOnce, PTL
=============================================================================
