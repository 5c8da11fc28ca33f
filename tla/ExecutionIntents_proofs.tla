----------------------- MODULE ExecutionIntents_proofs -----------------------
(***************************************************************************)
(* Proofs about ExecutionIntents, for every set of ids, requests, ticks,   *)
(* prices and reference prices, and every bound on the log.                *)
(***************************************************************************)
EXTENDS ExecutionIntents, TLAPS, WellFoundedInduction

(***************************************************************************)
(* Lemmas about the log.                                                   *)
(***************************************************************************)

(* A quote settles an intent with a worker status and a price. *)
LEMMA DecisionType ==
    ASSUME NEW d, NEW last \in Price, NEW r \in RefPrices,
           DecidePaperTransition(d, last, r) # NoDecision
    PROVE  /\ DecidePaperTransition(d, last, r).status \in WorkerStatuses
           /\ DecidePaperTransition(d, last, r).price \in Price
  BY DEF DecidePaperTransition, NoDecision, Decision, WorkerStatuses, Complete, RefPrices, PriceOrNone

(* What a reader saw of a prefix does not change when the log grows. *)
LEMMA PrefixStable ==
    ASSUME NEW n \in Nat, n <= Len(log), NEW id, NEW i,
           \A j \in 1..Len(log) : log'[j] = log[j]
    PROVE  IsLatest(id, n, i)' <=> IsLatest(id, n, i)
  <1>1. \A j \in 1..n : log'[j] = log[j]
    OBVIOUS
  <1> QED BY <1>1 DEF IsLatest

(* One row is the current one. *)
LEMMA LatestUnique ==
    ASSUME NEW n \in Nat, NEW id, NEW i, NEW j,
           IsLatest(id, n, i), IsLatest(id, n, j)
    PROVE  i = j
  <1>1. i \in 1..n /\ j \in 1..n
    BY DEF IsLatest
  <1>2. ~ (i < j) /\ ~ (j < i)
    BY <1>1 DEF IsLatest
  <1> QED BY <1>1, <1>2

(***************************************************************************)
(* Type correctness.                                                       *)
(***************************************************************************)

LEMMA NewIntentType ==
    ASSUME NEW id \in Ids, NEW refs \in RefPrices
    PROVE  NewIntent(id, refs) \in Row
  BY DEF NewIntent, Row, Statuses, ClientStatuses, PriceOrNone

(* A batch of new intents, as rows. *)
LEMMA BatchType ==
    ASSUME NEW b \in Batches
    PROVE  /\ b \in Seq(GraphIds)
           /\ [k \in 1..Len(b) |-> NewIntent(b[k], NoRefs)] \in Seq(Row)
           /\ Len([k \in 1..Len(b) |-> NewIntent(b[k], NoRefs)]) = Len(b)
  <1>1. b \in Seq(GraphIds)
    BY ConstantsOK
  <1>2. NoRefs \in RefPrices
    BY DEF NoRefs, RefPrices, PriceOrNone
  <1>3. \A k \in 1..Len(b) : NewIntent(b[k], NoRefs) \in Row
    BY <1>1, <1>2, NewIntentType DEF Ids
  <1> QED BY <1>1, <1>3

LEMMA TypeCorrect == Spec => []TypeOK
  <1>1. Init => TypeOK
    BY DEF Init, TypeOK, IdlePatch, IdleTick
  <1>2. TypeOK /\ [Next]_vars => TypeOK'
    <2> SUFFICES ASSUME TypeOK, [Next]_vars
                 PROVE  TypeOK'
      OBVIOUS
    <2> USE DEF TypeOK, IdlePatch, IdleTick
    <2>1. CASE AppendIntents
      <3> PICK b \in Batches :
              /\ log' = log \o [k \in 1..Len(b) |-> NewIntent(b[k], NoRefs)]
              /\ UNCHANGED <<patch, tick>>
        BY <2>1 DEF AppendIntents
      <3>1. log' \in Seq(Row) /\ Len(log') >= Len(log)
        BY BatchType
      <3> QED BY <3>1
    <2>2. CASE CreateIntent
      <3> PICK id \in ManualIds, refs \in Refs :
              /\ log' = Append(log, NewIntent(id, refs))
              /\ UNCHANGED <<patch, tick>>
        BY <2>2 DEF CreateIntent
      <3>1. NewIntent(id, refs) \in Row
        BY ConstantsOK, NewIntentType DEF Ids
      <3> QED BY <3>1
    <2>3. ASSUME NEW p \in Patchers, NEW id \in Ids, NEW s \in Statuses,
                 NEW refs \in Refs, PatchRead(p, id, s, refs)
          PROVE  TypeOK'
      <3>1. Len(log) \in Nat \ {0}
        BY <2>3 DEF PatchRead
      <3>2. refs \in RefPrices
        BY ConstantsOK
      <3> QED BY <2>3, <3>1, <3>2 DEF PatchRead
    <2>4. ASSUME NEW p \in Patchers, PatchAppend(p)
          PROVE  TypeOK'
      <3> PICK i \in 1..patch[p].at : log' = Append(log, MergedRow(log[i], patch[p]))
        BY <2>4 DEF PatchAppend
      <3>1. i \in 1..Len(log) /\ log[i] \in Row
        OBVIOUS
      <3>2. patch[p] \in [at : Nat \ {0}, id : Ids, status : ClientStatuses, refs : RefPrices]
        BY <2>4 DEF PatchAppend
      <3>3. Override(log[i].refs, patch[p].refs) \in RefPrices
        BY <3>1, <3>2 DEF Override, Prefer, RefPrices, Row
      <3>4. MergedRow(log[i], patch[p]) \in Row
        BY <3>1, <3>2, <3>3 DEF MergedRow, Row, Statuses
      <3>5. log' \in Seq(Row) /\ Len(log') = Len(log) + 1
        BY <3>4
      <3>6. patch' = [patch EXCEPT ![p] = IdlePatch] /\ tick' = tick
        BY <2>4 DEF PatchAppend
      <3> QED BY <3>5, <3>6
    <2>5. ASSUME NEW p \in Patchers, PatchLost(p)
          PROVE  TypeOK'
      BY <2>5 DEF PatchLost
    <2>6. ASSUME NEW t \in Tickers, TickStart(t)
          PROVE  TypeOK'
      BY <2>6 DEF TickStart
    <2>7. ASSUME NEW t \in Tickers, NEW id \in Ids, TickSkip(t, id)
          PROVE  TypeOK'
      BY <2>7 DEF TickSkip, Advance
    <2>8. ASSUME NEW t \in Tickers, NEW id \in Ids, TickSettle(t, id)
          PROVE  TypeOK'
      <3> PICK last \in Price, i \in 1..tick[t].at :
              /\ DecidePaperTransition(Dir[id], last, log[i].refs) # NoDecision
              /\ log' = Append(log, PaperRow(log[i],
                                     DecidePaperTransition(Dir[id], last, log[i].refs)))
        BY <2>8 DEF TickSettle
      <3> DEFINE decision == DecidePaperTransition(Dir[id], last, log[i].refs)
      <3>1. i \in 1..Len(log) /\ log[i] \in Row
        OBVIOUS
      <3>2. decision.status \in WorkerStatuses /\ decision.price \in Price
        BY <3>1, DecisionType DEF Row
      <3>3. PaperRow(log[i], decision) \in Row
        BY <3>1, <3>2 DEF PaperRow, Row, Statuses, PriceOrNone
      <3>4. log' \in Seq(Row) /\ Len(log') = Len(log) + 1
        BY <3>3
      <3>5. patch' = patch
        BY <2>8 DEF TickSettle
      <3>6. tick' \in [Tickers -> [at : Nat, todo : SUBSET Ids]]
        BY <2>8 DEF TickSettle, Advance
      <3>7. \A u \in Tickers : tick'[u].at <= tick[u].at
        BY <2>8 DEF TickSettle, Advance
      <3> QED BY <3>4, <3>5, <3>6, <3>7
    <2>9. ASSUME NEW t \in Tickers, TickLost(t)
          PROVE  TypeOK'
      BY <2>9 DEF TickLost
    <2>10. CASE UNCHANGED vars
      BY <2>10 DEF vars
    <2> QED
      BY <2>1, <2>2, <2>3, <2>4, <2>5, <2>6, <2>7, <2>8, <2>9, <2>10
         DEF Next, PatchStep, TickStep
  <1> QED BY <1>1, <1>2, PTL DEF Spec

(***************************************************************************)
(* The log only grows.                                                     *)
(***************************************************************************)

Grows == /\ Len(log') >= Len(log)
         /\ \A i \in 1..Len(log) : log'[i] = log[i]

(* One appended row. *)
LEMMA AppendGrows ==
    ASSUME TypeOK, NEW r, log' = Append(log, r)
    PROVE  Grows /\ Len(log') = Len(log) + 1 /\ log'[Len(log) + 1] = r
  <1>1. log \in Seq(Row \union {r}) /\ r \in Row \union {r}
    BY DEF TypeOK
  <1> QED BY <1>1 DEF Grows

(* Every writer opens the file for append. *)
LEMMA StepGrows ==
    ASSUME TypeOK, [Next]_vars
    PROVE  Grows
  <1> USE DEF TypeOK, Grows
  <1>1. CASE AppendIntents
    <2> PICK b \in Batches : log' = log \o [k \in 1..Len(b) |-> NewIntent(b[k], NoRefs)]
      BY <1>1 DEF AppendIntents
    <2> QED BY BatchType
  <1>2. CASE CreateIntent
    BY <1>2 DEF CreateIntent
  <1>3. ASSUME NEW p \in Patchers, PatchStep(p)
        PROVE  Grows
    <2>1. CASE PatchAppend(p)
      BY <2>1, AppendGrows DEF PatchAppend
    <2>2. CASE log' = log
      BY <2>2
    <2> QED BY <1>3, <2>1, <2>2 DEF PatchStep, PatchRead, PatchLost
  <1>4. ASSUME NEW t \in Tickers, TickStep(t)
        PROVE  Grows
    <2>1. ASSUME NEW id \in Ids, TickSettle(t, id)
          PROVE  Grows
      BY <2>1, AppendGrows DEF TickSettle
    <2>2. CASE log' = log
      BY <2>2
    <2> QED BY <1>4, <2>1, <2>2 DEF TickStep, TickStart, TickSkip, TickLost
  <1>5. CASE UNCHANGED vars
    BY <1>5 DEF vars
  <1> QED BY <1>1, <1>2, <1>3, <1>4, <1>5 DEF Next

(* Rows are never rewritten or removed, for every number of writers. *)
THEOREM LogIsAppendOnly == Spec => AppendOnly
  <1>1. TypeOK /\ [Next]_vars => Grows
    BY StepGrows
  <1>2. Grows => [Grows]_log
    OBVIOUS
  <1> QED BY <1>1, <1>2, TypeCorrect, PTL DEF Spec, AppendOnly, Grows

(***************************************************************************)
(* Settled rows rest on approvals.  The inductive part: what a scan still  *)
(* has to do was approved in the prefix it read.                           *)
(***************************************************************************)

ScanApproved ==
    \A t \in Tickers : \A id \in tick[t].todo :
        \E i \in 1..tick[t].at : /\ IsLatest(id, tick[t].at, i)
                                /\ log[i].status = "APPROVED_FOR_PAPER"

(* A scan only works off what it read, or reads again.                     *)
LEMMA ScanMoves ==
    ASSUME TypeOK, [Next]_vars
    PROVE  \A u \in Tickers :
              \/ tick'[u].todo \subseteq tick[u].todo /\ tick'[u].at = tick[u].at
              \/ tick'[u].todo = {}
              \/ TickStart(u)
  <1> DEFINE Moves(u) ==
        \/ tick'[u].todo \subseteq tick[u].todo /\ tick'[u].at = tick[u].at
        \/ tick'[u].todo = {}
        \/ TickStart(u)
  <1> SUFFICES ASSUME NEW u \in Tickers PROVE Moves(u)
    OBVIOUS
  <1>1. CASE tick' = tick
    BY <1>1
  <1>2. ASSUME NEW t \in Tickers, TickStart(t)
        PROVE  Moves(u)
    BY <1>2 DEF TickStart, TypeOK
  <1>3. ASSUME NEW t \in Tickers, NEW id \in Ids, Advance(t, id)
        PROVE  Moves(u)
    BY <1>3 DEF Advance, TypeOK, IdleTick
  <1>4. ASSUME NEW t \in Tickers, TickLost(t)
        PROVE  Moves(u)
    BY <1>4 DEF TickLost, TypeOK, IdleTick
  <1> HIDE DEF Moves
  <1> QED BY <1>1, <1>2, <1>3, <1>4
          DEF Next, vars, AppendIntents, CreateIntent, PatchStep, PatchRead, PatchAppend,
              PatchLost, TickStep, TickSkip, TickSettle

(* Scans in progress keep their approvals while the log grows. *)
LEMMA ScanApprovedStep ==
    ASSUME TypeOK, TypeOK', ScanApproved, [Next]_vars
    PROVE  ScanApproved'
  <1> USE DEF TypeOK
  <1>1. Grows
    BY StepGrows
  <1>2. \A u \in Tickers :
           \/ tick'[u].todo \subseteq tick[u].todo /\ tick'[u].at = tick[u].at
           \/ tick'[u].todo = {}
           \/ TickStart(u)
    BY ScanMoves
  <1>3. ASSUME NEW u \in Tickers, NEW id \in tick'[u].todo
        PROVE  \E i \in 1..tick'[u].at : /\ IsLatest(id, tick[u].at, i)'
                                         /\ log'[i].status = "APPROVED_FOR_PAPER"
    <2>1. CASE tick'[u].todo \subseteq tick[u].todo /\ tick'[u].at = tick[u].at
      <3> PICK i \in 1..tick[u].at : /\ IsLatest(id, tick[u].at, i)
                                     /\ log[i].status = "APPROVED_FOR_PAPER"
        BY <2>1 DEF ScanApproved
      <3>1. tick[u].at \in Nat /\ tick[u].at <= Len(log)
        OBVIOUS
      <3>2. \A j \in 1..tick[u].at : log'[j] = log[j]
        BY <1>1, <3>1 DEF Grows
      <3>3. IsLatest(id, tick[u].at, i)'
        <4>1. log[i].id = id /\ \A j \in (i + 1)..tick[u].at : log[j].id # id
          BY DEF IsLatest
        <4>2. \A j \in (i + 1)..tick[u].at : j \in 1..tick[u].at
          BY <3>1
        <4>3. i \in 1..tick'[u].at /\ tick'[u].at = tick[u].at
          BY <2>1
        <4> QED BY <4>1, <4>2, <4>3, <3>2 DEF IsLatest
      <3>4. log'[i].status = "APPROVED_FOR_PAPER"
        BY <3>1, <3>2
      <3> QED BY <2>1, <3>3, <3>4
    <2>2. CASE TickStart(u)
      <3>1. log' = log /\ tick'[u].at = Len(log)
        BY <2>2 DEF TickStart
      <3>2. \E i \in 1..Len(log) : /\ IsLatest(id, Len(log), i)
                                    /\ log[i].status = "APPROVED_FOR_PAPER"
        BY <2>2 DEF TickStart
      <3> QED BY <3>1, <3>2 DEF IsLatest
    <2> QED BY <1>2, <2>1, <2>2
  <1> QED BY <1>3 DEF ScanApproved

(* The rows a step adds are intents, merged rows or settled rows; only the *)
(* last kind has a worker status.                                          *)
LEMMA SettledStep ==
    ASSUME TypeOK, ScanApproved, SettledFromApproval, [Next]_vars
    PROVE  SettledFromApproval'
  <1> USE DEF TypeOK
  <1>1. Grows
    BY StepGrows
  <1>2. SUFFICES ASSUME NEW k \in (Len(log) + 1)..Len(log'),
                        log'[k].status \in WorkerStatuses
                 PROVE  \E i \in 1..Len(log) : /\ log[i].id = log'[k].id
                                               /\ log[i].status = "APPROVED_FOR_PAPER"
                                               /\ log[i].refs = log'[k].refs
    <2> SUFFICES ASSUME NEW k \in 1..Len(log'), log'[k].status \in WorkerStatuses
                 PROVE  \E i \in 1..(k - 1) : /\ log'[i].id = log'[k].id
                                              /\ log'[i].status = "APPROVED_FOR_PAPER"
                                              /\ log'[i].refs = log'[k].refs
      BY DEF SettledFromApproval
    <2>1. CASE k \in 1..Len(log)
      <3>1. log'[k] = log[k]
        BY <1>1, <2>1 DEF Grows
      <3> PICK i \in 1..(k - 1) : /\ log[i].id = log[k].id
                                  /\ log[i].status = "APPROVED_FOR_PAPER"
                                  /\ log[i].refs = log[k].refs
        BY <2>1, <3>1 DEF SettledFromApproval
      <3>2. i \in 1..Len(log)
        BY <2>1
      <3>3. log'[i] = log[i]
        BY <1>1, <3>2 DEF Grows
      <3> QED BY <3>1, <3>3
    <2>2. CASE k \in (Len(log) + 1)..Len(log')
      <3> PICK i \in 1..Len(log) : /\ log[i].id = log'[k].id
                                   /\ log[i].status = "APPROVED_FOR_PAPER"
                                   /\ log[i].refs = log'[k].refs
        BY <1>2, <2>2
      <3>1. i \in 1..(k - 1)
        BY <2>2
      <3>2. log'[i] = log[i]
        BY <1>1 DEF Grows
      <3> QED BY <3>1, <3>2
    <2> QED BY <2>1, <2>2
  <1>3. CASE AppendIntents
    <2> PICK b \in Batches : log' = log \o [j \in 1..Len(b) |-> NewIntent(b[j], NoRefs)]
      BY <1>3 DEF AppendIntents
    <2>1. log'[k].status = "PENDING_REVIEW"
      BY BatchType DEF NewIntent
    <2> QED BY <2>1, <1>2 DEF WorkerStatuses
  <1>4. CASE CreateIntent
    BY <1>4, <1>2 DEF CreateIntent, NewIntent, WorkerStatuses
  <1>5. ASSUME NEW p \in Patchers, PatchStep(p)
        PROVE  log'[k].status \notin WorkerStatuses
    <2>1. CASE PatchAppend(p)
      <3>1. patch[p].status \in ClientStatuses
        BY <2>1 DEF PatchAppend, IdlePatch
      <3>2. log'[k].status = patch[p].status
        BY <2>1 DEF PatchAppend, MergedRow
      <3> QED BY <3>1, <3>2 DEF ClientStatuses, WorkerStatuses
    <2> QED BY <1>5, <2>1 DEF PatchStep, PatchRead, PatchLost
  <1>6. ASSUME NEW t \in Tickers, NEW id \in Ids, TickSettle(t, id)
        PROVE  \E i \in 1..Len(log) : /\ log[i].id = log'[k].id
                                      /\ log[i].status = "APPROVED_FOR_PAPER"
                                      /\ log[i].refs = log'[k].refs
    <2>1. tick[t].at \in Nat /\ tick[t].at <= Len(log)
      OBVIOUS
    <2> PICK i \in 1..tick[t].at :
            /\ IsLatest(id, tick[t].at, i)
            /\ \E d : log' = Append(log, PaperRow(log[i], d))
      BY <1>6 DEF TickSettle
    <2>2. log'[k].id = log[i].id /\ log'[k].refs = log[i].refs
      BY DEF PaperRow
    <2> PICK j \in 1..tick[t].at : /\ IsLatest(id, tick[t].at, j)
                                   /\ log[j].status = "APPROVED_FOR_PAPER"
      BY <1>6 DEF TickSettle, ScanApproved
    <2>3. i = j
      BY <2>1, LatestUnique
    <2> QED BY <2>1, <2>2, <2>3
  <1>7. ASSUME NEW t \in Tickers, TickStep(t), \A id \in Ids : ~ TickSettle(t, id)
        PROVE  FALSE
    BY <1>7, <1>2 DEF TickStep, TickStart, TickSkip, TickLost
  <1>8. CASE UNCHANGED vars
    BY <1>8, <1>2 DEF vars
  <1> QED BY <1>2, <1>3, <1>4, <1>5, <1>6, <1>7, <1>8 DEF Next

(* Nothing the worker simulates rests on prices no reviewer approved, for  *)
(* any number of concurrent PATCHes, ticks, pipeline runs and crashes.     *)
THEOREM SettledRestsOnApproval == Spec => []SettledFromApproval
  <1>1. Init => ScanApproved /\ SettledFromApproval
    BY DEF Init, IdleTick, ScanApproved, SettledFromApproval
  <1>2. /\ TypeOK /\ TypeOK' /\ ScanApproved /\ SettledFromApproval /\ [Next]_vars
        => ScanApproved' /\ SettledFromApproval'
    BY ScanApprovedStep, SettledStep
  <1> QED BY <1>1, <1>2, TypeCorrect, PTL DEF Spec
(***************************************************************************)
(* What a step adds to the log.                                            *)
(***************************************************************************)

(* A fresh intent, a row a reviewer merged from one that was read, or the  *)
(* settlement of one that was read.                                        *)
Added(row) ==
    \/ \E id \in Ids, refs \in RefPrices : row = NewIntent(id, refs)
    \/ \E p \in Patchers, i \in 1..Len(log) :
          /\ PatchAppend(p)
          /\ patch[p].id = log[i].id
          /\ patch[p].status \in ClientStatuses
          /\ row = MergedRow(log[i], patch[p])
    \/ \E t \in Tickers, id \in Ids, last \in Price : \E i \in 1..tick[t].at :
          /\ TickSettle(t, id)
          /\ IsLatest(id, tick[t].at, i)
          /\ DecidePaperTransition(Dir[id], last, log[i].refs) # NoDecision
          /\ row = PaperRow(log[i], DecidePaperTransition(Dir[id], last, log[i].refs))

LEMMA AddedRows ==
    ASSUME TypeOK, [Next]_vars, NEW k \in (Len(log) + 1)..Len(log')
    PROVE  Added(log'[k])
  <1> USE DEF TypeOK
  <1>1. CASE AppendIntents
    <2> PICK b \in Batches : log' = log \o [j \in 1..Len(b) |-> NewIntent(b[j], NoRefs)]
      BY <1>1 DEF AppendIntents
    <2>1. k - Len(log) \in 1..Len(b) /\ log'[k] = NewIntent(b[k - Len(log)], NoRefs)
      BY BatchType
    <2>2. b[k - Len(log)] \in Ids
      BY <2>1, BatchType DEF Ids
    <2>3. NoRefs \in RefPrices
      BY DEF NoRefs, RefPrices, PriceOrNone
    <2> QED BY <2>1, <2>2, <2>3 DEF Added
  <1>2. CASE CreateIntent
    <2> PICK id \in ManualIds, refs \in Refs : log' = Append(log, NewIntent(id, refs))
      BY <1>2 DEF CreateIntent
    <2>1. log'[k] = NewIntent(id, refs)
      BY AppendGrows
    <2>2. id \in Ids /\ refs \in RefPrices
      BY ConstantsOK DEF Ids
    <2> QED BY <2>1, <2>2 DEF Added
  <1>3. ASSUME NEW p \in Patchers, PatchAppend(p)
        PROVE  Added(log'[k])
    <2> PICK i \in 1..patch[p].at :
            /\ IsLatest(patch[p].id, patch[p].at, i)
            /\ log' = Append(log, MergedRow(log[i], patch[p]))
      BY <1>3 DEF PatchAppend
    <2>1. log'[k] = MergedRow(log[i], patch[p])
      BY AppendGrows
    <2>2. patch[p].status \in ClientStatuses
      BY <1>3 DEF PatchAppend, IdlePatch
    <2>3. i \in 1..Len(log) /\ patch[p].id = log[i].id
      <3>1. patch[p].at \in Nat /\ patch[p].at <= Len(log)
        BY <1>3 DEF PatchAppend, IdlePatch
      <3> QED BY <3>1 DEF IsLatest
    <2> QED BY <1>3, <2>1, <2>2, <2>3 DEF Added
  <1>4. ASSUME NEW t \in Tickers, NEW id \in Ids, TickSettle(t, id)
        PROVE  Added(log'[k])
    <2> PICK last \in Price, i \in 1..tick[t].at :
            /\ IsLatest(id, tick[t].at, i)
            /\ DecidePaperTransition(Dir[id], last, log[i].refs) # NoDecision
            /\ log' = Append(log, PaperRow(log[i],
                                   DecidePaperTransition(Dir[id], last, log[i].refs)))
      BY <1>4 DEF TickSettle
    <2>1. log'[k] = PaperRow(log[i], DecidePaperTransition(Dir[id], last, log[i].refs))
      BY AppendGrows
    <2> QED BY <1>4, <2>1 DEF Added
  <1>5. CASE log' = log
    BY <1>5
  <1> QED
    BY <1>1, <1>2, <1>3, <1>4, <1>5
       DEF Next, PatchStep, PatchRead, PatchLost, TickStep, TickStart, TickSkip, TickLost, vars

(***************************************************************************)
(* Prices.                                                                 *)
(***************************************************************************)

(* What PricesFromWorker says of one row, as the last of the log so far.   *)
RowPriced(rows, k) ==
    LET r == rows[k] IN
    /\ r.status = "PAPER_FILLED" =>
         /\ Complete(r.refs)
         /\ IF Dir[r.id] = "LONG"
            THEN r.refs.entry <= r.fill /\ r.refs.stop < r.fill /\ r.fill < r.refs.target
            ELSE r.fill <= r.refs.entry /\ r.fill < r.refs.stop /\ r.refs.target < r.fill
    /\ r.fill # NoPrice => \E i \in 1..k : /\ rows[i].id = r.id
                                           /\ rows[i].status = "PAPER_FILLED"
                                           /\ rows[i].fill = r.fill
    /\ r.exit # NoPrice => \E i \in 1..k : /\ rows[i].id = r.id
                                           /\ rows[i].status = "PAPER_CLOSED"
                                           /\ rows[i].exit = r.exit

LEMMA PricedRows == PricesFromWorker <=> \A k \in 1..Len(log) : RowPriced(log, k)
  BY DEF PricesFromWorker, FillWithinReferences, RowPriced

(* A simulated fill is on the right side of all three reference prices.    *)
LEMMA FillDecision ==
    ASSUME NEW d \in {"LONG", "SHORT"}, NEW last \in Price, NEW r \in RefPrices,
           DecidePaperTransition(d, last, r).status = "PAPER_FILLED"
    PROVE  /\ Complete(r)
           /\ DecidePaperTransition(d, last, r).price = last
           /\ IF d = "LONG" THEN r.entry <= last /\ r.stop < last /\ last < r.target
                            ELSE last <= r.entry /\ last < r.stop /\ r.target < last
  <1>1. Complete(r)
    BY DEF DecidePaperTransition, NoDecision, Decision
  <1>2. r.entry \in Nat /\ r.stop \in Nat /\ r.target \in Nat /\ last \in Nat
    BY <1>1, ConstantsOK DEF Complete, RefPrices, PriceOrNone
  <1>3. /\ EntryHit(d, last, r) /\ ~ StopHit(d, last, r) /\ ~ TargetHit(d, last, r)
        /\ DecidePaperTransition(d, last, r).price = last
    BY <1>1 DEF DecidePaperTransition, NoDecision, Decision
  <1>4. CASE d = "LONG"
    BY <1>1, <1>2, <1>3, <1>4 DEF EntryHit, StopHit, TargetHit
  <1>5. CASE d = "SHORT"
    BY <1>1, <1>2, <1>3, <1>5 DEF EntryHit, StopHit, TargetHit
  <1> QED BY <1>4, <1>5

(* Old rows keep their witnesses, a merged row has those of the row it     *)
(* was merged from, a settled row is its own.                              *)
LEMMA PricedStep ==
    ASSUME TypeOK, TypeOK', PricesFromWorker, [Next]_vars
    PROVE  PricesFromWorker'
  <1>1. /\ Len(log) \in Nat /\ Len(log') \in Nat /\ Len(log) <= Len(log')
        /\ \A i \in 1..Len(log) : log'[i] = log[i]
    BY StepGrows DEF Grows, TypeOK
  <1>2. SUFFICES ASSUME NEW k \in 1..Len(log')
                 PROVE  RowPriced(log', k)
    BY DEF PricesFromWorker, FillWithinReferences, RowPriced
  <1>3. ASSUME NEW j \in 1..Len(log)
        PROVE  RowPriced(log', j)
    <2>1. RowPriced(log, j) /\ log'[j] = log[j]
      BY <1>1, PricedRows
    <2>2. \A i \in 1..j : log'[i] = log[i]
      BY <1>1
    <2> QED BY <2>1, <2>2 DEF RowPriced
  <1>4. ASSUME k \in (Len(log) + 1)..Len(log')
        PROVE  RowPriced(log', k)
    <2>1. CASE \E id \in Ids, refs \in RefPrices : log'[k] = NewIntent(id, refs)
      BY <2>1 DEF RowPriced, NewIntent
    <2>2. CASE \E p \in Patchers, i \in 1..Len(log) :
                  /\ patch[p].id = log[i].id
                  /\ patch[p].status \in ClientStatuses
                  /\ log'[k] = MergedRow(log[i], patch[p])
      <3> PICK p \in Patchers, i \in 1..Len(log) :
                  /\ patch[p].id = log[i].id
                  /\ patch[p].status \in ClientStatuses
                  /\ log'[k] = MergedRow(log[i], patch[p])
        BY <2>2
      <3>1. /\ log'[k].id = log[i].id /\ log'[k].fill = log[i].fill
            /\ log'[k].exit = log[i].exit /\ log'[k].status # "PAPER_FILLED"
        BY DEF MergedRow, ClientStatuses
      <3>2. RowPriced(log', i) /\ log'[i] = log[i]
        BY <1>1, <1>3
      <3>3. \A j \in 1..i : j \in 1..k
        BY <1>1, <1>4
      <3> QED BY <3>1, <3>2, <3>3 DEF RowPriced
    <2>3. CASE \E t \in Tickers, id \in Ids, last \in Price : \E i \in 1..tick[t].at :
                  /\ IsLatest(id, tick[t].at, i)
                  /\ DecidePaperTransition(Dir[id], last, log[i].refs) # NoDecision
                  /\ log'[k] = PaperRow(log[i],
                                  DecidePaperTransition(Dir[id], last, log[i].refs))
      <3> PICK t \in Tickers, id \in Ids, last \in Price : \E i \in 1..tick[t].at :
                  /\ IsLatest(id, tick[t].at, i)
                  /\ DecidePaperTransition(Dir[id], last, log[i].refs) # NoDecision
                  /\ log'[k] = PaperRow(log[i],
                                  DecidePaperTransition(Dir[id], last, log[i].refs))
        BY <2>3
      <3> PICK i \in 1..tick[t].at :
                  /\ IsLatest(id, tick[t].at, i)
                  /\ DecidePaperTransition(Dir[id], last, log[i].refs) # NoDecision
                  /\ log'[k] = PaperRow(log[i],
                                  DecidePaperTransition(Dir[id], last, log[i].refs))
        OBVIOUS
      <3> DEFINE decision == DecidePaperTransition(Dir[id], last, log[i].refs)
      <3>1. log[i] \in Row /\ log[i].id = id
        BY DEF TypeOK, IsLatest
      <3>2. Dir[id] \in {"LONG", "SHORT"} /\ log[i].refs \in RefPrices
        BY <3>1, ConstantsOK DEF Row
      <3>3. decision.status \in WorkerStatuses
        BY <3>2, DecisionType
      <3>4. /\ log'[k].id = id /\ log'[k].refs = log[i].refs
            /\ log'[k].status = decision.status
            /\ log'[k].fill # NoPrice =>
                  decision.status = "PAPER_FILLED" /\ log'[k].fill = decision.price
            /\ decision.status = "PAPER_FILLED" => log'[k].fill = decision.price
            /\ log'[k].exit # NoPrice => decision.status = "PAPER_CLOSED"
        BY <3>1 DEF PaperRow
      <3>5. decision.status = "PAPER_FILLED" =>
                /\ Complete(log[i].refs)
                /\ decision.price = last
                /\ IF Dir[id] = "LONG"
                   THEN /\ log[i].refs.entry <= last /\ log[i].refs.stop < last
                        /\ last < log[i].refs.target
                   ELSE /\ last <= log[i].refs.entry /\ last < log[i].refs.stop
                        /\ log[i].refs.target < last
        BY <3>2, FillDecision
      <3>6. k \in 1..k
        BY <1>1
      <3> HIDE DEF decision
      <3> QED BY <3>4, <3>5, <3>6 DEF RowPriced
    <2> QED BY <1>4, <2>1, <2>2, <2>3, AddedRows DEF Added
  <1> QED BY <1>1, <1>3, <1>4

(* No fill or exit price on any row was made up: it is one the worker      *)
(* simulated for that intent, and a simulated fill never lies beyond the   *)
(* reviewer's stop or target.                                              *)
THEOREM PricesAreSimulated == Spec => []PricesFromWorker
  <1>1. Init => PricesFromWorker
    BY DEF Init, PricesFromWorker, FillWithinReferences
  <1>2. TypeOK /\ TypeOK' /\ PricesFromWorker /\ [Next]_vars => PricesFromWorker'
    BY PricedStep
  <1> QED BY <1>1, <1>2, TypeCorrect, PTL DEF Spec

(***************************************************************************)
(* One settlement per approval, with one tick at a time.                   *)
(***************************************************************************)
OneTicker == \A t, u \in Tickers : t = u

(* What a scan still has to do was approved in the prefix it read, and no  *)
(* row since then, read or not, settles it.                                *)
ScanFresh ==
    \A t \in Tickers : \A id \in tick[t].todo :
        \E i \in 1..tick[t].at :
            /\ log[i].id = id /\ log[i].status = "APPROVED_FOR_PAPER"
            /\ \A j \in (i + 1)..Len(log) : log[j].id = id => log[j].status \notin WorkerStatuses

(* A row that is added settles an intent only if the tick does, and then   *)
(* that intent is off its list.                                            *)
LEMMA AddedSettlement ==
    ASSUME OneTicker, TypeOK, [Next]_vars, NEW k \in (Len(log) + 1)..Len(log'),
           log'[k].status \in WorkerStatuses
    PROVE  /\ Len(log') = Len(log) + 1
           /\ \E t \in Tickers : /\ log'[k].id \in tick[t].todo
                                 /\ tick'[t].todo \subseteq tick[t].todo \ {log'[k].id}
  <1> USE DEF TypeOK
  <1>1. \A id \in Ids, refs \in RefPrices : log'[k] # NewIntent(id, refs)
    BY DEF NewIntent, WorkerStatuses
  <1>2. \A p \in Patchers, i \in 1..Len(log) :
            patch[p].status \in ClientStatuses => log'[k] # MergedRow(log[i], patch[p])
    BY DEF MergedRow, WorkerStatuses, ClientStatuses
  <1>3. PICK t \in Tickers, id \in Ids, last \in Price : \E i \in 1..tick[t].at :
            /\ TickSettle(t, id)
            /\ IsLatest(id, tick[t].at, i)
            /\ log'[k] = PaperRow(log[i], DecidePaperTransition(Dir[id], last, log[i].refs))
    <2> HIDE DEF TypeOK
    <2> DEFINE row == log'[k]
    <2>1. Added(row)
      BY AddedRows
    <2>2. /\ \A id \in Ids, refs \in RefPrices : row # NewIntent(id, refs)
          /\ \A p \in Patchers, i \in 1..Len(log) :
                patch[p].status \in ClientStatuses => row # MergedRow(log[i], patch[p])
      BY <1>1, <1>2
    <2> HIDE DEF row
    <2>3. \E t \in Tickers, id \in Ids, last \in Price : \E i \in 1..tick[t].at :
            /\ TickSettle(t, id)
            /\ IsLatest(id, tick[t].at, i)
            /\ row = PaperRow(log[i], DecidePaperTransition(Dir[id], last, log[i].refs))
      BY <2>1, <2>2, Zenon DEF Added
    <2> QED BY <2>3 DEF row
  <1>4. log'[k].id = id
    BY <1>3 DEF PaperRow, IsLatest
  <1>5. Len(log') = Len(log) + 1
    BY <1>3, AppendGrows DEF TickSettle
  <1>6. id \in tick[t].todo /\ tick'[t].todo \subseteq tick[t].todo \ {id}
    BY <1>3 DEF TickSettle, Advance, IdleTick
  <1> QED BY <1>4, <1>5, <1>6

(* Scans in progress stay fresh: the only tick that could settle what is   *)
(* on a list is the one whose list it is.                                  *)
LEMMA ScanFreshStep ==
    ASSUME OneTicker, TypeOK, TypeOK', ScanFresh, [Next]_vars
    PROVE  ScanFresh'
  <1>1. /\ Len(log) \in Nat /\ Len(log') \in Nat /\ Len(log) <= Len(log')
        /\ \A i \in 1..Len(log) : log'[i] = log[i]
    BY StepGrows DEF Grows, TypeOK
  <1>2. \A u \in Tickers :
           \/ tick'[u].todo \subseteq tick[u].todo /\ tick'[u].at = tick[u].at
           \/ tick'[u].todo = {}
           \/ TickStart(u)
    BY ScanMoves
  <1>3. SUFFICES ASSUME NEW u \in Tickers, NEW id \in tick'[u].todo
                 PROVE  \E i \in 1..tick'[u].at :
                           /\ log'[i].id = id /\ log'[i].status = "APPROVED_FOR_PAPER"
                           /\ \A j \in (i + 1)..Len(log') :
                                 log'[j].id = id => log'[j].status \notin WorkerStatuses
    BY DEF ScanFresh
  <1>4. CASE tick'[u].todo \subseteq tick[u].todo /\ tick'[u].at = tick[u].at
    <2> PICK i \in 1..tick[u].at :
            /\ log[i].id = id /\ log[i].status = "APPROVED_FOR_PAPER"
            /\ \A j \in (i + 1)..Len(log) : log[j].id = id => log[j].status \notin WorkerStatuses
      BY <1>4 DEF ScanFresh
    <2>1. i \in 1..Len(log) /\ log'[i] = log[i]
      <3>1. tick[u].at \in Nat /\ tick[u].at <= Len(log)
        BY DEF TypeOK
      <3> QED BY <3>1, <1>1
    <2>2. ASSUME NEW j \in (i + 1)..Len(log'), log'[j].id = id
          PROVE  log'[j].status \notin WorkerStatuses
      <3>1. CASE j \in 1..Len(log)
        BY <1>1, <2>1, <2>2, <3>1
      <3>2. CASE j \in (Len(log) + 1)..Len(log')
        <4> SUFFICES ASSUME log'[j].status \in WorkerStatuses PROVE FALSE
          OBVIOUS
        <4>1. PICK t \in Tickers : tick'[t].todo \subseteq tick[t].todo \ {log'[j].id}
          BY <3>2, AddedSettlement
        <4>2. t = u
          BY DEF OneTicker
        <4> QED BY <2>2, <4>1, <4>2
      <3> QED BY <1>1, <2>1, <3>1, <3>2
    <2> QED BY <1>4, <2>1, <2>2
  <1>5. CASE TickStart(u)
    <2>1. log' = log /\ tick'[u].at = Len(log)
      BY <1>5 DEF TickStart, TypeOK
    <2>2. PICK i \in 1..Len(log) : /\ IsLatest(id, Len(log), i)
                                   /\ log[i].status = "APPROVED_FOR_PAPER"
      BY <1>5 DEF TickStart, TypeOK
    <2> QED BY <2>1, <2>2 DEF IsLatest
  <1> QED BY <1>2, <1>4, <1>5

LEMMA SettlementStep ==
    ASSUME OneTicker, TypeOK, TypeOK', ScanFresh, OneSettlementPerApproval, [Next]_vars
    PROVE  OneSettlementPerApproval'
  <1>1. /\ Len(log) \in Nat /\ Len(log') \in Nat /\ Len(log) <= Len(log')
        /\ \A i \in 1..Len(log) : log'[i] = log[i]
    BY StepGrows DEF Grows, TypeOK
  <1>2. SUFFICES ASSUME NEW j \in 1..Len(log'), NEW k \in 1..Len(log'), j < k,
                        log'[j].id = log'[k].id,
                        log'[j].status \in WorkerStatuses, log'[k].status \in WorkerStatuses
                 PROVE  \E i \in (j + 1)..(k - 1) : /\ log'[i].id = log'[k].id
                                                    /\ log'[i].status = "APPROVED_FOR_PAPER"
    BY DEF OneSettlementPerApproval
  <1>3. CASE k \in 1..Len(log)
    <2>1. log'[j] = log[j] /\ log'[k] = log[k] /\ j \in 1..Len(log)
      BY <1>1, <1>2, <1>3
    <2> PICK i \in (j + 1)..(k - 1) : log[i].id = log[k].id /\ log[i].status = "APPROVED_FOR_PAPER"
      BY <1>2, <1>3, <2>1 DEF OneSettlementPerApproval
    <2>2. i \in 1..Len(log) /\ log'[i] = log[i]
      BY <1>1, <1>3
    <2> QED BY <2>1, <2>2
  <1>4. CASE k \in (Len(log) + 1)..Len(log')
    <2>1. /\ Len(log') = Len(log) + 1
          /\ \E t \in Tickers : log'[k].id \in tick[t].todo
      BY <1>2, <1>4, AddedSettlement
    <2>2. k = Len(log) + 1 /\ j \in 1..Len(log) /\ log'[j] = log[j]
      BY <1>1, <1>2, <1>4, <2>1
    <2> PICK t \in Tickers : log'[k].id \in tick[t].todo
      BY <2>1
    <2> PICK i \in 1..tick[t].at :
            /\ log[i].id = log'[k].id /\ log[i].status = "APPROVED_FOR_PAPER"
            /\ \A m \in (i + 1)..Len(log) :
                  log[m].id = log'[k].id => log[m].status \notin WorkerStatuses
      BY DEF ScanFresh
    <2>3. i \in 1..Len(log) /\ log'[i] = log[i]
      <3>1. tick[t].at \in Nat /\ tick[t].at <= Len(log)
        BY DEF TypeOK
      <3> QED BY <3>1, <1>1
    <2>4. i # j
      BY <1>2, <2>2 DEF WorkerStatuses
    <2>5. ~ (i < j)
      BY <1>2, <2>2, <2>3
    <2>6. i \in (j + 1)..(k - 1)
      BY <2>2, <2>3, <2>4, <2>5
    <2> QED BY <2>3, <2>6
  <1> QED BY <1>1, <1>3, <1>4

(* With one tick at a time, however many PATCHes and pipeline runs come in *)
(* between: no approval is settled twice.                                  *)
THEOREM ApprovalSettledOnce ==
    ASSUME OneTicker
    PROVE  Spec => []OneSettlementPerApproval
  <1>1. Init => ScanFresh /\ OneSettlementPerApproval
    BY DEF Init, IdleTick, ScanFresh, OneSettlementPerApproval
  <1>2. /\ TypeOK /\ TypeOK' /\ ScanFresh /\ OneSettlementPerApproval /\ [Next]_vars
        => ScanFresh' /\ OneSettlementPerApproval'
    BY OneTicker, ScanFreshStep, SettlementStep
  <1> QED BY <1>1, <1>2, TypeCorrect, PTL DEF Spec

(***************************************************************************)
(* The log implements the ledger.                                          *)
(***************************************************************************)

(* A non-empty set of naturals has a least element.                        *)
Below == OpToRel(<, Nat)

LEMMA LeastOf ==
    ASSUME NEW S, S \subseteq Nat, S # {}
    PROVE  \E x \in S : \A y \in S : ~ (y < x)
  <1>1. IsWellFoundedOn(Below, Nat)
    BY NatLessThanWellFounded, Zenon DEF Below
  <1>2. \E x \in S : \A y \in S : ~ (<<y, x>> \in Below)
    BY <1>1, WFMin
  <1>3. \A x, y \in Nat : <<y, x>> \in Below <=> y < x
    BY DEF Below, OpToRel
  <1> QED BY <1>2, <1>3

(* The last row of an id in a log, and the status a blotter shows for it.  *)
LastRow(l, id, i) ==
    /\ i \in 1..Len(l)
    /\ l[i].id = id
    /\ \A j \in (i + 1)..Len(l) : l[j].id # id

StatusIn(l, id) ==
    IF \E i \in 1..Len(l) : LastRow(l, id, i)
    THEN l[CHOOSE i \in 1..Len(l) : LastRow(l, id, i)].status
    ELSE "NONE"

LEMMA BlotterIsStatusIn ==
    ASSUME NEW id
    PROVE  /\ BlotterStatus(id) = StatusIn(log, id)
           /\ BlotterStatus(id)' = StatusIn(log', id)
  BY DEF BlotterStatus, StatusIn, LastRow, IsLatest

(* The least element principle, upside down: an id with a row has a last   *)
(* one, and that is the row the blotter shows.                             *)
LEMMA LastRowExists ==
    ASSUME NEW l \in Seq(Row), NEW id, NEW k \in 1..Len(l), l[k].id = id
    PROVE  \E i \in k..Len(l) : LastRow(l, id, i)
  <1>1. Len(l) \in Nat
    OBVIOUS
  <1> DEFINE Behind == {Len(l) - i : i \in {m \in 1..Len(l) : l[m].id = id}}
  <1>2. Behind \subseteq Nat /\ Len(l) - k \in Behind
    BY <1>1
  <1>3. PICK x \in Behind : \A y \in Behind : ~ (y < x)
    <2> HIDE DEF Behind
    <2> QED BY <1>2, LeastOf
  <1>4. PICK i \in 1..Len(l) : l[i].id = id /\ x = Len(l) - i
    OBVIOUS
  <1>5. \A j \in (i + 1)..Len(l) : l[j].id # id
    <2> SUFFICES ASSUME NEW j \in (i + 1)..Len(l), l[j].id = id
                 PROVE  FALSE
      OBVIOUS
    <2>1. j \in 1..Len(l) /\ Len(l) - j \in Behind
      BY <1>1, <1>4
    <2>2. Len(l) - j < x
      BY <1>1, <1>4
    <2> QED BY <1>3, <2>1, <2>2
  <1>6. i >= k
    <2>1. ~ (Len(l) - k < x)
      BY <1>2, <1>3
    <2> QED BY <1>1, <1>4, <2>1
  <1> QED BY <1>1, <1>4, <1>5, <1>6 DEF LastRow

LEMMA StatusOfLastRow ==
    ASSUME NEW l \in Seq(Row), NEW id, NEW i \in 1..Len(l), LastRow(l, id, i)
    PROVE  StatusIn(l, id) = l[i].status
  <1>1. ASSUME NEW j \in 1..Len(l), LastRow(l, id, j)
        PROVE  j = i
    <2>1. ~ (i < j) /\ ~ (j < i)
      BY <1>1 DEF LastRow
    <2> QED BY <2>1
  <1> QED BY <1>1 DEF StatusIn

LEMMA StatusOfNoRow ==
    ASSUME NEW l, NEW id, \A i \in 1..Len(l) : l[i].id # id
    PROVE  StatusIn(l, id) = "NONE"
  BY DEF StatusIn, LastRow

(* What a step that only adds rows does to the blotter of an id.           *)
LEMMA BlotterStep ==
    ASSUME TypeOK, TypeOK', Grows, NEW id
    PROVE  /\ \/ \A k \in (Len(log) + 1)..Len(log') : log'[k].id # id
              \/ \E k \in (Len(log) + 1)..Len(log') :
                    log'[k].id = id /\ BlotterStatus(id)' = log'[k].status
           /\ (\A k \in (Len(log) + 1)..Len(log') : log'[k].id # id)
                 => BlotterStatus(id)' = BlotterStatus(id)
  <1>1. /\ log \in Seq(Row) /\ log' \in Seq(Row)
        /\ Len(log) \in Nat /\ Len(log') \in Nat /\ Len(log) <= Len(log')
        /\ \A i \in 1..Len(log) : log'[i] = log[i]
    BY DEF Grows, TypeOK
  <1>2. ASSUME NEW k \in (Len(log) + 1)..Len(log'), log'[k].id = id
        PROVE  \E j \in (Len(log) + 1)..Len(log') :
                  log'[j].id = id /\ BlotterStatus(id)' = log'[j].status
    <2>1. k \in 1..Len(log')
      BY <1>1
    <2> PICK j \in k..Len(log') : LastRow(log', id, j)
      BY <1>1, <1>2, <2>1, LastRowExists
    <2>2. j \in 1..Len(log') /\ j \in (Len(log) + 1)..Len(log') /\ log'[j].id = id
      BY <1>1 DEF LastRow
    <2> QED BY <1>1, <2>2, StatusOfLastRow, BlotterIsStatusIn
  <1>3. ASSUME \A k \in (Len(log) + 1)..Len(log') : log'[k].id # id
        PROVE  BlotterStatus(id)' = BlotterStatus(id)
    <2>1. CASE \E k \in 1..Len(log) : log[k].id = id
      <3> PICK k \in 1..Len(log) : log[k].id = id
        BY <2>1
      <3> PICK i \in k..Len(log) : LastRow(log, id, i)
        BY <1>1, LastRowExists
      <3>1. i \in 1..Len(log) /\ i \in 1..Len(log') /\ log'[i] = log[i]
        BY <1>1
      <3>2. LastRow(log', id, i)
        <4> SUFFICES ASSUME NEW j \in (i + 1)..Len(log')
                     PROVE  log'[j].id # id
          BY <3>1 DEF LastRow
        <4>1. CASE j \in 1..Len(log)
          BY <1>1, <3>1, <4>1 DEF LastRow
        <4>2. CASE j \in (Len(log) + 1)..Len(log')
          BY <1>3, <4>2
        <4> QED BY <1>1, <3>1, <4>1, <4>2
      <3> QED BY <1>1, <3>1, <3>2, StatusOfLastRow, BlotterIsStatusIn
    <2>2. CASE \A k \in 1..Len(log) : log[k].id # id
      <3>1. \A k \in 1..Len(log') : log'[k].id # id
        BY <1>1, <1>3, <2>2
      <3> QED BY <2>2, <3>1, StatusOfNoRow, BlotterIsStatusIn
    <2> QED BY <2>1, <2>2
  <1> QED BY <1>2, <1>3

(* What a step adds to the ids that were approved once.                    *)
LEMMA ApprovedStep ==
    ASSUME TypeOK, TypeOK', Grows
    PROVE  EverApproved' = EverApproved \union
             {id \in Ids : \E k \in (Len(log) + 1)..Len(log') :
                              log'[k].id = id /\ log'[k].status = "APPROVED_FOR_PAPER"}
  <1>1. /\ Len(log) \in Nat /\ Len(log') \in Nat /\ Len(log) <= Len(log')
        /\ \A i \in 1..Len(log) : log'[i] = log[i]
    BY DEF Grows, TypeOK
  <1>2. \A i : i \in 1..Len(log') <=> i \in 1..Len(log) \/ i \in (Len(log) + 1)..Len(log')
    BY <1>1
  <1> QED BY <1>1, <1>2 DEF EverApproved

(* The ledger's blotter and approvals, as the log shows them.              *)
Blotter == [id \in Ids |-> BlotterStatus(id)]

(* One row more: one status moves.                                         *)
LEMMA OneRowMoves ==
    ASSUME TypeOK, TypeOK', NEW r, log' = Append(log, r)
    PROVE  /\ r.id \in Ids
           /\ Blotter' = [Blotter EXCEPT ![r.id] = r.status]
           /\ EverApproved' = IF r.status = "APPROVED_FOR_PAPER"
                              THEN EverApproved \union {r.id} ELSE EverApproved
  <1>1. Grows /\ Len(log') = Len(log) + 1 /\ log'[Len(log) + 1] = r /\ Len(log) \in Nat
    BY AppendGrows DEF TypeOK
  <1>2. \A k : k \in (Len(log) + 1)..Len(log') <=> k = Len(log) + 1
    BY <1>1
  <1>3. r.id \in Ids
    <2>1. Len(log) + 1 \in 1..Len(log') /\ log' \in Seq(Row)
      BY <1>1 DEF TypeOK
    <2> QED BY <1>1, <2>1 DEF Row
  <1>4. \A id \in Ids : BlotterStatus(id)' = IF id = r.id THEN r.status ELSE BlotterStatus(id)
    BY <1>1, <1>2, BlotterStep
  <1>5. EverApproved' = EverApproved \union
            {id \in Ids : r.id = id /\ r.status = "APPROVED_FOR_PAPER"}
    BY <1>1, <1>2, ApprovedStep
  <1> QED BY <1>3, <1>4, <1>5 DEF Blotter

(* Fresh rows, one or many: the signals are announced.                     *)
LEMMA FreshRowsAnnounce ==
    ASSUME TypeOK, TypeOK', Grows,
           \A k \in (Len(log) + 1)..Len(log') : log'[k].status = "PENDING_REVIEW"
    PROVE  Ledger!Announce
  <1> DEFINE S == {id \in Ids : \E k \in (Len(log) + 1)..Len(log') : log'[k].id = id}
  <1>1. Blotter' = [id \in Ids |-> IF id \in S THEN "PENDING_REVIEW" ELSE Blotter[id]]
    <2>1. \A id \in Ids :
             BlotterStatus(id)' = IF id \in S THEN "PENDING_REVIEW" ELSE BlotterStatus(id)
      BY BlotterStep
    <2> QED BY <2>1 DEF Blotter
  <1>2. EverApproved' = EverApproved
    BY ApprovedStep
  <1>3. S \in SUBSET Ids
    OBVIOUS
  <1> HIDE DEF S
  <1> QED BY <1>1, <1>2, <1>3 DEF Ledger!Announce, Blotter

LEMMA LedgerStep ==
    ASSUME TypeOK, TypeOK', ScanApproved, [Next]_vars
    PROVE  [Ledger!Next]_<<Blotter, EverApproved>>
  <1>1. CASE AppendIntents
    <2> PICK b \in Batches : log' = log \o [j \in 1..Len(b) |-> NewIntent(b[j], NoRefs)]
      BY <1>1 DEF AppendIntents
    <2>1. \A k \in (Len(log) + 1)..Len(log') : log'[k].status = "PENDING_REVIEW"
      BY BatchType DEF NewIntent, TypeOK
    <2> QED BY <2>1, FreshRowsAnnounce, StepGrows DEF Ledger!Next
  <1>2. CASE CreateIntent
    <2> PICK id \in ManualIds, refs \in Refs : log' = Append(log, NewIntent(id, refs))
      BY <1>2 DEF CreateIntent
    <2>1. \A k \in (Len(log) + 1)..Len(log') : log'[k].status = "PENDING_REVIEW"
      BY AppendGrows DEF NewIntent, TypeOK
    <2> QED BY <2>1, FreshRowsAnnounce, StepGrows DEF Ledger!Next
  <1>3. ASSUME NEW p \in Patchers, PatchAppend(p)
        PROVE  Ledger!Next
    <2> DEFINE id == patch[p].id
    <2> PICK i \in 1..patch[p].at :
            /\ IsLatest(id, patch[p].at, i)
            /\ log' = Append(log, MergedRow(log[i], patch[p]))
      BY <1>3 DEF PatchAppend
    <2>1. patch[p].status \in ClientStatuses /\ patch[p].at \in Nat /\ patch[p].at <= Len(log)
      BY <1>3 DEF PatchAppend, IdlePatch, TypeOK
    <2>2. MergedRow(log[i], patch[p]).id = id /\ MergedRow(log[i], patch[p]).status = patch[p].status
      BY DEF MergedRow
    <2>3. /\ id \in Ids
          /\ Blotter' = [Blotter EXCEPT ![id] = patch[p].status]
          /\ EverApproved' = IF patch[p].status = "APPROVED_FOR_PAPER"
                             THEN EverApproved \union {id} ELSE EverApproved
      BY <2>2, OneRowMoves
    <2>4. Blotter[id] # "NONE"
      <3>1. i \in 1..Len(log) /\ log[i].id = id /\ log \in Seq(Row) /\ Len(log) \in Nat
        BY <2>1 DEF IsLatest, TypeOK
      <3> PICK j \in i..Len(log) : LastRow(log, id, j)
        BY <3>1, LastRowExists
      <3>2. j \in 1..Len(log) /\ log[j] \in Row
        BY <3>1
      <3>3. BlotterStatus(id) = log[j].status
        BY <3>1, <3>2, StatusOfLastRow, BlotterIsStatusIn
      <3> QED BY <2>3, <3>2, <3>3 DEF Blotter, Row, Statuses, ClientStatuses, WorkerStatuses
    <2>5. Ledger!Review(id)
      BY <2>1, <2>3, <2>4 DEF Ledger!Review, Blotter
    <2> QED BY <2>3, <2>5 DEF Ledger!Next
  <1>4. ASSUME NEW t \in Tickers, NEW id \in Ids, TickSettle(t, id)
        PROVE  Ledger!Next
    <2> PICK last \in Price, i \in 1..tick[t].at :
            /\ IsLatest(id, tick[t].at, i)
            /\ DecidePaperTransition(Dir[id], last, log[i].refs) # NoDecision
            /\ log' = Append(log, PaperRow(log[i],
                                   DecidePaperTransition(Dir[id], last, log[i].refs)))
      BY <1>4 DEF TickSettle
    <2> DEFINE decision == DecidePaperTransition(Dir[id], last, log[i].refs)
    <2>1. tick[t].at \in Nat /\ tick[t].at <= Len(log) /\ log \in Seq(Row)
      BY DEF TypeOK
    <2>2. decision.status \in WorkerStatuses
      <3>1. log[i] \in Row
        BY <2>1
      <3> QED BY <3>1, DecisionType DEF Row
    <2>3. PaperRow(log[i], decision).id = id
          /\ PaperRow(log[i], decision).status = decision.status
      BY DEF PaperRow, IsLatest
    <2>4. /\ Blotter' = [Blotter EXCEPT ![id] = decision.status]
          /\ EverApproved' = EverApproved
      <3> HIDE DEF decision
      <3> QED BY <2>2, <2>3, OneRowMoves DEF WorkerStatuses, decision
    <2>5. id \in EverApproved
      <3> PICK j \in 1..tick[t].at : /\ IsLatest(id, tick[t].at, j)
                                     /\ log[j].status = "APPROVED_FOR_PAPER"
        BY <1>4 DEF TickSettle, ScanApproved
      <3> QED BY <2>1 DEF IsLatest, EverApproved
    <2>6. Ledger!Settle(id)
      <3> HIDE DEF decision
      <3> QED BY <2>2, <2>4, <2>5 DEF Ledger!Settle, Blotter
    <2> QED BY <2>6 DEF Ledger!Next
  <1>5. CASE log' = log
    BY <1>5 DEF Blotter, EverApproved, BlotterStatus, IsLatest
  <1> QED BY <1>1, <1>2, <1>3, <1>4, <1>5
          DEF Next, vars, PatchStep, PatchRead, PatchLost,
              TickStep, TickStart, TickSkip, TickLost

(* The log of writers that do not lock implements the ledger: one status   *)
(* per signal, announced by the pipeline, moved by a reviewer, and settled *)
(* by the worker only for a signal some reviewer approved.                 *)
THEOREM LedgerImplemented == Spec => LedgerSpec
  <1>1. Init => Ledger!Init
    BY DEF Init, Ledger!Init, BlotterStatus, EverApproved
  <1>2. TypeOK /\ TypeOK' /\ ScanApproved /\ [Next]_vars => [Ledger!Next]_Ledger!ledgerVars
    BY LedgerStep DEF Ledger!ledgerVars, Blotter
  <1>3. Init => ScanApproved
    BY DEF Init, IdleTick, ScanApproved
  <1>4. TypeOK /\ TypeOK' /\ ScanApproved /\ [Next]_vars => ScanApproved'
    BY ScanApprovedStep
  <1> QED BY <1>1, <1>2, <1>3, <1>4, TypeCorrect, PTL DEF Spec, LedgerSpec, Ledger!Spec
=============================================================================
