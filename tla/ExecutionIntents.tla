-------------------------- MODULE ExecutionIntents --------------------------
(***************************************************************************)
(* The execution-intent store (execution_intents.py), its two HTTP writers *)
(* (api_routers/execution_intents.py), the research graph's append, and    *)
(* the paper worker (paper_execution.py).                                  *)
(*                                                                         *)
(* The store is one append-only JSONL file.  Nobody locks it: PATCH        *)
(* handlers run in the server's thread pool, a paper tick runs in the      *)
(* event loop or in a process of its own (scripts/paper_execution_tick.py) *)
(* and fetches a quote over the network for every intent between reading   *)
(* the file and appending to it.  A reader takes the whole file, so what   *)
(* it knows is the prefix of the log at that moment: the model keeps the   *)
(* prefix length, not a copy.                                              *)
(*                                                                         *)
(* An append is one buffered write of complete lines and is atomic here.   *)
(***************************************************************************)
EXTENDS Integers, Sequences

CONSTANTS GraphIds,    \* ids the pipeline derives from category, asset, direction, rank
          ManualIds,   \* ids of manual requests (uuid suffix: never used twice)
          Dir,         \* [Ids -> {"LONG", "SHORT"}]: the direction in the id
          Batches,     \* what one pipeline run may append: sequences of GraphIds
          Price,       \* prices, in ticks
          NoPrice,     \* a missing price (None)
          Refs,        \* reference prices a request body may carry
          Patchers,    \* PATCH requests in flight
          Tickers,     \* paper ticks in flight
          MaxRows      \* bound on the log, for model checking

Ids == GraphIds \union ManualIds

ClientStatuses == {"PENDING_REVIEW", "APPROVED_FOR_PAPER", "REJECTED", "SUPERSEDED"}
WorkerStatuses == {"PAPER_FILLED", "PAPER_CLOSED"}
Statuses       == ClientStatuses \union {"PAPER_SUBMITTED"} \union WorkerStatuses

PriceOrNone == Price \union {NoPrice}
RefPrices   == [entry : PriceOrNone, target : PriceOrNone, stop : PriceOrNone]
NoRefs      == [entry |-> NoPrice, target |-> NoPrice, stop |-> NoPrice]

Row == [id : Ids, status : Statuses, refs : RefPrices,
        fill : PriceOrNone, exit : PriceOrNone]

ASSUME ConstantsOK ==
    /\ GraphIds \cap ManualIds = {}
    /\ Dir \in [Ids -> {"LONG", "SHORT"}]
    /\ Batches \subseteq Seq(GraphIds)
    /\ Price \subseteq Nat
    /\ NoPrice \notin Price
    /\ Refs \subseteq RefPrices
    /\ MaxRows \in Nat

VARIABLES log,    \* the JSONL file: a sequence of rows
          patch,  \* [Patchers -> the request being served]
          tick    \* [Tickers -> the scan under way]

vars == <<log, patch, tick>>

(***************************************************************************)
(* Reading the log.                                                        *)
(***************************************************************************)

(* "Last JSONL line per signal_id wins": row i is the current row of id    *)
(* for a reader that saw the first n rows.                                 *)
IsLatest(id, n, i) ==
    /\ i \in 1..n
    /\ log[i].id = id
    /\ \A j \in (i + 1)..n : log[j].id # id

Known(id) == \E i \in 1..Len(log) : log[i].id = id

(* by_id is a dict: ids are scanned in the order of their first rows. *)
ComesNext(id, n, todo) ==
    \E i \in 1..n : /\ log[i].id = id
                    /\ \A j \in 1..(i - 1) : log[j].id \notin todo

(* Reference prices of the merged row: a price in the body overrides. *)
Prefer(new, old) == IF new # NoPrice THEN new ELSE old

Override(old, new) == [entry  |-> Prefer(new.entry, old.entry),
                       target |-> Prefer(new.target, old.target),
                       stop   |-> Prefer(new.stop, old.stop)]

NewIntent(id, refs) ==
    [id |-> id, status |-> "PENDING_REVIEW", refs |-> refs,
     fill |-> NoPrice, exit |-> NoPrice]

Room(n) == Len(log) + n <= MaxRows

IdlePatch == [at |-> 0]
IdleTick  == [at |-> 0, todo |-> {}]

Init == /\ log = << >>
        /\ patch = [p \in Patchers |-> IdlePatch]
        /\ tick = [t \in Tickers |-> IdleTick]

(***************************************************************************)
(* Operators named X_Mutant_<mistake> are not part of the specification:   *)
(* each is a plausible mistake in X that the runs must reject.             *)
(***************************************************************************)

(***************************************************************************)
(* The pipeline appends its proposals: deterministic ids, so a second run  *)
(* on the same asset appends a second fresh row for an id it used before.  *)
(***************************************************************************)
AppendIntents ==
    \E b \in Batches :
        /\ b # << >>
        /\ Room(Len(b))
        /\ log' = log \o [k \in 1..Len(b) |-> NewIntent(b[k], NoRefs)]
        /\ UNCHANGED <<patch, tick>>

(* POST /api/execution-intents: a manual intent, with reference prices. *)
CreateIntent ==
    \E id \in ManualIds, refs \in Refs :
        /\ ~ Known(id)
        /\ Room(1)
        /\ log' = Append(log, NewIntent(id, refs))
        /\ UNCHANGED <<patch, tick>>

(***************************************************************************)
(* PATCH, first half: read the file and find the intent.  The early        *)
(* returns (status not patchable, id unknown, status unchanged) write      *)
(* nothing and are stuttering steps.                                       *)
(***************************************************************************)
PatchRead(p, id, s, refs) ==
    /\ patch[p].at = 0
    /\ s \in ClientStatuses
    /\ \E i \in 1..Len(log) : /\ IsLatest(id, Len(log), i)
                              /\ log[i].status # s
    /\ patch' = [patch EXCEPT ![p] =
                    [at |-> Len(log), id |-> id, status |-> s, refs |-> refs]]
    /\ UNCHANGED <<log, tick>>

MergedRow(prev, req) ==
    [id |-> req.id, status |-> req.status, refs |-> Override(prev.refs, req.refs),
     fill |-> prev.fill, exit |-> prev.exit]

(* PATCH, second half: append the row merged from what was read. *)
PatchAppend(p) ==
    /\ patch[p].at # 0
    /\ Room(1)
    /\ \E i \in 1..patch[p].at :
          /\ IsLatest(patch[p].id, patch[p].at, i)
          /\ log' = Append(log, MergedRow(log[i], patch[p]))
    /\ patch' = [patch EXCEPT ![p] = IdlePatch]
    /\ UNCHANGED tick

(* The request dies with its server between the two halves. *)
PatchLost(p) ==
    /\ patch[p].at # 0
    /\ patch' = [patch EXCEPT ![p] = IdlePatch]
    /\ UNCHANGED <<log, tick>>

(***************************************************************************)
(* The paper tick.                                                         *)
(***************************************************************************)

(* The three triggers of a direction, worst outcome first. *)
StopHit(d, last, r)   == IF d = "LONG" THEN last <= r.stop   ELSE last >= r.stop
TargetHit(d, last, r) == IF d = "LONG" THEN last >= r.target ELSE last <= r.target
EntryHit(d, last, r)  == IF d = "LONG" THEN last >= r.entry  ELSE last <= r.entry

Complete(r) == NoPrice \notin {r.entry, r.target, r.stop}

Decision(status, price) == [status |-> status, price |-> price]
NoDecision == Decision("NONE", NoPrice)

(* Looks at the entry before the stop and the target. *)
DecidePaperTransition_Mutant_EntryFirst(d, last, r) ==
    IF ~ Complete(r) THEN NoDecision
    ELSE IF EntryHit(d, last, r) THEN Decision("PAPER_FILLED", last)
    ELSE IF StopHit(d, last, r) THEN Decision("PAPER_CLOSED", r.stop)
    ELSE IF TargetHit(d, last, r) THEN Decision("PAPER_CLOSED", r.target)
    ELSE NoDecision

(* New status and fill or exit price for a quote, or NoDecision to skip. *)
DecidePaperTransition(d, last, r) ==
    IF ~ Complete(r) THEN NoDecision
    ELSE IF StopHit(d, last, r) THEN Decision("PAPER_CLOSED", r.stop)
    ELSE IF TargetHit(d, last, r) THEN Decision("PAPER_CLOSED", r.target)
    ELSE IF EntryHit(d, last, r) THEN Decision("PAPER_FILLED", last)
    ELSE NoDecision

(* The row a tick builds from the intent it read and the decision it took. *)
PaperRow(prev, decision) ==
    [id |-> prev.id, status |-> decision.status, refs |-> prev.refs,
     fill |-> IF decision.status = "PAPER_FILLED" THEN decision.price ELSE NoPrice,
     exit |-> IF decision.status = "PAPER_CLOSED" THEN decision.price ELSE NoPrice]

(* Scans every active status, filled intents included. *)
TickStart_Mutant_Active(t) ==
    LET n == Len(log)
        activeIds == {id \in Ids : \E i \in 1..n :
                          /\ IsLatest(id, n, i)
                          /\ log[i].status \in {"APPROVED_FOR_PAPER", "PAPER_FILLED"}}
    IN  /\ tick[t] = IdleTick
        /\ activeIds # {}
        /\ tick' = [tick EXCEPT ![t] = [at |-> n, todo |-> activeIds]]
        /\ UNCHANGED <<log, patch>>

(* Scans every known intent, reviewed or not. *)
TickStart_Mutant_NoFilter(t) ==
    LET n == Len(log)
        knownIds == {id \in Ids : \E i \in 1..n : IsLatest(id, n, i)}
    IN  /\ tick[t] = IdleTick
        /\ knownIds # {}
        /\ tick' = [tick EXCEPT ![t] = [at |-> n, todo |-> knownIds]]
        /\ UNCHANGED <<log, patch>>

(* Stops after the first approved intent instead of going on to the next. *)
TickStart_Mutant_FirstOnly(t) ==
    LET n == Len(log)
        approvedIds == {id \in Ids : \E i \in 1..n :
                            IsLatest(id, n, i) /\ log[i].status = "APPROVED_FOR_PAPER"}
    IN  /\ tick[t] = IdleTick
        /\ approvedIds # {}
        /\ tick' = [tick EXCEPT ![t] =
                       [at |-> n, todo |-> {id \in approvedIds : ComesNext(id, n, approvedIds)}]]
        /\ UNCHANGED <<log, patch>>

(* A tick reads the file once and keeps the intents approved for paper. *)
TickStart(t) ==
    LET n == Len(log)
        approvedIds == {id \in Ids : \E i \in 1..n :
                            IsLatest(id, n, i) /\ log[i].status = "APPROVED_FOR_PAPER"}
    IN  /\ tick[t] = IdleTick
        /\ approvedIds # {}
        /\ tick' = [tick EXCEPT ![t] = [at |-> n, todo |-> approvedIds]]
        /\ UNCHANGED <<log, patch>>

(* The rest of the scan: the dict yields its next id, or the tick returns. *)
Advance(t, id) ==
    LET rest == tick[t].todo \ {id}
    IN  tick' = [tick EXCEPT ![t] = IF rest = {} THEN IdleTick
                                    ELSE [at |-> tick[t].at, todo |-> rest]]

(* One intent of the scan: no quote, or a quote that triggers nothing. *)
TickSkip(t, id) ==
    /\ id \in tick[t].todo
    /\ ComesNext(id, tick[t].at, tick[t].todo)
    /\ Advance(t, id)
    /\ UNCHANGED <<log, patch>>

(* One intent of the scan: the quote arrives and settles the intent as it *)
(* was when the tick began. *)
TickSettle(t, id) ==
    /\ id \in tick[t].todo
    /\ ComesNext(id, tick[t].at, tick[t].todo)
    /\ Room(1)
    /\ \E last \in Price, i \in 1..tick[t].at :
          /\ IsLatest(id, tick[t].at, i)
          /\ LET decision == DecidePaperTransition(Dir[id], last, log[i].refs)
             IN  /\ decision # NoDecision
                 /\ log' = Append(log, PaperRow(log[i], decision))
    /\ Advance(t, id)
    /\ UNCHANGED patch

(* The process running the tick is killed between two appends. *)
TickLost(t) ==
    /\ tick[t] # IdleTick
    /\ tick' = [tick EXCEPT ![t] = IdleTick]
    /\ UNCHANGED <<log, patch>>

PatchStep(p) ==
    \/ \E id \in Ids, s \in Statuses, refs \in Refs : PatchRead(p, id, s, refs)
    \/ PatchAppend(p)
    \/ PatchLost(p)

TickStep(t) ==
    \/ TickStart(t)
    \/ \E id \in Ids : TickSkip(t, id) \/ TickSettle(t, id)
    \/ TickLost(t)

Next == \/ AppendIntents
        \/ CreateIntent
        \/ \E p \in Patchers : PatchStep(p)
        \/ \E t \in Tickers : TickStep(t)

Spec == Init /\ [][Next]_vars

(* A tick that has begun goes on: it is one loop, and every quote request  *)
(* has a time-out.  Nobody owes a first step: reviewers need not answer,   *)
(* and no tick need ever be started on this log.  The endpoint is off by   *)
(* default and the scheduled workflow works on a checkout of its own.      *)
FairSpec ==
    /\ Spec
    /\ \A t \in Tickers : WF_vars(\E id \in Ids : TickSkip(t, id) \/ TickSettle(t, id))

(***************************************************************************)
(* Properties.                                                             *)
(***************************************************************************)

(* Every row, request and scan has its shape, and no reader has seen more *)
(* rows than there are. *)
TypeOK ==
    /\ log \in Seq(Row)
    /\ patch \in [Patchers ->
                     {IdlePatch} \union
                     [at : Nat \ {0}, id : Ids, status : ClientStatuses, refs : RefPrices]]
    /\ tick \in [Tickers -> [at : Nat, todo : SUBSET Ids]]
    /\ \A p \in Patchers : patch[p].at <= Len(log)
    /\ \A t \in Tickers : tick[t].at <= Len(log)

(* Whatever PATCHes and ticks interleave, a settled row (PAPER_FILLED or   *)
(* PAPER_CLOSED) goes back to an earlier approval of that intent by a      *)
(* reviewer with the same reference prices: nothing the worker simulates   *)
(* rests on prices nobody approved.                                        *)
SettledFromApproval ==
    \A k \in 1..Len(log) :
        log[k].status \in WorkerStatuses =>
            \E i \in 1..(k - 1) : /\ log[i].id = log[k].id
                                  /\ log[i].status = "APPROVED_FOR_PAPER"
                                  /\ log[i].refs = log[k].refs

(* Conservative settlement: a simulated fill never lies at or beyond the   *)
(* stop or the target the reviewer gave (a quote there closes instead),    *)
(* and never on the wrong side of the entry.                               *)
FillWithinReferences ==
    \A k \in 1..Len(log) :
        LET r == log[k] IN
        r.status = "PAPER_FILLED" =>
            /\ Complete(r.refs)
            /\ IF Dir[r.id] = "LONG"
               THEN r.refs.entry <= r.fill /\ r.refs.stop < r.fill /\ r.fill < r.refs.target
               ELSE r.fill <= r.refs.entry /\ r.fill < r.refs.stop /\ r.refs.target < r.fill

(* A fill or exit price on any row, also on one a reviewer wrote later by  *)
(* merging what it read, is a price some tick simulated for that intent,   *)
(* and a simulated fill is within the references of its row.               *)
PricesFromWorker ==
    /\ FillWithinReferences
    /\ \A k \in 1..Len(log) :
        /\ log[k].fill # NoPrice =>
             \E i \in 1..k : /\ log[i].id = log[k].id
                             /\ log[i].status = "PAPER_FILLED"
                             /\ log[i].fill = log[k].fill
        /\ log[k].exit # NoPrice =>
             \E i \in 1..k : /\ log[i].id = log[k].id
                             /\ log[i].status = "PAPER_CLOSED"
                             /\ log[i].exit = log[k].exit

(* Rows are never rewritten or removed: the log only grows. *)
AppendOnly ==
    [][/\ Len(log') >= Len(log)
       /\ \A i \in 1..Len(log) : log'[i] = log[i]]_log

(* One settlement per approval: between two settled rows of an intent      *)
(* there is a new approval.  It needs a single tick at a time on this log, *)
(* which the endpoint's lock gives within one server (the workflow's tick  *)
(* works on the log of its own checkout).                                  *)
OneSettlementPerApproval ==
    \A j, k \in 1..Len(log) :
        /\ j < k
        /\ log[j].id = log[k].id
        /\ {log[j].status, log[k].status} \subseteq WorkerStatuses
        => \E i \in (j + 1)..(k - 1) : /\ log[i].id = log[k].id
                                      /\ log[i].status = "APPROVED_FOR_PAPER"

(***************************************************************************)
(* The store implements the ledger: the blotter is the last row of each    *)
(* id, whatever readers and writers are doing in between.                  *)
(***************************************************************************)
BlotterStatus(id) ==
    IF \E i \in 1..Len(log) : IsLatest(id, Len(log), i)
    THEN log[CHOOSE i \in 1..Len(log) : IsLatest(id, Len(log), i)].status
    ELSE "NONE"

EverApproved ==
    {id \in Ids : \E i \in 1..Len(log) :
                     log[i].id = id /\ log[i].status = "APPROVED_FOR_PAPER"}

Ledger == INSTANCE IntentLedger
          WITH PaperStatuses <- WorkerStatuses,
               Pending <- "PENDING_REVIEW",
               Approved <- "APPROVED_FOR_PAPER",
               NoIntent <- "NONE",
               status <- [id \in Ids |-> BlotterStatus(id)],
               approved <- EverApproved

(* The log of unlocked writers behaves like a table with one status per *)
(* signal that only a reviewer's approval lets the worker settle.       *)
LedgerSpec == Ledger!Spec

(* Somebody keeps starting ticks on this log. *)
TicksKeepComing == []<>(\E t \in Tickers : tick[t] # IdleTick)

(* No approval is forgotten: as long as ticks keep being started on this   *)
(* log, an intent that stays approved is taken up by some scan, however    *)
(* often ticks are killed and whatever is ahead of it in the file.         *)
ApprovalsScanned ==
    TicksKeepComing =>
        \A id \in Ids :
            BlotterStatus(id) = "APPROVED_FOR_PAPER" ~>
                \/ \E t \in Tickers : id \in tick[t].todo
                \/ BlotterStatus(id) # "APPROVED_FOR_PAPER"

(***************************************************************************)
(* What the documents say and the code does not do.                        *)
(***************************************************************************)

(* paper_execution.py:76 "Scan latest APPROVED_FOR_PAPER intents": a tick  *)
(* settles an intent only while its current status is APPROVED_FOR_PAPER.  *)
SettlesOnlyApproved ==
    [][\A k \in (Len(log) + 1)..Len(log') :
          log'[k].status \in WorkerStatuses =>
              BlotterStatus(log'[k].id) = "APPROVED_FOR_PAPER"]_log
=============================================================================
