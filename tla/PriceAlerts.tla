----------------------------- MODULE PriceAlerts -----------------------------
(***************************************************************************)
(* Price alerts (price_alerts.py, api_routers/price_alerts.py and the      *)
(* inline script of push-digest-tick.yml).  The alerts are one JSONL file. *)
(* Users add and delete alerts, sweeps fetch a quote per alert, mark the   *)
(* alerts that were hit and notify.  Every change loads the whole file,    *)
(* changes a row and replaces the file; nothing is locked, and the API's   *)
(* handlers run on a thread pool.  The scheduled tick is a workflow: it    *)
(* sweeps the file of a fresh checkout, and commits nothing.               *)
(*                                                                         *)
(* A file is the function from the ids it lists to whether triggered_at  *)
(* is set.  The order of its rows, last_price, last_checked_at and error   *)
(* are left out.                                                           *)
(***************************************************************************)
EXTENDS Integers

CONSTANTS Ids,        \* uuids, each given out once
          Alert,      \* [Ids -> what a user asked for under the id]
          Prices,     \* quotes
          ApiSweeps,  \* POST /api/push/price-alerts/check
          TickSweeps, \* the scheduled tick
          Users,      \* POST and DELETE /api/push/price-alerts
          Committed,  \* the alerts in the repository's copy of the file (it is ignored)
          NoId,
          MaxSent     \* bound, for model checking

Sweeps   == ApiSweeps \union TickSweeps
Procs    == Sweeps \union Users
File     == UNION {[S -> BOOLEAN] : S \in SUBSET Ids}

ASSUME PriceAlertsConstants ==
    /\ Alert \in [Ids -> [direction : {"above", "below"}, target : Nat]]
    /\ Prices \subseteq Nat
    /\ NoId \notin Ids /\ Committed \subseteq Ids
    /\ ApiSweeps \intersect TickSweeps = {} /\ Sweeps \intersect Users = {}
    /\ MaxSent \in Nat

VARIABLES file,   \* price_alerts.jsonl on the server
          checkout, \* and where each tick runs
          pc,     \* what each process does next
          rows,   \* the file as a process last loaded it
          cur,    \* the alert it works on
          todo,   \* the alerts a sweep still has to look at
          hit,    \* did the quote of cur cross its target
          \* what happened so far
          taken, added, deleted, sent, raced, overlapped

local   == <<rows, cur, todo, hit>>
history == <<taken, added, deleted, sent>>
vars    == <<file, checkout, pc, local, history, raced, overlapped>>

(* Operators named X_Mutant_<mistake> are not part of the specification:   *)
(* each is a plausible mistake in X that the runs must reject.             *)

Empty == [i \in {} |-> FALSE]

Init == /\ file = Empty
        /\ checkout = [t \in TickSweeps |-> Empty]
        /\ pc = [p \in Procs |-> "idle"]
        /\ rows = [p \in Procs |-> Empty]
        /\ cur = [p \in Procs |-> NoId]
        /\ todo = [s \in Sweeps |-> {}]
        /\ hit = [s \in Sweeps |-> FALSE]
        /\ taken = {} /\ added = {} /\ deleted = {}
        /\ sent = [i \in Ids |-> 0]
        /\ raced = FALSE /\ overlapped = FALSE

(* The file that load_alerts and save_alerts of a process work on. *)
Seen(p) == IF p \in TickSweeps THEN checkout[p] ELSE file

(* rows = load_alerts(): the process goes on to change row i of the file.  *)
Load(p, i, next) ==
    /\ rows' = [rows EXCEPT ![p] = Seen(p)]
    /\ cur' = [cur EXCEPT ![p] = i]
    /\ pc' = [pc EXCEPT ![p] = next]

(* save_alerts(rows) replaces the file in one step (os.replace), whatever  *)
(* became of it since it was loaded.                                       *)
Save(p, new) ==
    /\ \/ /\ p \in TickSweeps
          /\ checkout' = [checkout EXCEPT ![p] = new]
          /\ UNCHANGED file
       \/ /\ p \notin TickSweeps
          /\ file' = new
          /\ UNCHANGED checkout
    /\ raced' = (raced \/ Seen(p) # rows[p])
    /\ rows' = [rows EXCEPT ![p] = Empty]

(***************************************************************************)
(* Users.                                                                  *)
(***************************************************************************)
AddLoad(u) ==
    /\ pc[u] = "idle"
    /\ \E i \in Ids \ taken : Load(u, i, "add") /\ taken' = taken \union {i}
    /\ UNCHANGED <<file, checkout, todo, hit, added, deleted, sent, raced, overlapped>>

AddSave(u) ==
    /\ pc[u] = "add"
    /\ Save(u, [i \in DOMAIN rows[u] \union {cur[u]} |->
                  i # cur[u] /\ rows[u][i]])
    /\ added' = added \union {cur[u]}
    /\ pc' = [pc EXCEPT ![u] = "idle"]
    /\ cur' = [cur EXCEPT ![u] = NoId]
    /\ UNCHANGED <<todo, hit, taken, deleted, sent, overlapped>>

(* Deletes an alert that was listed; one that is gone is a 404.            *)
DeleteLoad(u) ==
    /\ pc[u] = "idle"
    /\ \E i \in DOMAIN file : Load(u, i, "delete")
    /\ UNCHANGED <<file, checkout, todo, hit, history, raced, overlapped>>

(* Says ok and writes the file as it was. *)
DeleteSave_Mutant_Kept(u) ==
    /\ pc[u] = "delete"
    /\ Save(u, rows[u])
    /\ deleted' = deleted \union {cur[u]}
    /\ pc' = [pc EXCEPT ![u] = "idle"]
    /\ cur' = [cur EXCEPT ![u] = NoId]
    /\ UNCHANGED <<todo, hit, taken, added, sent, overlapped>>

DeleteSave(u) ==
    /\ pc[u] = "delete"
    /\ Save(u, [i \in DOMAIN rows[u] \ {cur[u]} |-> rows[u][i]])
    /\ deleted' = deleted \union {cur[u]}
    /\ pc' = [pc EXCEPT ![u] = "idle"]
    /\ cur' = [cur EXCEPT ![u] = NoId]
    /\ UNCHANGED <<todo, hit, taken, added, sent, overlapped>>

(***************************************************************************)
(* Sweeps: check_price_alerts and the tick's loop.                         *)
(***************************************************************************)
Active(s) == pc[s] # "idle"

(* The tick starts from the repository's copy, in which nothing is marked. *)
CheckedOut == [i \in Committed |-> FALSE]

(* Looks at every alert, those already triggered included. *)
Pending_Mutant_All(rs) == DOMAIN rs

Pending(rs) == {i \in DOMAIN rs : ~ rs[i]}

SweepStart(s) ==
    /\ pc[s] = "idle"
    /\ \/ /\ s \in TickSweeps
          /\ checkout' = [checkout EXCEPT ![s] = CheckedOut]
          /\ todo' = [todo EXCEPT ![s] = Pending(CheckedOut)]
          /\ UNCHANGED overlapped
       \/ /\ s \in ApiSweeps
          /\ todo' = [todo EXCEPT ![s] = Pending(file)]
          /\ overlapped' = (overlapped \/ \E t \in ApiSweeps \ {s} : Active(t))
          /\ UNCHANGED checkout
    /\ pc' = [pc EXCEPT ![s] = "sweep"]
    /\ UNCHANGED <<file, rows, cur, hit, history, raced>>

Triggered(i, price) ==
    IF Alert[i].direction = "above" THEN price >= Alert[i].target
                                    ELSE price <= Alert[i].target

(* fetch_symbol_quote; without a quote the alert is marked as not hit.     *)
Quote(s) ==
    /\ pc[s] = "sweep"
    /\ \E i \in todo[s] :
          /\ cur' = [cur EXCEPT ![s] = i]
          /\ todo' = [todo EXCEPT ![s] = @ \ {i}]
          /\ \/ \E price \in Prices : hit' = [hit EXCEPT ![s] = Triggered(i, price)]
             \/ hit' = [hit EXCEPT ![s] = FALSE]
    /\ pc' = [pc EXCEPT ![s] = "load"]
    /\ UNCHANGED <<file, checkout, rows, history, raced, overlapped>>

(* mark_checked loads the file again; of an alert deleted meanwhile the    *)
(* API says nothing.                                                       *)
MarkLoad(s) ==
    /\ pc[s] = "load"
    /\ \/ cur[s] \in DOMAIN Seen(s) /\ Load(s, cur[s], "save")
       \/ /\ cur[s] \notin DOMAIN Seen(s)
          /\ pc' = [pc EXCEPT ![s] = "sweep"]
          /\ UNCHANGED <<rows, cur>>
    /\ UNCHANGED <<file, checkout, todo, hit, history, raced, overlapped>>

(* Sets triggered_at from this quote alone. *)
MarkSave_Mutant_Overwrites(s) ==
    /\ pc[s] = "save"
    /\ Save(s, [rows[s] EXCEPT ![cur[s]] = hit[s]])
    /\ pc' = [pc EXCEPT ![s] = IF hit[s] THEN "notify" ELSE "sweep"]
    /\ UNCHANGED <<cur, todo, hit, history, overlapped>>

(* triggered_at is set once and kept.                                      *)
MarkSave(s) ==
    /\ pc[s] = "save"
    /\ Save(s, [rows[s] EXCEPT ![cur[s]] = @ \/ hit[s]])
    /\ pc' = [pc EXCEPT ![s] = IF hit[s] THEN "notify" ELSE "sweep"]
    /\ UNCHANGED <<cur, todo, hit, history, overlapped>>

(* Push, Telegram and the SSE queue (of the tick, Telegram alone) in one    *)
(* step.  A channel may be switched off or fail, and nothing is retried:    *)
(* the message is then lost.                                                *)
Notify(s) ==
    /\ pc[s] = "notify"
    /\ \/ /\ sent[cur[s]] < MaxSent
          /\ sent' = [sent EXCEPT ![cur[s]] = @ + 1]
       \/ UNCHANGED sent
    /\ pc' = [pc EXCEPT ![s] = "sweep"]
    /\ UNCHANGED <<file, checkout, local, taken, added, deleted, raced, overlapped>>

SweepEnd(s) ==
    /\ pc[s] = "sweep" /\ todo[s] = {}
    /\ pc' = [pc EXCEPT ![s] = "idle"]
    /\ cur' = [cur EXCEPT ![s] = NoId]
    /\ hit' = [hit EXCEPT ![s] = FALSE]
    /\ UNCHANGED <<file, checkout, rows, todo, history, raced, overlapped>>

(* The process is killed, or a step of the handler raises.                 *)
Dies(p) ==
    /\ pc[p] # "idle"
    /\ pc' = [pc EXCEPT ![p] = "idle"]
    /\ rows' = [rows EXCEPT ![p] = Empty]
    /\ cur' = [cur EXCEPT ![p] = NoId]
    /\ todo' = [s \in Sweeps |-> IF s = p THEN {} ELSE todo[s]]
    /\ hit' = [s \in Sweeps |-> s # p /\ hit[s]]
    /\ UNCHANGED <<file, checkout, history, raced, overlapped>>

Next == \/ \E u \in Users : AddLoad(u) \/ AddSave(u) \/ DeleteLoad(u) \/ DeleteSave(u)
        \/ \E s \in Sweeps : \/ SweepStart(s) \/ Quote(s) \/ MarkLoad(s) \/ MarkSave(s)
                             \/ Notify(s) \/ SweepEnd(s)
        \/ \E p \in Procs : Dies(p)

Spec == Init /\ [][Next]_vars

(***************************************************************************)
(* Properties.                                                             *)
(***************************************************************************)
TypeOK ==
    /\ file \in File /\ checkout \in [TickSweeps -> File]
    /\ pc \in [Procs -> {"idle", "add", "delete", "sweep", "load", "save", "notify"}]
    /\ rows \in [Procs -> File]
    /\ cur \in [Procs -> Ids \union {NoId}]
    /\ todo \in [Sweeps -> SUBSET Ids]
    /\ hit \in [Sweeps -> BOOLEAN]
    /\ taken \subseteq Ids /\ added \subseteq taken /\ deleted \subseteq added
    /\ sent \in [Ids -> Nat]
    /\ raced \in BOOLEAN /\ overlapped \in BOOLEAN
    /\ \A p \in Procs : pc[p] \in {"add", "load", "save", "notify", "delete"} => cur[p] \in Ids
    /\ \A p \in Procs : pc[p] \in {"delete", "save"} => cur[p] \in DOMAIN rows[p]

(* As long as no save wrote over a change it had not seen, the file lists  *)
(* exactly the alerts that were added and not deleted, sweeps or not.      *)
NothingLost == ~ raced => DOMAIN file = added \ deleted

(* And a triggered alert stays triggered, also when a sweep that started   *)
(* before looks at it again and finds its quote back on the other side.    *)
MarksStay ==
    [][~ raced' => \A i \in DOMAIN file \intersect DOMAIN file' : file[i] => file'[i]]_vars

(* The de-duplication by triggered_at: sweeps that do not overlap, on a    *)
(* file whose changes do not race, notify at most once per alert, although *)
(* users delete alerts in mid-sweep, sweeps die, and ticks run beside      *)
(* them.  Of an alert in the repository's copy every tick notifies anew.   *)
NotifiedOnce ==
    ~ raced /\ ~ overlapped => \A i \in Ids \ Committed : sent[i] <= 1
=============================================================================
