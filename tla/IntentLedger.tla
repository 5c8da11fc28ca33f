---------------------------- MODULE IntentLedger ----------------------------
(***************************************************************************)
(* What the execution-intent store promises its readers: one status per    *)
(* signal id, moved by the pipeline (which re-announces a signal), by a    *)
(* human reviewer (who moves it between the client statuses) and by the    *)
(* paper worker (which settles it).  The store itself is a log shared by   *)
(* processes that do not lock; this is the part of the sequential reading  *)
(* that survives: a signal is settled only after some human approved it.   *)
(***************************************************************************)
CONSTANTS Ids,              \* signal ids
          ClientStatuses,   \* statuses a reviewer may set
          PaperStatuses,    \* statuses only the paper worker sets
          Pending,          \* the status of a fresh signal
          Approved,         \* the status the paper worker looks for
          NoIntent          \* "no row for this id"

VARIABLES status,   \* [Ids -> statuses and NoIntent]: the blotter
          approved  \* ids that a reviewer has approved at least once

ledgerVars == <<status, approved>>

Init == /\ status = [id \in Ids |-> NoIntent]
        /\ approved = {}

(* A pipeline run or a manual request announces signals, known or not. *)
Announce ==
    \E S \in SUBSET Ids :
        /\ status' = [id \in Ids |-> IF id \in S THEN Pending ELSE status[id]]
        /\ UNCHANGED approved

(* A reviewer gives a known signal a client status. *)
Review(id) ==
    \E s \in ClientStatuses :
        /\ status[id] # NoIntent
        /\ status' = [status EXCEPT ![id] = s]
        /\ approved' = IF s = Approved THEN approved \union {id} ELSE approved

(* The paper worker settles a signal that was approved once. *)
Settle(id) ==
    \E s \in PaperStatuses :
        /\ id \in approved
        /\ status' = [status EXCEPT ![id] = s]
        /\ UNCHANGED approved

Next == Announce \/ \E id \in Ids : Review(id) \/ Settle(id)

Spec == Init /\ [][Next]_ledgerVars
=============================================================================
