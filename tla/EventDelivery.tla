--------------------------- MODULE EventDelivery ---------------------------
(***************************************************************************)
(* What the war-room stream promises about one event: it is put on the     *)
(* queue once, handed to at most one connection, and is then shown there   *)
(* or lost.  Nothing that was shown or lost comes back.                    *)
(***************************************************************************)
CONSTANT Events

VARIABLE fate   \* what became of each event

Fates == {"unborn", "queued", "held", "shown", "lost"}

EInit == fate = [e \in Events |-> "unborn"]

(* An event is emitted; the oldest one may have to make room for it.       *)
Emit(e) ==
    /\ fate[e] = "unborn"
    /\ \/ fate' = [fate EXCEPT ![e] = "queued"]
       \/ \E o \in Events :
             fate[o] = "queued" /\ fate' = [fate EXCEPT ![e] = "queued", ![o] = "lost"]

(* Events of these fates may come to this one, any number of them at once. *)
Come(from, to) ==
    /\ DOMAIN fate' = Events
    /\ \A e \in Events : fate'[e] = fate[e] \/ (fate[e] \in from /\ fate'[e] = to)

(* A connection takes some of the queue.                                   *)
Take == Come({"queued"}, "held")

Show(e) == fate[e] = "held" /\ fate' = [fate EXCEPT ![e] = "shown"]

(* A refusal, a closed connection or a restart loses what it had in hand   *)
(* or on the queue.                                                        *)
Lose == Come({"queued", "held"}, "lost")

ENext == Take \/ Lose \/ \E e \in Events : Emit(e) \/ Show(e)

EventSpec == EInit /\ [][ENext]_fate
=============================================================================
