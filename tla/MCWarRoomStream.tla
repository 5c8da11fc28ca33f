-------------------------- MODULE MCWarRoomStream --------------------------
(* Instances of WarRoomStream for TLC. *)
EXTENDS WarRoomStream, TLC

(* A drain takes two of a queue of three.                                  *)
MCCap      == [lane \in Lanes |-> 3]
MCDrainMax == [lane \in Lanes |-> 2]

MCSymmetry == Permutations(Clients)

(* Three changes of any kind, or four alerts, which overflow the queue.    *)
FourAlertsOnly ==
    emitted["alert"] + log + starts = MaxChanges + 1 => emitted["alert"] = MaxChanges
=============================================================================
