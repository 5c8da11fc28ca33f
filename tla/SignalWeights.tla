--------------------------- MODULE SignalWeights ---------------------------
(***************************************************************************)
(* The store of signal weights (signal_weights_store.py): the active file  *)
(* and its backup.  A write copies the one over the other before it dumps  *)
(* the new version, a rollback copies the backup over the active file.     *)
(* Both copies and the dump truncate their file before they fill it, and   *)
(* the job may die in between.                                             *)
(***************************************************************************)
EXTENDS Integers

CONSTANT MaxVersions  \* bound, for model checking

ASSUME WeightsConstants == MaxVersions \in Nat

Absent   == 0
Torn     == -1
Versions == 1..MaxVersions

VARIABLES active, previous,  \* what each file holds
          writer,   \* where the job is: "idle", "backup", "dump", "rollback"
          \* what happened so far
          written,  \* versions given to write_weights
          whole,    \* the version that was completely active last
          risked    \* no good file was left to copy from, or a copy failed

weightsVars == <<active, previous, writer, written, whole, risked>>

WeightsInit ==
    /\ active = Absent /\ previous = Absent
    /\ writer = "idle" /\ written = 0 /\ whole = Absent /\ risked = FALSE

(* The backup comes first, if there is something to back up.               *)
StartWrite ==
    /\ writer = "idle" /\ written < MaxVersions
    /\ written' = written + 1
    /\ IF active = Absent
       THEN writer' = "dump" /\ active' = Torn /\ UNCHANGED <<previous, risked>>
       ELSE /\ writer' = "backup" /\ previous' \in {previous, Torn}
            /\ risked' = (risked \/ active = Torn)
            /\ UNCHANGED active
    /\ UNCHANGED whole

(* The active file is truncated before it is copied. *)
BackedUp_Mutant_TruncatesFirst ==
    /\ writer = "backup"
    /\ previous' = Torn /\ active' = Torn /\ writer' = "dump"
    /\ UNCHANGED <<written, whole, risked>>

(* copy2 returns, or raises, which is only logged; the dump begins.        *)
BackedUp ==
    /\ writer = "backup"
    /\ \/ previous' = active /\ UNCHANGED risked
       \/ UNCHANGED previous /\ risked' = TRUE
    /\ active' = Torn /\ writer' = "dump"
    /\ UNCHANGED <<written, whole>>

Dumped ==
    /\ writer = "dump"
    /\ active' = written /\ whole' = written /\ writer' = "idle"
    /\ UNCHANGED <<previous, written, risked>>

(* rollback_weights does not look into the file it restores.               *)
StartRollback ==
    /\ writer = "idle" /\ previous # Absent
    /\ active' = Torn /\ writer' = "rollback"
    /\ risked' = (risked \/ previous = Torn)
    /\ whole' = previous
    /\ UNCHANGED <<previous, written>>

RolledBack ==
    /\ writer = "rollback"
    /\ active' = previous /\ writer' = "idle"
    /\ UNCHANGED <<previous, written, whole, risked>>

(* Whatever file was being filled stays torn.                              *)
WriterDies ==
    /\ writer # "idle"
    /\ writer' = "idle"
    /\ UNCHANGED <<active, previous, written, whole, risked>>

WeightsNext == StartWrite \/ BackedUp \/ Dumped \/ StartRollback \/ RolledBack \/ WriterDies

WeightsSpec == WeightsInit /\ [][WeightsNext]_weightsVars

(* The weights last in use, or the ones a rollback chose, are whole in one *)
(* of the two files, wherever the job dies, unless a write began over a    *)
(* torn file (its backup is then the torn one), a backup failed and was    *)
(* gone on without, or a torn backup was restored.                         *)
LastWeightsKept == ~ risked => whole \in {Absent, active, previous}
=============================================================================
