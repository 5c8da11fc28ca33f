---------------------------- MODULE ToolLimits -----------------------------
(***************************************************************************)
(* What keeps the crews from calling too much: the guard of a run          *)
(* (scratchpad.py: a cap on the calls and a stop for repeated ones) and    *)
(* the daily quota of a source (tools_legacy.py).  The threads of both     *)
(* crews share the counters; nothing locks them.                           *)
(***************************************************************************)
EXTENDS Naturals, Sequences

CONSTANTS Threads,    \* the crews
          Arguments,  \* what a call can be spent
          CallCap,    \* MAX_TOOL_CALLS_PER_RUN, 0 for none
          Repeats,    \* REPEATED_CALL_THRESHOLD, 0 for none
          Quota,      \* the source's daily limit while it is healthy
          PoorQuota,  \* and while it is not: 0.7 or 0.4 of it, at least 1
          MaxInvoked, MaxDays  \* bounds, for model checking

ASSUME ToolLimitsConstants ==
    /\ CallCap \in Nat /\ Repeats \in Nat /\ Quota \in Nat /\ PoorQuota \in 1..Quota
    /\ MaxInvoked \in Nat /\ MaxDays \in Nat

VARIABLES count,    \* _TOOL_CALL_COUNT
          history,  \* _TOOL_HISTORY
          quota,    \* _SOURCE_QUOTA_STATE of the source
          thread,   \* [Threads -> where its call is]
          today,
          \* what happened so far
          invoked, ran,
          inRow,    \* [Threads -> its last calls that were the same, nothing between them]
          looped,   \* a call ran as the Repeats-th of them
          spent,    \* times the source was spent today
          mixed     \* two calls of today were at the quota together, or one at midnight

limitVars == <<count, history, quota, thread, today, invoked, ran, inRow, looped, spent, mixed>>

Away == [at |-> "none", arg |-> "none", used |-> 0]

LimitInit ==
    /\ count = 0 /\ history = <<>>
    /\ quota = [day |-> 0, used |-> 0] /\ today = 0
    /\ thread = [t \in Threads |-> Away]
    /\ invoked = 0 /\ ran = 0 /\ looped = FALSE
    /\ inRow = [t \in Threads |-> 0]
    /\ spent = 0 /\ mixed = FALSE

Go(t, at) == thread' = [thread EXCEPT ![t].at = at]

(* Lets one call too many through. *)
Count_Mutant_AfterTheCheck(t) ==
    /\ thread[t].at = "none" /\ invoked < MaxInvoked
    /\ invoked' = invoked + 1
    /\ count' = IF CallCap = 0 THEN count ELSE count + 1
    /\ \E a \in Arguments :
          thread' = IF CallCap > 0 /\ count > CallCap THEN thread
                    ELSE [thread EXCEPT ![t] = [Away EXCEPT !.at = "append", !.arg = a]]
    /\ UNCHANGED <<history, quota, today, ran, inRow, looped, spent, mixed>>

(* _TOOL_CALL_COUNT += 1 and the comparison: CPython 3.11 switches threads *)
(* at calls and backward jumps only, so nothing comes between them.  Over  *)
(* the cap the call raises.                                                *)
Count(t) ==
    /\ thread[t].at = "none" /\ invoked < MaxInvoked
    /\ invoked' = invoked + 1
    /\ count' = IF CallCap = 0 THEN count ELSE count + 1
    /\ \E a \in Arguments :
          thread' = IF CallCap > 0 /\ count' > CallCap THEN thread
                    ELSE [thread EXCEPT ![t] = [Away EXCEPT !.at = "append", !.arg = a]]
    /\ UNCHANGED <<history, quota, today, ran, inRow, looped, spent, mixed>>

Same(t) == history # <<>> /\ history[Len(history)] = <<t, thread[t].arg>>

(* The history holds the tool and its arguments; who called is kept here   *)
(* only to tell the calls of one thread from those of two.                 *)
Remember(t) ==
    /\ thread[t].at = "append"
    /\ history' = IF Repeats = 0 THEN history ELSE Append(history, <<t, thread[t].arg>>)
    /\ inRow' = [u \in Threads |-> IF u # t THEN 0 ELSE IF Same(t) THEN inRow[t] + 1 ELSE 1]
    /\ Go(t, "scan")
    /\ UNCHANGED <<count, quota, today, invoked, ran, looped, spent, mixed>>

(* The calls at the end of the history with the same arguments. *)
Streak(arg) ==
    Len(history) - (CHOOSE n \in 0..Len(history) :
                        /\ \A i \in n + 1 .. Len(history) : history[i][2] = arg
                        /\ n = 0 \/ history[n][2] # arg)

(* The walk back over the history: it sees what the other thread appended. *)
Scan(t) ==
    /\ thread[t].at = "scan"
    /\ IF Repeats > 0 /\ Streak(thread[t].arg) >= Repeats
       THEN thread' = [thread EXCEPT ![t] = Away] /\ UNCHANGED <<ran, looped>>
       ELSE /\ Go(t, "quota") /\ ran' = ran + 1
            /\ looped' = (looped \/ (Repeats > 0 /\ inRow[t] >= Repeats))
    /\ UNCHANGED <<count, history, quota, today, invoked, inRow, spent, mixed>>

(* A new day goes on counting from the day before. *)
ReadQuota_Mutant_NoReset(t) ==
    /\ thread[t].at = "quota"
    /\ quota' = [quota EXCEPT !.day = today]
    /\ \E limit \in {Quota, PoorQuota} :
          thread' = IF quota.used >= limit THEN [thread EXCEPT ![t] = Away]
                    ELSE [thread EXCEPT ![t].at = "spend", ![t].used = quota.used]
    /\ mixed' = (mixed \/ \E u \in Threads : thread[u].at = "spend")
    /\ UNCHANGED <<count, history, today, invoked, ran, inRow, looped, spent>>

(* _quota_used starts a new day at zero; _effective_source_limit goes by   *)
(* the health of the source.  Without quota the source is skipped.         *)
ReadQuota(t) ==
    /\ thread[t].at = "quota"
    /\ quota' = IF quota.day = today THEN quota ELSE [day |-> today, used |-> 0]
    /\ \E limit \in {Quota, PoorQuota} :
          thread' = IF quota'.used >= limit THEN [thread EXCEPT ![t] = Away]
                    ELSE [thread EXCEPT ![t].at = "spend", ![t].used = quota'.used]
    /\ mixed' = (mixed \/ \E u \in Threads : thread[u].at = "spend")
    /\ UNCHANGED <<count, history, today, invoked, ran, inRow, looped, spent>>

(* used + 1, of what was read before, whatever the day is now.             *)
SpendQuota(t) ==
    /\ thread[t].at = "spend"
    /\ quota' = [quota EXCEPT !.used = thread[t].used + 1]
    /\ spent' = spent + 1
    /\ thread' = [thread EXCEPT ![t] = Away]
    /\ UNCHANGED <<count, history, today, invoked, ran, inRow, looped, mixed>>

Midnight ==
    /\ today < MaxDays
    /\ today' = today + 1
    /\ spent' = 0
    /\ mixed' = \E t \in Threads : thread[t].at = "spend"
    /\ UNCHANGED <<count, history, quota, thread, invoked, ran, inRow, looped>>

LimitNext == \/ Midnight
             \/ \E t \in Threads : \/ Count(t) \/ Remember(t) \/ Scan(t)
                                   \/ ReadQuota(t) \/ SpendQuota(t)

LimitSpec == LimitInit /\ [][LimitNext]_limitVars

(***************************************************************************)
(* Properties.                                                             *)
(***************************************************************************)
LimitTypeOK ==
    /\ count \in 0..MaxInvoked /\ Len(history) <= MaxInvoked
    /\ quota.day \in 0..today /\ quota.used \in 0 .. Quota + 1
    /\ \A t \in Threads : thread[t].at \in {"none", "append", "scan", "quota", "spend"}

(* A run does not get away: at most CallCap calls run, and no thread runs  *)
(* the same call Repeats times in a row with nothing between; a call of    *)
(* the other thread between them starts the count anew.                    *)
RunawaysStopped == (CallCap > 0 => ran <= CallCap) /\ ~ looped

(* The counter is the number of calls of the day, and within the quota,    *)
(* unless two calls met between reading and writing it, or one was there   *)
(* at midnight.                                                            *)
QuotaExact ==
    mixed \/ /\ quota.day = today => quota.used = spent
             /\ spent <= Quota
=============================================================================
