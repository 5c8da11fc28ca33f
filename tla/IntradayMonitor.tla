-------------------------- MODULE IntradayMonitor --------------------------
(***************************************************************************)
(* The intraday monitor (monitor_intraday.py): a job that looks at two     *)
(* indicators, and for each that is extreme asks a log in BigQuery whether *)
(* it alerted lately, sends, and logs.  A new job cancels the one that     *)
(* runs (cancel-in-progress), so there is one at a time and it may die     *)
(* between two steps.  Time is in hours.                                   *)
(***************************************************************************)
EXTENDS Integers, Sequences

CONSTANTS Silence,  \* int(INTRADAY_SILENCE_HOURS)
          MaxHours  \* bound, for model checking

ASSUME MonitorConstants == Silence \in Nat /\ MaxHours \in Nat

Events == <<"BTC_1H_MOVE", "VIX_HIGH">>   \* in the order run_monitor evaluates them
Event  == {"BTC_1H_MOVE", "VIX_HIGH"}

VARIABLES hour,
          extreme,   \* events of this job over their threshold
          turn,      \* the event evaluated now; beyond the last: no job
          place,     \* where its evaluation is
          alertLog,  \* [Event -> hour of its last row in intraday_alerts]
          \* what happened so far
          alerted,   \* [Event -> hour of its last alert]
          tooSoon,   \* events alerted twice within the silent hours
          unlogged   \* events whose log could not be read or written

monitorVars == <<hour, extreme, turn, place, alertLog, alerted, tooSoon, unlogged>>

NotYet == -1
Done  == Len(Events) + 1

MonitorInit ==
    /\ hour = 0 /\ extreme = {} /\ turn = Done /\ place = "check"
    /\ alertLog = [e \in Event |-> NotYet] /\ alerted = [e \in Event |-> NotYet]
    /\ tooSoon = {} /\ unlogged = {}

(* The job fetches both indicators first; what it cannot fetch is skipped. *)
StartJob ==
    /\ turn = Done
    /\ turn' = 1 /\ place' = "check"
    /\ extreme' \in SUBSET Event
    /\ UNCHANGED <<hour, alertLog, alerted, tooSoon, unlogged>>

NextEvent == turn' = turn + 1 /\ place' = "check"

Within(h) == h # NotYet /\ hour - h <= Silence

(* Asks for rows of the other event. *)
RecentlyAlerted_Mutant_OtherEvent(e) ==
    \E f \in Event \ {e} : Within(alertLog[f])

(* The query of _is_recently_alerted: SILENCE_HOURS back from now.         *)
RecentlyAlerted(e) == Within(alertLog[e])

(* Silent, or not; a log that cannot be read lets the alert through.       *)
CheckSilence ==
    /\ turn # Done /\ place = "check"
    /\ LET e == Events[turn] IN
       \/ /\ e \notin extreme \/ RecentlyAlerted(e)
          /\ NextEvent /\ UNCHANGED unlogged
       \/ /\ e \in extreme /\ ~ RecentlyAlerted(e)
          /\ place' = "send" /\ UNCHANGED <<turn, unlogged>>
       \/ /\ e \in extreme
          /\ place' = "send" /\ unlogged' = unlogged \union {e} /\ UNCHANGED turn
    /\ UNCHANGED <<hour, extreme, alertLog, alerted, tooSoon>>

(* _send_telegram_report: whether it was delivered makes no difference.    *)
SendAlert ==
    /\ turn # Done /\ place = "send"
    /\ LET e == Events[turn] IN
       \/ /\ alerted' = [alerted EXCEPT ![e] = hour]
          /\ tooSoon' = IF Within(alerted[e]) THEN tooSoon \union {e} ELSE tooSoon
       \/ UNCHANGED <<alerted, tooSoon>>
    /\ place' = "log"
    /\ UNCHANGED <<hour, extreme, turn, alertLog, unlogged>>

LogAlert ==
    /\ turn # Done /\ place = "log"
    /\ LET e == Events[turn] IN
       \/ alertLog' = [alertLog EXCEPT ![e] = hour] /\ UNCHANGED unlogged
       \/ unlogged' = unlogged \union {e} /\ UNCHANGED alertLog
    /\ NextEvent
    /\ UNCHANGED <<hour, extreme, alerted, tooSoon>>

(* The job is cancelled by the next one, or dies.                          *)
CancelJob ==
    /\ turn # Done
    /\ turn' = Done /\ place' = "check" /\ extreme' = {}
    /\ unlogged' = IF place = "log" THEN unlogged \union {Events[turn]} ELSE unlogged
    /\ UNCHANGED <<hour, alertLog, alerted, tooSoon>>

Hour ==
    /\ hour < MaxHours
    /\ hour' = hour + 1
    /\ UNCHANGED <<extreme, turn, place, alertLog, alerted, tooSoon, unlogged>>

MonitorNext == StartJob \/ CheckSilence \/ SendAlert \/ LogAlert \/ CancelJob \/ Hour

MonitorSpec == MonitorInit /\ [][MonitorNext]_monitorVars

(***************************************************************************)
(* Properties.                                                             *)
(***************************************************************************)
MonitorTypeOK ==
    /\ hour \in 0..MaxHours /\ extreme \subseteq Event
    /\ turn \in 1..Done /\ place \in {"check", "send", "log"}
    /\ alertLog \in [Event -> NotYet..hour] /\ alerted \in [Event -> NotYet..hour]

(* Two alerts of one event are more than the silent hours apart, although  *)
(* hours may pass between asking, sending and logging, and jobs are        *)
(* cancelled; unless the log failed, or the job died, before it was        *)
(* written.                                                                *)
SilenceKept == tooSoon \subseteq unlogged
=============================================================================
