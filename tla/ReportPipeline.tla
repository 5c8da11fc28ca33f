--------------------------- MODULE ReportPipeline ---------------------------
(***************************************************************************)
(* One run of the daily job (main.py): run_pipeline_with_retries produces  *)
(* a report by kicking off the two research crews, retrying on transient   *)
(* errors, falling back to another model and re-validating, all within a   *)
(* wall-clock budget; then the job records recommendations, sends the      *)
(* report (Telegram, Web Push) and writes metrics.                         *)
(*                                                                         *)
(* A report is a number: the order in which kickoffs produced it.  What a  *)
(* report says is only visible through the verdict of validate_report,     *)
(* which is any verdict (the report is written by a language model).       *)
(* structural_validation_err is computed and logged but decides nothing,   *)
(* so it is left out.                                                      *)
(***************************************************************************)
EXTENDS Integers

CONSTANTS MaxReportRetries,  \* MAX_REPORT_RETRIES
          Max503Retries,     \* MAX_503_RETRIES
          CrewTimeout,       \* CREW_FUTURE_TIMEOUT_SEC
          Slack,             \* the 120 s added to it by _budget_ok
          Deadline,          \* PIPELINE_HARD_DEADLINE_SEC
          Backoff,           \* BACKOFF_BASE_SEC
          CrewTimes,         \* how long one crew may take
          Dates              \* what the writer may date a report

ASSUME PipelineConstants ==
    /\ MaxReportRetries \in Nat /\ Max503Retries \in Nat
    /\ CrewTimeout \in Nat /\ Slack \in Nat /\ Deadline \in Nat /\ Backoff \in Nat
    /\ CrewTimes \subseteq Nat
    /\ Dates # {}

VARIABLES pc,          \* where the job is
          strict,      \* STRICT_CONSISTENCY_GATE
          clock,       \* time since _pipeline_start
          attempt, step,
          lastErr,     \* last_err of this attempt
          kickoffs,    \* crews kicked off so far
          made,        \* reports produced so far
          final,       \* final_report
          disk,        \* per date, the report in its daily JSON file; 0 is
                       \* no file, one of an earlier job, or a torn one
          unwritten,   \* the newest report could not be written
          checked,     \* last_validation
          passed,      \* report_valid, the local of run_pipeline_with_retries
          retries,     \* _total_retries
          runEnd,      \* how the scratchpad run ended, "open" until then
          gateLogged,  \* gate_passed in the run log, "none" until written
          valid,       \* the verdict returned to the job
          result,      \* validation_result, the validation returned to it
          effects      \* what the job did with the report

store    == <<disk, unwritten>>
returned == <<runEnd, gateLogged, valid, result>>
pipeline == <<attempt, step, lastErr, kickoffs, made, final, store, checked, passed,
              retries, returned>>
vars == <<pc, strict, clock, pipeline, effects>>

Failures == {"retriable", "fatal"}
Warnings == {"none", "few", "many"}    \* "few": at most GATE_WARN_THRESHOLD
Successes == {"success", "success_warn_pass", "success_warn_pass_exhausted"}

Empty     == [kind |-> "empty", no |-> 0]
Error     == [kind |-> "error", no |-> 0]
Report(n) == [kind |-> "report", no |-> n]

(* A validation: of which report, and what it found. *)
Verdict(n, b, w) == [of |-> n, seen |-> TRUE, blocking |-> b, warnings |-> w]
NoCheck == [of |-> 0, seen |-> FALSE, blocking |-> FALSE, warnings |-> "none"]

Clean(v)    == v.seen /\ ~ v.blocking /\ v.warnings = "none"
WarnPass(v) == v.seen /\ ~ v.blocking /\ v.warnings = "few"

(* _budget_ok: room for one more kickoff and two minutes. *)
BudgetOK == Deadline - clock >= CrewTimeout + Slack

Init == /\ pc = "attempt"
        /\ strict \in BOOLEAN
        /\ clock = 0
        /\ attempt = 0 /\ step = 0
        /\ lastErr = "none"
        /\ kickoffs = 0 /\ made = 0
        /\ final = Empty
        /\ disk = [d \in Dates |-> 0]
        /\ unwritten = FALSE
        /\ checked = NoCheck
        /\ passed = FALSE
        /\ retries = 0
        /\ runEnd = "open"
        /\ gateLogged = "none"
        /\ valid = FALSE
        /\ result = NoCheck
        /\ effects = {}

(***************************************************************************)
(* _run_pipeline_once: two crews in two threads.  The crypto section is    *)
(* awaited for CrewTimeout, then the AI section for CrewTimeout more; a    *)
(* time-out has an empty message and is not retriable.  Leaving the "with" *)
(* block joins both threads, timed out or not.                             *)
(***************************************************************************)
Outcomes(crypto, ai) ==
    IF crypto > CrewTimeout THEN {"fatal"}
    ELSE IF ai > crypto + CrewTimeout THEN Failures
    ELSE Failures \union {"ok"}

KickoffTime(crypto, ai) == IF crypto > ai THEN crypto ELSE ai

(***************************************************************************)
(* Operators named X_Mutant_<mistake> are not part of the specification:   *)
(* each is a plausible mistake in X that the runs must reject.             *)
(***************************************************************************)

(* Keeps the first report of a date on disk. *)
Accept_Mutant_KeepsFirst ==
    /\ made' = made + 1
    /\ final' = Report(made + 1)
    /\ \E d \in Dates : disk' = IF disk[d] = 0 THEN [disk EXCEPT ![d] = made + 1] ELSE disk
    /\ unwritten' = FALSE

(* A kickoff that worked: before anything has looked at the report it is   *)
(* written to the file of the date its writer gave it, or an OSError is    *)
(* swallowed and that file is as it was, or torn.                          *)
Accept ==
    /\ made' = made + 1
    /\ final' = Report(made + 1)
    /\ \E d \in Dates :
          \/ disk' = [disk EXCEPT ![d] = made + 1] /\ unwritten' = FALSE
          \/ disk' \in {disk, [disk EXCEPT ![d] = 0]} /\ unwritten' = TRUE

(***************************************************************************)
(* run_pipeline_with_retries.                                              *)
(***************************************************************************)

(* The outer loop: a new attempt, unless the budget is spent. *)
StartAttempt ==
    /\ pc = "attempt"
    /\ IF BudgetOK
       THEN /\ pc' = "primary"
            /\ step' = 0
            /\ lastErr' = "none"
       ELSE /\ pc' = "exhausted"
            /\ UNCHANGED <<step, lastErr>>
    /\ UNCHANGED <<strict, clock, attempt, kickoffs, made, final, store, checked, passed,
                   retries, returned, effects>>

(* The budget is spent when the inner loop asks again. *)
OutOfBudget ==
    /\ pc = "primary"
    /\ ~ BudgetOK
    /\ pc' = "fallback"
    /\ UNCHANGED <<strict, clock, pipeline, effects>>

(* The primary kickoff works.  last_err keeps the error of an earlier step. *)
PrimaryWorks ==
    /\ pc = "primary"
    /\ BudgetOK
    /\ \E c, a \in CrewTimes : /\ "ok" \in Outcomes(c, a)
                               /\ clock' = clock + KickoffTime(c, a)
    /\ kickoffs' = kickoffs + 1
    /\ Accept
    /\ pc' = "fallback"
    /\ UNCHANGED <<strict, attempt, step, lastErr, checked, passed, retries, returned,
                   effects>>

(* The primary kickoff fails: back off and try again, or give up with an *)
(* error report in the place of whatever an earlier attempt produced.    *)
PrimaryFails ==
    /\ pc = "primary"
    /\ BudgetOK
    /\ \E c, a \in CrewTimes : \E e \in Outcomes(c, a) \ {"ok"} :
          /\ lastErr' = e
          /\ IF e = "retriable" /\ step < Max503Retries
             THEN /\ pc' = "primary"
                  /\ step' = step + 1
                  /\ retries' = retries + 1
                  /\ clock' = clock + KickoffTime(c, a) + Backoff * 2^step
                  /\ UNCHANGED final
             ELSE /\ pc' = "fallback"
                  /\ clock' = clock + KickoffTime(c, a)
                  /\ final' = Error
                  /\ UNCHANGED <<step, retries>>
    /\ kickoffs' = kickoffs + 1
    /\ UNCHANGED <<strict, attempt, made, store, checked, passed, returned, effects>>

NeedsFallback == lastErr = "retriable" /\ BudgetOK

FallbackWorks ==
    /\ pc = "fallback"
    /\ NeedsFallback
    /\ \E c, a \in CrewTimes : /\ "ok" \in Outcomes(c, a)
                               /\ clock' = clock + KickoffTime(c, a)
    /\ kickoffs' = kickoffs + 1
    /\ retries' = retries + 1
    /\ Accept
    /\ lastErr' = "none"
    /\ pc' = "validate"
    /\ UNCHANGED <<strict, attempt, step, checked, passed, returned, effects>>

(* The fallback's own error is dropped: last_err is still the primary's *)
(* and final_report is whatever it was.                                 *)
FallbackFails ==
    /\ pc = "fallback"
    /\ NeedsFallback
    /\ \E c, a \in CrewTimes : clock' = clock + KickoffTime(c, a)
    /\ kickoffs' = kickoffs + 1
    /\ retries' = retries + 1
    /\ pc' = "exhausted"
    /\ UNCHANGED <<strict, attempt, step, lastErr, made, final, store, checked, passed,
                   returned, effects>>

(* Goes on with the primary model instead of stopping on an error. *)
SkipFallback_Mutant_RetriesPrimary ==
    /\ pc = "fallback"
    /\ ~ NeedsFallback
    /\ pc' = IF lastErr = "none" THEN "validate" ELSE "primary"
    /\ UNCHANGED <<strict, clock, pipeline, effects>>

(* No fallback: stop on an error, or go on to the validation. *)
SkipFallback ==
    /\ pc = "fallback"
    /\ ~ NeedsFallback
    /\ pc' = IF lastErr = "none" THEN "validate" ELSE "exhausted"
    /\ UNCHANGED <<strict, clock, pipeline, effects>>

(* Closes the run only when the local report_valid is true. *)
Return_Mutant_NotFinalized(ok, end, v) ==
    /\ valid' = ok
    /\ runEnd' = IF passed THEN end ELSE "aborted_without_finalize"
    /\ gateLogged' = IF passed THEN "passed" ELSE "failed"
    /\ result' = v
    /\ pc' = "record"

(* The way back to the job, with a verdict and a validation: the        *)
(* scratchpad run is closed, the run log gets the local report_valid.   *)
Return(ok, end, v) ==
    /\ valid' = ok
    /\ runEnd' = end
    /\ gateLogged' = IF passed THEN "passed" ELSE "failed"
    /\ result' = v
    /\ pc' = "record"

(* validate_report: an empty report is too short and blocks. *)
Validate ==
    /\ pc = "validate"
    /\ \E b \in BOOLEAN, w \in Warnings :
          /\ final = Empty => b
          /\ checked' = Verdict(final.no, b, w)
          /\ passed' = Clean(Verdict(final.no, b, w))
    /\ pc' = "judged"
    /\ UNCHANGED <<strict, clock, attempt, step, lastErr, kickoffs, made, final, store,
                   retries, returned, effects>>

(* The score-based gate: a clean pass or a pass with few warnings returns, *)
(* anything else is tried again.                                           *)
Judge ==
    /\ pc = "judged"
    /\ \/ /\ passed
          /\ Return(TRUE, "success", checked)
          /\ UNCHANGED <<attempt, retries>>
       \/ /\ ~ passed /\ WarnPass(checked)
          /\ Return(TRUE, "success_warn_pass", checked)
          /\ UNCHANGED <<attempt, retries>>
       \/ /\ ~ passed /\ ~ WarnPass(checked)
          /\ attempt < MaxReportRetries
          /\ pc' = "attempt"
          /\ attempt' = attempt + 1
          /\ retries' = retries + 1
          /\ UNCHANGED returned
       \/ /\ ~ passed /\ ~ WarnPass(checked)
          /\ attempt = MaxReportRetries
          /\ pc' = "exhausted"
          /\ UNCHANGED <<attempt, retries, returned>>
    /\ UNCHANGED <<strict, clock, step, lastErr, kickoffs, made, final, store, checked,
                   passed, effects>>

(* Delivers whatever is left when the retries are used up. *)
Exhausted_Mutant_IgnoresBlocking ==
    /\ pc = "exhausted"
    /\ IF final.kind = "report"
       THEN Return(TRUE, "success_warn_pass_exhausted", checked)
       ELSE Return(FALSE,
                   IF final = Error THEN "execution_error_report" ELSE "completed_invalid",
                   checked)
    /\ UNCHANGED <<strict, clock, attempt, step, lastErr, kickoffs, made, final, store,
                   checked, passed, retries, effects>>

(* The final decision: a report whose last validation has no blocking *)
(* issue is returned as valid.                                        *)
Exhausted ==
    /\ pc = "exhausted"
    /\ IF final.kind = "report" /\ ~ checked.blocking
       THEN Return(TRUE, "success_warn_pass_exhausted", checked)
       ELSE Return(FALSE,
                   IF final = Error THEN "execution_error_report" ELSE "completed_invalid",
                   checked)
    /\ UNCHANGED <<strict, clock, attempt, step, lastErr, kickoffs, made, final, store,
                   checked, passed, retries, effects>>

(* An exception while a report is persisted, cleaned up, validated or      *)
(* judged (the quality agent included): the finally closes the run as      *)
(* aborted and logs the report_valid it finds, the job reports the error   *)
(* and has no validation.                                                  *)
Abort ==
    /\ pc \in {"fallback", "validate", "judged", "exhausted"}
    /\ pc \in {"fallback", "exhausted"} => final.kind = "report"
    /\ Return(FALSE, "aborted_without_finalize", NoCheck)
    /\ final' = Error
    /\ UNCHANGED <<strict, clock, attempt, step, lastErr, kickoffs, made, store, checked,
                   passed, retries, effects>>

(***************************************************************************)
(* The rest of the job (__main__).                                         *)
(***************************************************************************)
ReportOK  == final.kind = "report" /\ (valid \/ ~ strict)

(* Records whatever is good enough to be sent. *)
TrackerOK_Mutant_WarnPass == final.kind = "report" /\ valid

TrackerOK == final.kind = "report" /\ Clean(result)

Do(what) == effects' = effects \union {[what |-> what, report |-> final]}

(* Tracker: recommendations are stored only from a clean pass. *)
RecordRecommendations ==
    /\ pc = "record"
    /\ IF TrackerOK THEN Do("recommendations") ELSE UNCHANGED effects
    /\ pc' = "telegram"
    /\ UNCHANGED <<strict, clock, pipeline>>

(* Telegram: the report, or the gate alert when the strict gate is on. *)
SendTelegram ==
    /\ pc = "telegram"
    /\ IF strict /\ ~ valid THEN Do("alert") ELSE Do("telegram")
    /\ pc' = "push"
    /\ UNCHANGED <<strict, clock, pipeline>>

(* Web push of "the brief is updated"; failures are swallowed. *)
DeliverWebPush ==
    /\ pc = "push"
    /\ \/ ReportOK /\ Do("push")
       \/ UNCHANGED effects
    /\ pc' = "metrics"
    /\ UNCHANGED <<strict, clock, pipeline>>

SaveMetrics ==
    /\ pc = "metrics"
    /\ IF ReportOK THEN Do("metrics") ELSE UNCHANGED effects
    /\ pc' = "done"
    /\ UNCHANGED <<strict, clock, pipeline>>

(* The container is killed (task time-out), or an uncaught exception ends it. *)
JobKilled ==
    /\ pc \notin {"done", "killed"}
    /\ pc' = "killed"
    /\ UNCHANGED <<strict, clock, pipeline, effects>>

Next == \/ StartAttempt \/ OutOfBudget
        \/ PrimaryWorks \/ PrimaryFails
        \/ FallbackWorks \/ FallbackFails \/ SkipFallback
        \/ Validate \/ Judge \/ Exhausted \/ Abort
        \/ RecordRecommendations \/ SendTelegram \/ DeliverWebPush \/ SaveMetrics
        \/ JobKilled

Spec == Init /\ [][Next]_vars

(* The job is one sequential program: it goes on until it ends. *)
FairSpec == Spec /\ WF_vars(Next)

(***************************************************************************)
(* Properties.                                                             *)
(***************************************************************************)
TypeOK ==
    /\ pc \in {"attempt", "primary", "fallback", "validate", "judged", "exhausted",
               "record", "telegram", "push", "metrics", "done", "killed"}
    /\ strict \in BOOLEAN
    /\ clock \in Nat
    /\ attempt \in 0..MaxReportRetries
    /\ step \in 0..Max503Retries
    /\ lastErr \in Failures \union {"none"}
    /\ kickoffs \in Nat /\ made \in 0..kickoffs /\ retries \in Nat
    /\ final \in {Empty, Error} \union {Report(n) : n \in 1..made}
    /\ disk \in [Dates -> 0..made] /\ unwritten \in BOOLEAN
    /\ {checked, result} \subseteq
          [of : 0..made, seen : BOOLEAN, blocking : BOOLEAN, warnings : Warnings]
    /\ passed \in BOOLEAN /\ valid \in BOOLEAN
    /\ runEnd \in Successes \union {"open", "completed_invalid", "execution_error_report",
                                    "aborted_without_finalize"}
    /\ gateLogged \in {"none", "passed", "failed"}

(* Recommendations enter the track record only from the very report whose *)
(* own validation was clean, however many attempts, fallbacks and stale   *)
(* validations came before it.                                            *)
RecordedIsClean ==
    \A e \in effects :
        e.what = "recommendations" => Clean(checked) /\ e.report = Report(checked.of)

(* What readers are told about is what they are served: the report that   *)
(* goes out is on disk, where the API and the PWA find it, although every *)
(* kickoff writes before validation, over what earlier ones left under    *)
(* the same date.  The one exception is a report whose own write failed.  *)
SentIsServed ==
    \A e \in effects :
        e.what \in {"telegram", "push"} /\ e.report.kind = "report" =>
            unwritten \/ \E d \in Dates : disk[d] = e.report.no

(* The strict gate over all channels: if the job gets through, either the  *)
(* alert went out and no channel carried a report, or Telegram and the     *)
(* metrics carried the same real report and nobody was alerted; a report   *)
(* known to block is never among them.                                     *)
StrictGate ==
    strict /\ pc = "done" =>
        LET did(what) == {e \in effects : e.what = what} IN
        IF did("alert") # {}
        THEN did("telegram") \union did("push") \union did("metrics") = {}
        ELSE /\ final.kind = "report"
             /\ [what |-> "telegram", report |-> final] \in effects
             /\ [what |-> "metrics", report |-> final] \in effects
             /\ checked.of = final.no => ~ checked.blocking

(* retry_count in the run log never under-reports: every kickoff after the *)
(* first is counted, by whichever of the three retry loops made it.        *)
RetriesCounted == kickoffs <= retries + 1

(* The scratchpad run ends as a success exactly when the caller is told    *)
(* the report is valid, and is closed on every way out but a kill; the run *)
(* log claims a passed gate only for a clean report, which the caller was  *)
(* given unless the run is marked as aborted; and no retry is hidden.      *)
RunEndTruthful ==
    /\ RetriesCounted
    /\ runEnd # "open" => (runEnd \in Successes <=> valid)
    /\ pc \in {"record", "telegram", "push", "metrics", "done"} => runEnd # "open"
    /\ gateLogged = "passed" =>
          Clean(checked) /\ (valid \/ runEnd = "aborted_without_finalize")

(* Retries, back-offs and fallbacks together come to an end. *)
JobEnds == <>(pc \in {"done", "killed"})

(***************************************************************************)
(* What the documents say and the code does not do.                        *)
(***************************************************************************)

(* README.md:7: research goes out as Telegram HTML "after Pydantic and      *)
(* validate_report": a report that is sent was looked at by the gate.       *)
DeliveredWasValidated ==
    \A e \in effects :
        strict /\ e.what = "telegram" => checked.seen /\ checked.of = e.report.no
=============================================================================
