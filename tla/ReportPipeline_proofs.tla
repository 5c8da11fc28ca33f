------------------------ MODULE ReportPipeline_proofs ------------------------
(***************************************************************************)
(* For every setting of the retry limits, time-outs and the budget: the    *)
(* retry count never under-reports, and only a clean report is recorded.   *)
(***************************************************************************)
EXTENDS ReportPipeline, TLAPS

(* Before a kickoff of the inner loop, every earlier one is covered. *)
CountInv ==
    /\ kickoffs \in Nat /\ retries \in Nat
    /\ kickoffs <= retries + 1
    /\ pc \in {"attempt", "primary"} => kickoffs <= retries

(***************************************************************************)
(* retry_count in the run log covers every kickoff but the first, whatever *)
(* the 503 loop, the fallback and the gate's retries did (_total_retries). *)
(***************************************************************************)
THEOREM RetriesAreCounted == Spec => []RetriesCounted
<1>1. Init => CountInv
  BY DEF Init, CountInv
<1>2. CountInv /\ [Next]_vars => CountInv'
  <2> SUFFICES ASSUME CountInv, [Next]_vars PROVE CountInv'
    OBVIOUS
  <2> USE DEF CountInv
  <2>1. CASE StartAttempt
    BY <2>1 DEF StartAttempt
  <2>2. CASE OutOfBudget
    BY <2>2 DEF OutOfBudget, pipeline
  <2>3. CASE PrimaryWorks
    BY <2>3 DEF PrimaryWorks
  <2>4. CASE PrimaryFails
    <3>1. /\ kickoffs' = kickoffs + 1
          /\ \/ pc' = "primary" /\ retries' = retries + 1
             \/ pc' = "fallback" /\ retries' = retries
      BY <2>4 DEF PrimaryFails
    <3>2. kickoffs <= retries
      BY <2>4 DEF PrimaryFails
    <3> QED
      BY <3>1, <3>2
  <2>5. CASE FallbackWorks
    BY <2>5 DEF FallbackWorks
  <2>6. CASE FallbackFails
    BY <2>6 DEF FallbackFails
  <2>7. CASE SkipFallback
    BY <2>7 DEF SkipFallback, pipeline
  <2>8. CASE Validate
    BY <2>8 DEF Validate
  <2>9. CASE Judge
    <3>1. /\ kickoffs' = kickoffs
          /\ \/ pc' = "attempt" /\ retries' = retries + 1
             \/ pc' \in {"exhausted", "record"} /\ retries' = retries
      BY <2>9 DEF Judge, Return
    <3> QED
      BY <3>1
  <2>10. CASE Exhausted
    BY <2>10 DEF Exhausted, Return
  <2>11. CASE RecordRecommendations
    BY <2>11 DEF RecordRecommendations, pipeline, returned
  <2>12. CASE SendTelegram
    BY <2>12 DEF SendTelegram, pipeline, returned
  <2>13. CASE DeliverWebPush
    BY <2>13 DEF DeliverWebPush, pipeline
  <2>14. CASE SaveMetrics
    BY <2>14 DEF SaveMetrics, pipeline
  <2>15. CASE JobKilled
    BY <2>15 DEF JobKilled, pipeline
  <2>16. CASE Abort
    BY <2>16 DEF Abort, Return
  <2>17. CASE UNCHANGED vars
    BY <2>17 DEF vars, pipeline
  <2> QED
    BY <2>1, <2>2, <2>3, <2>4, <2>5, <2>6, <2>7, <2>8, <2>9, <2>10, <2>11, <2>12,
       <2>13, <2>14, <2>15, <2>16, <2>17 DEF Next
<1>3. CountInv => RetriesCounted
  BY DEF CountInv, RetriesCounted
<1> QED
  BY <1>1, <1>2, <1>3, PTL DEF Spec

Producing == {"attempt", "primary", "fallback", "validate", "judged", "exhausted"}

(***************************************************************************)
(* While the pipeline is still producing, nothing has been done, and the   *)
(* last validation is not clean but when it has just been made of the      *)
(* report in hand (a clean one returns at once); afterwards what the job   *)
(* was given is that validation, and a clean one is of the final report.   *)
(***************************************************************************)
RecordInv ==
    /\ pc \in Producing => effects = {} /\ (Clean(checked) => pc = "judged")
    /\ pc = "judged" => /\ passed <=> Clean(checked)
                        /\ final.kind = "report" => final = Report(checked.of)
    /\ pc \in Producing => ~ Clean(result)
    /\ pc \notin Producing /\ Clean(result) /\ final.kind = "report" =>
           result = checked /\ final = Report(checked.of)
    /\ RecordedIsClean

(***************************************************************************)
(* tracker.save_recommendations is only ever called with a report whose    *)
(* own, latest validation found nothing at all.                            *)
(***************************************************************************)
THEOREM OnlyCleanIsRecorded == Spec => []RecordedIsClean
<1> DEFINE Kinds == final = Empty \/ final = Error \/ \E n \in Nat : final = Report(n)
           IInv == RecordInv /\ Kinds /\ made \in Nat
<1>1. Init => IInv
  BY DEF Init, RecordInv, RecordedIsClean, Clean, NoCheck, Producing, Empty
<1>2. IInv /\ [Next]_vars => IInv'
  <2> SUFFICES ASSUME IInv, [Next]_vars PROVE IInv'
    OBVIOUS
  <2>K. Kinds' /\ (made \in Nat)'
    <3>1. \/ UNCHANGED <<final, made>>
          \/ Accept
          \/ final' = Error /\ UNCHANGED made
      BY DEF Next, vars, pipeline, StartAttempt, OutOfBudget, PrimaryWorks, PrimaryFails,
         FallbackWorks, FallbackFails, SkipFallback, Validate, Judge, Abort, Exhausted,
         RecordRecommendations, SendTelegram, DeliverWebPush, SaveMetrics, JobKilled
    <3> QED
      BY <3>1 DEF Accept
  <2>1. CASE StartAttempt \/ OutOfBudget \/ SkipFallback
    BY <2>1, <2>K DEF StartAttempt, OutOfBudget, SkipFallback, pipeline, returned, RecordInv,
       Producing, RecordedIsClean, Clean
  <2>2. CASE PrimaryWorks \/ PrimaryFails
    BY <2>2, <2>K DEF PrimaryWorks, PrimaryFails, returned, RecordInv, Producing, RecordedIsClean, Clean
  <2>3. CASE FallbackWorks \/ FallbackFails
    BY <2>3, <2>K DEF FallbackWorks, FallbackFails, returned, RecordInv, Producing, RecordedIsClean, Clean
  <2>4. CASE Validate
    <3>1. PICK b \in BOOLEAN, w \in Warnings :
             /\ checked' = Verdict(final.no, b, w)
             /\ passed' = Clean(Verdict(final.no, b, w))
      BY <2>4 DEF Validate
    <3>2. /\ effects' = {} /\ final' = final /\ pc' = "judged"
          /\ result' = result /\ ~ Clean(result)
      BY <2>4 DEF Validate, returned, RecordInv, Producing
    <3>3. checked'.of = final.no
      BY <3>1 DEF Verdict
    <3>4. final.kind = "report" => final = Report(final.no)
      BY DEF Report, Empty, Error
    <3>5. passed' <=> Clean(checked')
      BY <3>1
    <3> QED
      BY <2>K, <3>2, <3>3, <3>4, <3>5 DEF RecordInv, Producing, RecordedIsClean, Clean
  <2>5. CASE Judge
    <3>1. /\ UNCHANGED <<final, checked, passed, effects>>
          /\ effects = {} /\ pc = "judged"
          /\ \/ pc' = "record" /\ result' = checked
             \/ pc' \in {"attempt", "exhausted"} /\ ~ passed /\ result' = result
          /\ ~ Clean(result)
      BY <2>5 DEF Judge, Return, returned, RecordInv, Producing
    <3> QED
      BY <2>K, <3>1 DEF RecordInv, Producing, RecordedIsClean, Clean
  <2>6. CASE Exhausted \/ Abort
    <3>1. /\ effects' = {} /\ pc' = "record" /\ checked' = checked
          /\ ~ Clean(result)'
      BY <2>6 DEF Exhausted, Abort, Return, RecordInv, Producing, Clean, NoCheck
    <3> QED
      BY <2>K, <3>1 DEF RecordInv, Producing, RecordedIsClean, Clean
  <2>7. CASE RecordRecommendations
    <3>1. \/ effects' = effects
          \/ TrackerOK /\ Do("recommendations")
      BY <2>7 DEF RecordRecommendations
    <3> QED
      BY <2>7, <2>K, <3>1 DEF RecordRecommendations, pipeline, returned, TrackerOK, Do, RecordInv,
         Producing, RecordedIsClean, Clean
  <2>8. CASE SendTelegram \/ DeliverWebPush \/ SaveMetrics
    <3>1. effects' = effects \/ Do("alert") \/ Do("telegram") \/ Do("push") \/ Do("metrics")
      BY <2>8 DEF SendTelegram, DeliverWebPush, SaveMetrics
    <3> QED
      BY <2>8, <2>K, <3>1 DEF SendTelegram, DeliverWebPush, SaveMetrics, pipeline, returned, Do,
         RecordInv, Producing, RecordedIsClean, Clean
  <2>9. CASE JobKilled \/ UNCHANGED vars
    <3>1. /\ UNCHANGED <<final, checked, passed, result, effects>>
          /\ pc' = pc \/ pc' = "killed"
      BY <2>9 DEF JobKilled, vars, pipeline, returned
    <3>2. pc \in Producing => effects = {}
      BY DEF RecordInv
    <3>3. (pc' = "killed" => pc' \notin Producing) /\ (pc \in Producing /\ pc' = "killed" => ~ Clean(result))
      BY DEF Producing, RecordInv
    <3> QED
      BY <2>K, <3>1, <3>2, <3>3 DEF RecordInv, Producing, RecordedIsClean, Clean
  <2> QED
    BY <2>1, <2>2, <2>3, <2>4, <2>5, <2>6, <2>7, <2>8, <2>9 DEF Next
<1>3. IInv => RecordedIsClean
  BY DEF RecordInv
<1> QED
  BY <1>1, <1>2, <1>3, PTL DEF Spec

(***************************************************************************)
(* Delivery.  Four facts hold together along the job.                      *)
(***************************************************************************)
Kinds == /\ final = Empty \/ final = Error \/ \E n \in Nat : final = Report(n)
         /\ made \in Nat
         /\ checked.blocking \in BOOLEAN /\ valid \in BOOLEAN /\ strict \in BOOLEAN
         /\ disk \in [Dates -> Nat] /\ unwritten \in BOOLEAN

(* Whatever kickoff came last, the report in hand is on disk if it could   *)
(* be written; an error report is only in hand on the way to giving up.    *)
OnDisk ==
    /\ final.kind = "report" => unwritten \/ \E d \in Dates : disk[d] = final.no
    /\ pc \in {"attempt", "primary", "validate", "judged"} => final # Error
    /\ pc = "fallback" /\ lastErr = "none" => final # Error

(* Until the pipeline returns nothing is decided, logged or done, and only *)
(* a clean validation sets report_valid; a valid report is a report, and   *)
(* its last validation does not block.                                     *)
Decided ==
    /\ pc \in Producing => /\ effects = {} /\ ~ valid /\ runEnd = "open"
                           /\ gateLogged = "none"
                           /\ passed => pc = "judged" /\ Clean(checked)
    /\ pc = "judged" => (final.kind = "report" \/ checked.blocking)
    /\ valid => final.kind = "report" /\ ~ checked.blocking
    /\ runEnd # "open" => (runEnd \in Successes <=> valid)
    /\ pc \in {"record", "telegram", "push", "metrics", "done"} => runEnd # "open"
    /\ gateLogged = "passed" =>
          Clean(checked) /\ (valid \/ runEnd = "aborted_without_finalize")

(* Everything done is done with the final report, and each channel speaks  *)
(* in its turn.                                                            *)
Done(what) == [what |-> what, report |-> final] \in effects

InTurn ==
    /\ \A e \in effects : e.report = final
    /\ pc \in {"record", "telegram"} =>
          \A e \in effects : e.what \notin {"alert", "telegram", "push", "metrics"}
    /\ strict /\ ~ valid /\ pc \in {"push", "metrics", "done"} =>
          Done("alert") /\ \A e \in effects : e.what \notin {"telegram", "push", "metrics"}
    /\ strict /\ valid /\ pc \in {"push", "metrics", "done"} =>
          Done("telegram") /\ \A e \in effects : e.what # "alert"
    /\ strict /\ valid /\ pc = "done" => Done("metrics")

DeliveryInv == Kinds /\ OnDisk /\ Decided /\ InTurn

(* The steps before the pipeline returns.                                  *)
LEMMA ProducingStep ==
    ASSUME DeliveryInv, pc \in Producing,
           \/ StartAttempt \/ OutOfBudget \/ PrimaryWorks \/ PrimaryFails
           \/ FallbackWorks \/ FallbackFails \/ SkipFallback
    PROVE  DeliveryInv'
  <1> USE DEF DeliveryInv, Producing
  <1>1. /\ effects' = {} /\ valid' = FALSE /\ ~ passed' /\ runEnd' = "open"
        /\ gateLogged' = "none" /\ strict' = strict /\ checked' = checked
        /\ pc' \in Producing \ {"judged"}
    BY DEF Decided, StartAttempt, OutOfBudget, PrimaryWorks, PrimaryFails, FallbackWorks,
           FallbackFails, SkipFallback, pipeline, returned, Accept, Kinds
  <1>2. Decided' /\ InTurn'
    BY <1>1 DEF Decided, InTurn, Clean
  <1>3. \/ UNCHANGED <<final, made, disk, unwritten>>
        \/ Accept
        \/ final' = Error /\ UNCHANGED <<made, disk, unwritten>>
    BY DEF StartAttempt, OutOfBudget, PrimaryWorks, PrimaryFails, FallbackWorks,
           FallbackFails, SkipFallback, pipeline, store
  <1>4. Kinds'
    <2>1. CASE UNCHANGED <<final, made, disk, unwritten>>
      BY <1>1, <2>1 DEF Kinds
    <2>2. CASE Accept
      <3>1. made' \in Nat /\ final' = Report(made')
        BY <2>2 DEF Kinds, Accept
      <3>2. checked'.blocking \in BOOLEAN /\ valid' \in BOOLEAN /\ strict' \in BOOLEAN
        BY <1>1 DEF Kinds
      <3>3. PICK d \in Dates :
              \/ disk' = [disk EXCEPT ![d] = made + 1] /\ unwritten' = FALSE
              \/ disk' \in {disk, [disk EXCEPT ![d] = 0]} /\ unwritten' = TRUE
        BY <2>2 DEF Accept
      <3>4. /\ [disk EXCEPT ![d] = made + 1] \in [Dates -> Nat]
            /\ [disk EXCEPT ![d] = 0] \in [Dates -> Nat]
            /\ disk \in [Dates -> Nat]
        BY DEF Kinds
      <3>5. disk' \in [Dates -> Nat] /\ unwritten' \in BOOLEAN
        BY <3>3, <3>4
      <3> QED BY <3>1, <3>2, <3>5 DEF Kinds
    <2>3. CASE final' = Error /\ UNCHANGED <<made, disk, unwritten>>
      BY <1>1, <2>3 DEF Kinds
    <2> QED BY <1>3, <2>1, <2>2, <2>3
  <1>5. final'.kind = "report" => unwritten' \/ \E d \in Dates : disk'[d] = final'.no
    <2>1. CASE UNCHANGED <<final, made, disk, unwritten>>
      BY <2>1 DEF OnDisk
    <2>2. CASE Accept
      <3>1. PICK d \in Dates :
              \/ disk' = [disk EXCEPT ![d] = made + 1] /\ unwritten' = FALSE
              \/ disk' \in {disk, [disk EXCEPT ![d] = 0]} /\ unwritten' = TRUE
        BY <2>2 DEF Accept
      <3>2. unwritten' \/ disk'[d] = made + 1
        BY <3>1 DEF Kinds
      <3>3. final'.no = made + 1
        BY <2>2 DEF Accept, Report
      <3> QED BY <3>2, <3>3
    <2>3. CASE final' = Error /\ UNCHANGED <<made, disk, unwritten>>
      BY <2>3 DEF Error
    <2> QED BY <1>3, <2>1, <2>2, <2>3
  <1>6. /\ pc' \in {"attempt", "primary", "validate", "judged"} => final' # Error
        /\ pc' = "fallback" /\ lastErr' = "none" => final' # Error
    <2>1. CASE StartAttempt
      BY <2>1 DEF StartAttempt, OnDisk
    <2>2. CASE OutOfBudget
      BY <2>2 DEF OutOfBudget, OnDisk, pipeline
    <2>3. CASE PrimaryWorks \/ FallbackWorks
      BY <2>3 DEF PrimaryWorks, FallbackWorks, Accept, Report, Error
    <2>4. CASE PrimaryFails
      <3>1. \E c, a \in CrewTimes : lastErr' \in Outcomes(c, a) \ {"ok"}
        BY <2>4 DEF PrimaryFails
      <3>2. lastErr' # "none"
        BY <3>1 DEF Outcomes, Failures
      <3>3. \/ pc' = "fallback"
            \/ pc' = "primary" /\ final' = final
        BY <2>4 DEF PrimaryFails
      <3> QED BY <2>4, <3>2, <3>3 DEF PrimaryFails, OnDisk
    <2>5. CASE FallbackFails
      BY <2>5 DEF FallbackFails
    <2>6. CASE SkipFallback
      BY <2>6 DEF SkipFallback, OnDisk, pipeline
    <2> QED BY <2>1, <2>2, <2>3, <2>4, <2>5, <2>6
  <1> QED BY <1>2, <1>4, <1>5, <1>6 DEF OnDisk

(* The steps that return, or start over.                                   *)
LEMMA DecidingStep ==
    ASSUME DeliveryInv, Validate \/ Judge \/ Exhausted \/ Abort
    PROVE  DeliveryInv'
  <1> USE DEF DeliveryInv, Producing
  <1>1. CASE Validate
    <2> PICK b \in BOOLEAN, w \in Warnings :
            /\ final = Empty => b
            /\ checked' = Verdict(final.no, b, w)
            /\ passed' = Clean(Verdict(final.no, b, w))
      BY <1>1 DEF Validate
    <2>1. /\ UNCHANGED <<strict, final, made, disk, unwritten, runEnd, gateLogged, valid>>
          /\ effects = {} /\ effects' = {} /\ pc' = "judged" /\ final # Error
      BY <1>1 DEF Validate, Decided, OnDisk, store, returned
    <2>2. ~ b => final.kind = "report"
      BY <2>1 DEF Kinds, Report
    <2>3. checked'.blocking = b
      BY DEF Verdict
    <2>4. passed' => Clean(checked)'
      BY DEF Clean
    <2>5. Kinds'
      BY <2>1, <2>3 DEF Kinds
    <2>6. OnDisk'
      BY <2>1 DEF OnDisk
    <2>7. InTurn'
      BY <2>1, <1>1 DEF InTurn
    <2>8. Decided'
      BY <1>1, <2>1, <2>2, <2>3, <2>4 DEF Decided, Validate
    <2> QED BY <2>5, <2>6, <2>7, <2>8
  <1>2. CASE Judge
    <2>1. /\ UNCHANGED <<strict, final, made, disk, unwritten, checked, passed, effects>>
          /\ effects = {} /\ pc = "judged" /\ final # Error
      BY <1>2 DEF Judge, Decided, OnDisk, store
    <2>2. \/ passed /\ Return(TRUE, "success", checked)
          \/ WarnPass(checked) /\ ~ passed /\ Return(TRUE, "success_warn_pass", checked)
          \/ /\ pc' \in {"attempt", "exhausted"}
             /\ UNCHANGED <<runEnd, gateLogged, valid>>
             /\ ~ passed
      BY <1>2 DEF Judge, returned
    <2>3. passed \/ WarnPass(checked) => final.kind = "report" /\ ~ checked.blocking
      BY <2>1 DEF Decided, Clean, WarnPass
    <2>4. Kinds'
      BY <2>1, <2>2 DEF Kinds, Return
    <2>5. OnDisk'
      BY <2>1, <2>2 DEF OnDisk, Return
    <2>6. InTurn'
      BY <2>1, <2>2 DEF InTurn, Return
    <2>7. Decided'
      <3>1. CASE passed /\ Return(TRUE, "success", checked)
        BY <3>1, <2>1, <2>3 DEF Decided, Return, Successes, Clean
      <3>2. CASE WarnPass(checked) /\ ~ passed /\ Return(TRUE, "success_warn_pass", checked)
        BY <3>2, <2>1, <2>3 DEF Decided, Return, Successes
      <3>3. CASE /\ pc' \in {"attempt", "exhausted"}
                 /\ UNCHANGED <<runEnd, gateLogged, valid>>
                 /\ ~ passed
        BY <3>3, <2>1 DEF Decided
      <3> QED BY <2>2, <3>1, <3>2, <3>3
    <2> QED BY <2>4, <2>5, <2>6, <2>7
  <1>3. CASE Exhausted
    <2>1. /\ UNCHANGED <<strict, final, made, disk, unwritten, checked, passed, effects>>
          /\ effects = {} /\ pc = "exhausted" /\ pc' = "record"
          /\ gateLogged' = IF passed THEN "passed" ELSE "failed"
          /\ \/ /\ final.kind = "report" /\ ~ checked.blocking
                /\ valid' = TRUE /\ runEnd' = "success_warn_pass_exhausted"
             \/ /\ valid' = FALSE
                /\ runEnd' \in {"execution_error_report", "completed_invalid"}
      BY <1>3 DEF Exhausted, Return, Decided, store
    <2>2. Kinds' /\ OnDisk' /\ InTurn'
      BY <2>1 DEF Kinds, OnDisk, InTurn
    <2>3. ~ passed
      BY <1>3 DEF Exhausted, Decided
    <2>4. Decided'
      BY <2>1, <2>3 DEF Decided, Successes
    <2> QED BY <2>2, <2>4
  <1>4. CASE Abort
    BY <1>4 DEF Abort, Return, Kinds, OnDisk, Decided, InTurn, Successes, Clean, Error, store
  <1> QED BY <1>1, <1>2, <1>3, <1>4

(* The rest of the job.                                                    *)
LEMMA DeliveringStep ==
    ASSUME DeliveryInv,
           \/ RecordRecommendations \/ SendTelegram \/ DeliverWebPush \/ SaveMetrics
           \/ JobKilled \/ UNCHANGED vars
    PROVE  DeliveryInv'
  <1> USE DEF DeliveryInv, Producing
  <1>1. /\ UNCHANGED <<strict, pipeline>>
        /\ \/ pc' \notin Producing
           \/ pc' = pc /\ effects' = effects
    BY DEF RecordRecommendations, SendTelegram, DeliverWebPush, SaveMetrics, JobKilled, vars
  <1>2. Kinds' /\ OnDisk'
    BY <1>1 DEF pipeline, store, returned, Kinds, OnDisk
  <1>3. Decided'
    BY <1>1 DEF pipeline, returned, Decided, Clean,
                RecordRecommendations, SendTelegram, DeliverWebPush, SaveMetrics, JobKilled, vars
  <1>4. InTurn'
    <2> USE DEF InTurn, Done, Do
    <2>1. CASE RecordRecommendations
      BY <2>1, <1>1 DEF RecordRecommendations, pipeline, returned
    <2>2. CASE SendTelegram
      BY <2>2, <1>1 DEF SendTelegram, pipeline, returned
    <2>3. CASE DeliverWebPush
      BY <2>3, <1>1 DEF DeliverWebPush, pipeline, returned, ReportOK
    <2>4. CASE SaveMetrics
      BY <2>4, <1>1 DEF SaveMetrics, pipeline, returned, ReportOK, Decided
    <2>5. CASE JobKilled \/ UNCHANGED vars
      BY <2>5, <1>1 DEF JobKilled, vars, pipeline, returned
    <2> QED BY <2>1, <2>2, <2>3, <2>4, <2>5
  <1> QED BY <1>2, <1>3, <1>4

LEMMA DeliveryCorrect == Spec => []DeliveryInv
<1>1. Init => DeliveryInv
  <2> SUFFICES ASSUME Init PROVE DeliveryInv
    OBVIOUS
  <2>1. Kinds
    BY DEF Init, Kinds, NoCheck
  <2>2. OnDisk
    BY DEF Init, OnDisk, Empty, Error
  <2>3. Decided /\ InTurn
    BY DEF Init, Decided, InTurn, Producing
  <2> QED BY <2>1, <2>2, <2>3 DEF DeliveryInv
<1>2. DeliveryInv /\ [Next]_vars => DeliveryInv'
  BY ProducingStep, DecidingStep, DeliveringStep
     DEF Next, Producing, StartAttempt, OutOfBudget, PrimaryWorks, PrimaryFails,
         FallbackWorks, FallbackFails, SkipFallback
<1> QED
  BY <1>1, <1>2, PTL DEF Spec

(***************************************************************************)
(* A report that Telegram carries or Web Push announces is in the file of  *)
(* the date its writer gave it, which the API and the PWA serve, although  *)
(* every kickoff writes before anything has looked at its report, unless   *)
(* that very write failed.                                                 *)
(***************************************************************************)
THEOREM SentIsOnDisk == Spec => []SentIsServed
<1>1. DeliveryInv => SentIsServed
  BY DEF DeliveryInv, OnDisk, InTurn, SentIsServed
<1> QED
  BY <1>1, DeliveryCorrect, PTL

(***************************************************************************)
(* With STRICT_CONSISTENCY_GATE a job that gets through alerted and sent   *)
(* nothing else, or sent one real, unblocked report on every channel.      *)
(***************************************************************************)
THEOREM StrictGateHolds == Spec => []StrictGate
<1>1. DeliveryInv => StrictGate
  <2> SUFFICES ASSUME DeliveryInv, strict, pc = "done"
               PROVE  StrictGate
    BY DEF StrictGate
  <2> USE DEF DeliveryInv, InTurn, Done
  <2>1. CASE valid
    <3>1. /\ {e \in effects : e.what = "alert"} = {}
          /\ [what |-> "telegram", report |-> final] \in effects
          /\ [what |-> "metrics", report |-> final] \in effects
      BY <2>1
    <3>2. final.kind = "report" /\ ~ checked.blocking
      BY <2>1 DEF Decided
    <3> QED BY <3>1, <3>2 DEF StrictGate
  <2>2. CASE ~ valid
    <3>1. /\ {e \in effects : e.what = "alert"} # {}
          /\ {e \in effects : e.what = "telegram"} = {}
          /\ {e \in effects : e.what = "push"} = {}
          /\ {e \in effects : e.what = "metrics"} = {}
      BY <2>2
    <3> QED BY <3>1 DEF StrictGate
  <2> QED BY <2>1, <2>2
<1> QED
  BY <1>1, DeliveryCorrect, PTL

(***************************************************************************)
(* The run log and the scratchpad tell the truth on every way out but a    *)
(* kill: success means valid, a passed gate means a clean report that was  *)
(* returned or a run marked as aborted, and no retry is hidden.            *)
(***************************************************************************)
THEOREM RunLogIsTruthful == Spec => []RunEndTruthful
<1>1. DeliveryInv /\ RetriesCounted => RunEndTruthful
  BY DEF DeliveryInv, Decided, RunEndTruthful
<1> QED
  BY <1>1, DeliveryCorrect, RetriesAreCounted, PTL
=============================================================================
