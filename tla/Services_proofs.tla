--------------------------- MODULE Services_proofs ---------------------------
(***************************************************************************)
(* Proofs about the services that share no state with one another: the     *)
(* store of signal weights, the Telegram sender, the intraday monitor, the *)
(* trigger of crew runs, the portfolio, the Web Push subscriptions, and    *)
(* the tools the crews call (their sources, their cache and their limits). *)
(***************************************************************************)
EXTENDS RunCrew, WebPush, Portfolio, TelegramSender, IntradayMonitor, SignalWeights,
        ToolCalls, ToolLimits, FiniteSetTheorems, WellFoundedInduction, TLAPS

(***************************************************************************)
(* The weights.                                                            *)
(***************************************************************************)

(* While nothing was risked the weights last in use are in the active file *)
(* unless it is torn, and then they are in the backup; a backup begins     *)
(* only over a good active file.                                           *)
WeightsInv ==
    /\ writer \in {"idle", "backup", "dump", "rollback"}
    /\ written \in Nat
    /\ ~ risked =>
         /\ writer \in {"idle", "backup"} /\ active # Torn => whole = active
         /\ writer = "backup" => active # Torn
         /\ active = Torn => whole \in {Absent, previous}
         /\ writer \in {"dump", "rollback"} => active = Torn
         /\ writer = "rollback" => whole = previous

(* The weights last in use are whole in one of the two files, wherever the *)
(* job dies, unless a copy was made from a torn file or a failed one was   *)
(* gone on without.                                                        *)
THEOREM WeightsAreKept == WeightsSpec => []LastWeightsKept
  <1> USE DEF Absent, Torn
  <1>1. WeightsInit => WeightsInv
    BY DEF WeightsInit, WeightsInv
  <1>2. WeightsInv /\ [WeightsNext]_weightsVars => WeightsInv'
    <2> SUFFICES ASSUME WeightsInv, [WeightsNext]_weightsVars
                 PROVE  WeightsInv'
      OBVIOUS
    <2>1. CASE StartWrite
      <3>1. CASE active = Absent
        BY <2>1, <3>1 DEF StartWrite, WeightsInv
      <3>2. CASE active # Absent
        <4>1. ~ risked' => ~ risked /\ active # Torn
          BY <2>1, <3>2, Zenon DEF StartWrite
        <4>2. /\ writer = "idle" /\ written' = written + 1 /\ writer' = "backup"
              /\ active' = active /\ whole' = whole
          BY <2>1, <3>2 DEF StartWrite
        <4> QED BY <4>1, <4>2 DEF WeightsInv
      <3> QED BY <3>1, <3>2
    <2>2. CASE BackedUp
      BY <2>2 DEF BackedUp, WeightsInv
    <2>3. CASE Dumped
      BY <2>3 DEF Dumped, WeightsInv
    <2>4. CASE StartRollback
      BY <2>4 DEF StartRollback, WeightsInv
    <2>5. CASE RolledBack
      BY <2>5 DEF RolledBack, WeightsInv
    <2>6. CASE WriterDies
      BY <2>6 DEF WriterDies, WeightsInv
    <2>7. CASE UNCHANGED weightsVars
      BY <2>7 DEF weightsVars, WeightsInv
    <2> QED BY <2>1, <2>2, <2>3, <2>4, <2>5, <2>6, <2>7 DEF WeightsNext
  <1>3. WeightsInv => LastWeightsKept
    BY DEF WeightsInv, LastWeightsKept
  <1> QED BY <1>1, <1>2, <1>3, PTL DEF WeightsSpec
(***************************************************************************)
(* The Telegram sender.                                                    *)
(***************************************************************************)

(* The attempts made for the chunk being sent have all raised.             *)
SenderInv ==
    /\ chunk \in 1..(MaxChunks + 1) /\ attempt \in 0..Attempts
    /\ copies \in [Chunks -> Nat] /\ fails \in [Chunks -> Nat]
    /\ \A c \in Chunks :
          /\ c < chunk => /\ copies[c] = 0 => fails[c] = Attempts + 1
                          /\ c \in broken => c \in plain
                          /\ copies[c] <= fails[c] + 1
          /\ c = chunk => fails[c] = attempt /\ copies[c] <= fails[c]
          /\ c > chunk => copies[c] = 0 /\ fails[c] = 0

LEMMA SenderStep == SenderInv /\ [TelegramNext]_telegramVars => SenderInv'
  <1> SUFFICES ASSUME SenderInv, [TelegramNext]_telegramVars
               PROVE  SenderInv'
    OBVIOUS
  <1> USE TelegramConstants DEF Chunks, Attempts
  <1>1. CASE Delivered
    <2>1. /\ chunk \in Chunks /\ chunk' = chunk + 1 /\ attempt' = 0 /\ broken' = broken
          /\ copies' = [copies EXCEPT ![chunk] = @ + 1] /\ fails' = fails
          /\ plain \subseteq plain' /\ (chunk \in broken => chunk \in plain')
      BY <1>1 DEF Delivered, Sending, NextChunk, Tried, AsHtml
    <2>2. ASSUME NEW c \in Chunks
          PROVE  /\ c < chunk' => /\ copies'[c] = 0 => fails'[c] = Attempts + 1
                                  /\ c \in broken' => c \in plain'
                                  /\ copies'[c] <= fails'[c] + 1
                 /\ c = chunk' => fails'[c] = attempt' /\ copies'[c] <= fails'[c]
                 /\ c > chunk' => copies'[c] = 0 /\ fails'[c] = 0
      <3>1. CASE c = chunk
        BY <2>1, <3>1 DEF SenderInv
      <3>2. CASE c # chunk
        <4>1. copies'[c] = copies[c] /\ (c < chunk' => c < chunk) /\ (c >= chunk' => c > chunk)
          BY <2>1, <3>2 DEF SenderInv
        <4> QED BY <2>1, <4>1 DEF SenderInv
      <3> QED BY <3>1, <3>2
    <2>3. copies' \in [Chunks -> Nat] /\ fails' \in [Chunks -> Nat]
      BY <2>1 DEF SenderInv
    <2> QED BY <2>1, <2>2, <2>3 DEF SenderInv
  <1>2. CASE ParseError
    <2>1. /\ chunk \in Chunks /\ attempt < Attempts /\ attempt' = attempt + 1
          /\ fails' = [fails EXCEPT ![chunk] = @ + 1]
          /\ UNCHANGED <<broken, chunk, copies, plain>>
      BY <1>2 DEF ParseError, Sending, AsHtml
    <2>2. /\ fails' \in [Chunks -> Nat] /\ attempt' \in 0..Attempts
          /\ fails'[chunk] = attempt' /\ copies[chunk] <= attempt'
          /\ \A c \in Chunks : c # chunk => fails'[c] = fails[c]
      BY <2>1 DEF SenderInv
    <2>3. ASSUME NEW c \in Chunks
          PROVE  /\ c < chunk => /\ copies[c] = 0 => fails'[c] = Attempts + 1
                                 /\ c \in broken => c \in plain
                                 /\ copies[c] <= fails'[c] + 1
                 /\ c = chunk => fails'[c] = attempt' /\ copies[c] <= fails'[c]
                 /\ c > chunk => copies[c] = 0 /\ fails'[c] = 0
      <3>1. CASE c = chunk
        BY <2>1, <2>2, <3>1
      <3>2. CASE c # chunk
        BY <2>2, <3>2 DEF SenderInv
      <3> QED BY <3>1, <3>2
    <2>4. /\ chunk' = chunk /\ copies' = copies /\ broken' = broken /\ plain' = plain
          /\ chunk \in 1..(MaxChunks + 1) /\ copies \in [Chunks -> Nat]
      BY <2>1 DEF SenderInv
    <2> QED BY <2>2, <2>3, <2>4 DEF SenderInv
  <1>3. CASE AttemptFails
    <2>1. /\ chunk \in Chunks /\ broken' = broken
          /\ fails' = [fails EXCEPT ![chunk] = @ + 1]
          /\ \/ copies' = copies
             \/ copies' = [copies EXCEPT ![chunk] = @ + 1]
          /\ plain \subseteq plain' /\ (attempt = Attempts => chunk \in plain')
      BY <1>3 DEF AttemptFails, Sending, Tried, AsHtml
    <2>2. copies' \in [Chunks -> Nat] /\ fails' \in [Chunks -> Nat]
      <3>1. copies[chunk] + 1 \in Nat /\ fails[chunk] + 1 \in Nat
        BY <2>1 DEF SenderInv
      <3>2. copies' \in [Chunks -> Nat]
        BY <2>1, <3>1 DEF SenderInv
      <3>3. fails' \in [Chunks -> Nat]
        BY <2>1, <3>1 DEF SenderInv
      <3> QED BY <3>2, <3>3
    <2>3. /\ fails'[chunk] = attempt + 1
          /\ copies'[chunk] <= attempt + 1
          /\ \A c \in Chunks : c # chunk => copies'[c] = copies[c] /\ fails'[c] = fails[c]
      BY <2>1 DEF SenderInv
    <2>4. CASE attempt = Attempts
      <3>1. chunk' = chunk + 1 /\ attempt' = 0
        BY <1>3, <2>4 DEF AttemptFails, NextChunk
      <3>2. ASSUME NEW c \in Chunks
            PROVE  /\ c < chunk' => /\ copies'[c] = 0 => fails'[c] = Attempts + 1
                                    /\ c \in broken' => c \in plain'
                                    /\ copies'[c] <= fails'[c] + 1
                   /\ c = chunk' => fails'[c] = attempt' /\ copies'[c] <= fails'[c]
                   /\ c > chunk' => copies'[c] = 0 /\ fails'[c] = 0
        <4>1. CASE c = chunk
          BY <2>1, <2>3, <2>4, <3>1, <4>1 DEF SenderInv
        <4>2. CASE c # chunk
          <5>1. (c < chunk' => c < chunk) /\ (c >= chunk' => c > chunk)
            BY <3>1, <4>2 DEF SenderInv
          <5>2. copies'[c] = copies[c] /\ fails'[c] = fails[c] /\ c \in Int /\ chunk' \in Int
            BY <2>3, <3>1, <4>2 DEF SenderInv
          <5>3. c < chunk' => /\ copies[c] = 0 => fails[c] = Attempts + 1
                              /\ c \in broken => c \in plain
                              /\ copies[c] <= fails[c] + 1
            BY <5>1 DEF SenderInv
          <5>4. c >= chunk' => copies[c] = 0 /\ fails[c] = 0
            BY <5>1 DEF SenderInv
          <5> QED BY <2>1, <3>1, <5>2, <5>3, <5>4
        <4> QED BY <4>1, <4>2
      <3>3. chunk' \in 1..(MaxChunks + 1) /\ attempt' \in 0..Attempts
        BY <2>1, <3>1
      <3> QED BY <2>2, <3>2, <3>3 DEF SenderInv
    <2>5. CASE attempt # Attempts
      <3>1. chunk' = chunk /\ attempt' = attempt + 1
        BY <1>3, <2>5 DEF AttemptFails
      <3> QED BY <2>1, <2>2, <2>3, <2>5, <3>1 DEF SenderInv
    <2> QED BY <2>4, <2>5
  <1>4. CASE UNCHANGED telegramVars
    BY <1>4 DEF telegramVars, SenderInv
  <1> QED BY <1>1, <1>2, <1>3, <1>4 DEF TelegramNext

(* Every chunk behind the sender is in the chat or failed five times, and  *)
(* none is there more often than its lost answers explain, for a report of *)
(* any number of chunks.                                                   *)
THEOREM ChunksAreAccounted == TelegramSpec => []ChunksAccounted
  <1>1. TelegramInit => SenderInv
    BY TelegramConstants DEF TelegramInit, SenderInv, Chunks, Attempts
  <1>2. SenderInv => ChunksAccounted
    BY TelegramConstants DEF SenderInv, ChunksAccounted, Chunks, Attempts
  <1> QED BY <1>1, <1>2, SenderStep, PTL DEF TelegramSpec

(***************************************************************************)
(* The intraday monitor.                                                   *)
(***************************************************************************)

(* An alert of an event is in the log, unless the log is known not to have *)
(* it or is about to get it; one about to be sent is not too soon.         *)
MonitorInv ==
    /\ hour \in Nat /\ turn \in {1, 2, 3} /\ place \in {"check", "send", "log"}
    /\ alertLog \in [Event -> Int] /\ alerted \in [Event -> Int]
    /\ \A e \in Event : alerted[e] <= hour /\ alerted[e] >= NotYet /\ alertLog[e] <= hour
    /\ \A e \in Event :
          \/ e \in unlogged \/ alerted[e] <= alertLog[e]
          \/ turn # Done /\ place = "log" /\ e = Events[turn]
    /\ turn # Done /\ place = "send" =>
         Events[turn] \in unlogged \/ ~ Within(alerted[Events[turn]])
    /\ SilenceKept

LEMMA MonitorStep == MonitorInv /\ [MonitorNext]_monitorVars => MonitorInv'
  <1> SUFFICES ASSUME MonitorInv, [MonitorNext]_monitorVars
               PROVE  MonitorInv'
    OBVIOUS
  <1>1. Done = 3 /\ Events[1] = "BTC_1H_MOVE" /\ Events[2] = "VIX_HIGH" /\ Event = {Events[1], Events[2]}
    BY DEF Done, Events, Event
  <1>2. Silence \in Nat
    BY MonitorConstants
  <1>3. turn # Done => Events[turn] \in Event
    BY <1>1 DEF MonitorInv
  <1> USE DEF NotYet
  <1>4. CASE StartJob
    BY <1>1, <1>4 DEF StartJob, MonitorInv, SilenceKept
  <1>5. CASE CheckSilence
    <2> DEFINE e == Events[turn]
    <2>1. /\ turn # Done /\ place = "check" /\ e \in Event
          /\ UNCHANGED <<hour, alertLog, alerted, tooSoon>>
      BY <1>3, <1>5 DEF CheckSilence
    <2>2. CASE NextEvent /\ UNCHANGED unlogged
      BY <1>1, <2>1, <2>2 DEF NextEvent, MonitorInv, SilenceKept
    <2>3. CASE ~ RecentlyAlerted(e) /\ place' = "send" /\ UNCHANGED <<turn, unlogged>>
      <3>1. e \in unlogged \/ alerted[e] <= alertLog[e]
        BY <2>1 DEF MonitorInv
      <3>2. alerted[e] \in Int /\ alertLog[e] \in Int /\ hour \in Nat
        BY <2>1 DEF MonitorInv
      <3>3. e \in unlogged \/ ~ Within(alerted[e])
        <4>1. alerted[e] >= NotYet
          BY <2>1 DEF MonitorInv
        <4> QED BY <1>2, <2>3, <3>1, <3>2, <4>1 DEF RecentlyAlerted, Within
      <3>4. ~ Within(alerted[e])' <=> ~ Within(alerted[e])
        BY <2>1, <2>3 DEF Within
      <3> QED BY <2>1, <2>3, <3>3, <3>4 DEF MonitorInv, SilenceKept
    <2>4. CASE place' = "send" /\ unlogged' = unlogged \union {e} /\ UNCHANGED turn
      BY <2>1, <2>4 DEF MonitorInv, SilenceKept
    <2> QED BY <1>5, <2>2, <2>3, <2>4 DEF CheckSilence
  <1>6. CASE SendAlert
    <2> DEFINE e == Events[turn]
    <2>1. /\ turn # Done /\ place = "send" /\ e \in Event /\ place' = "log"
          /\ UNCHANGED <<hour, turn, alertLog, unlogged>>
      BY <1>3, <1>6 DEF SendAlert
    <2>2. e \in unlogged \/ ~ Within(alerted[e])
      BY <2>1 DEF MonitorInv
    <2> HIDE DEF e
    <2>3. CASE /\ alerted' = [alerted EXCEPT ![e] = hour]
               /\ tooSoon' = IF Within(alerted[e]) THEN tooSoon \union {e} ELSE tooSoon
      <3>1. alerted' \in [Event -> Int] /\ alerted'[e] = hour
            /\ \A f \in Event : f # e => alerted'[f] = alerted[f]
        BY <2>1, <2>3 DEF MonitorInv
      <3>2. tooSoon' \subseteq unlogged
        BY <2>2, <2>3 DEF MonitorInv, SilenceKept
      <3> QED BY <2>1, <3>1, <3>2 DEF MonitorInv, SilenceKept, e
    <2>4. CASE UNCHANGED <<alerted, tooSoon>>
      BY <2>1, <2>4 DEF MonitorInv, SilenceKept
    <2> QED BY <1>6, <2>3, <2>4 DEF SendAlert, e
  <1>7. CASE LogAlert
    <2> DEFINE e == Events[turn]
    <2>1. /\ turn # Done /\ place = "log" /\ e \in Event /\ NextEvent
          /\ UNCHANGED <<hour, alerted, tooSoon>>
      BY <1>3, <1>7 DEF LogAlert
    <2>2. turn' \in {1, 2, 3} /\ place' = "check"
      BY <1>1, <2>1 DEF NextEvent, MonitorInv
    <2> HIDE DEF e
    <2>3. CASE alertLog' = [alertLog EXCEPT ![e] = hour] /\ UNCHANGED unlogged
      <3>1. alertLog' \in [Event -> Int] /\ alertLog'[e] = hour
            /\ \A f \in Event : f # e => alertLog'[f] = alertLog[f]
        BY <2>1, <2>3 DEF MonitorInv
      <3> QED BY <2>1, <2>2, <2>3, <3>1 DEF MonitorInv, SilenceKept, e
    <2>4. CASE unlogged' = unlogged \union {e} /\ UNCHANGED alertLog
      BY <2>1, <2>2, <2>4 DEF MonitorInv, SilenceKept, e
    <2> QED BY <1>7, <2>3, <2>4 DEF LogAlert, e
  <1>8. CASE CancelJob
    BY <1>1, <1>8 DEF CancelJob, MonitorInv, SilenceKept
  <1>9. CASE Hour
    <2>1. hour' = hour + 1 /\ hour \in Nat
          /\ UNCHANGED <<turn, place, alertLog, alerted, tooSoon, unlogged>>
      BY <1>9 DEF Hour, MonitorInv
    <2>2. ASSUME NEW e \in Event, ~ Within(alerted[e]) PROVE ~ Within(alerted[e])'
      BY <1>2, <2>1, <2>2 DEF Within, MonitorInv
    <2> QED BY <1>3, <2>1, <2>2 DEF MonitorInv, SilenceKept
  <1>10. CASE UNCHANGED monitorVars
    BY <1>10 DEF monitorVars, MonitorInv, SilenceKept, Within
  <1> QED BY <1>4, <1>5, <1>6, <1>7, <1>8, <1>9, <1>10 DEF MonitorNext

(* Two alerts of one event are more than the silent hours apart, wherever  *)
(* jobs are cancelled and hours pass, unless its log could not be read or  *)
(* written, for every length of the silence.                               *)
THEOREM SilenceIsKept == MonitorSpec => []SilenceKept
  <1>1. MonitorInit => MonitorInv
    BY DEF MonitorInit, MonitorInv, SilenceKept, NotYet, Done, Events, Event
  <1>2. MonitorInv => SilenceKept
    BY DEF MonitorInv
  <1> QED BY <1>1, <1>2, MonitorStep, PTL DEF MonitorSpec
(***************************************************************************)
(* The trigger of crew runs.                                               *)
(***************************************************************************)
JobIds == Jobs \union {NoJob}

TaskType == [job : JobIds, at : {"none", "created", "spawn", "wait"}]
CrewType == [status : {"idle", "running", "done", "error"}, job : JobIds,
             started : BOOLEAN, finished : BOOLEAN]

CrewTypes ==
    /\ lock \in BOOLEAN /\ asked \in 0..MaxJobs
    /\ task \in TaskType /\ crew \in CrewType
    /\ job \in [Jobs -> {"none", "running", "loaded", "ok", "failed"}]
    /\ rows \in [Jobs -> SUBSET Positions] /\ open \in SUBSET Positions

(* The lock is held from the request to the end of the coroutine.          *)
LockInv ==
    /\ lock <=> task.at # "none"
    /\ task.at # "none" => task.job \in 1..asked
    /\ task.at \in {"spawn", "wait"} => crew.status = "running" /\ crew.job = task.job
    /\ ~ lock => crew.status = IF last = "none" THEN "idle" ELSE last
    /\ ToldRunningJob

(* Of the runs of this server only the one being waited for is alive; runs *)
(* that were not asked for have not begun.                                 *)
ApartInv ==
    /\ \A j \in Jobs : j > asked => job[j] = "none"
    /\ mine \subseteq 1..asked
    /\ \A j \in mine : Alive(j) => task.at = "wait" /\ task.job = j

(* Without overlap at most one run is alive, and what it has loaded holds  *)
(* no closed position.                                                     *)
RowsInv ==
    ~ overlap =>
        /\ open \intersect closed = {}
        /\ \A j, k \in Jobs : Alive(j) /\ Alive(k) => j = k
        /\ \A j \in Jobs : job[j] = "loaded" => rows[j] \intersect closed = {}

CrewInv == CrewTypes /\ LockInv /\ ApartInv /\ RowsInv

(* What the server's steps make of its two records.                        *)
LEMMA CrewRecords ==
    ASSUME task \in TaskType, crew \in CrewType
    PROVE  /\ \A j \in JobIds : LET t == [job |-> j, at |-> "created"] IN
                                  t \in TaskType /\ t.job = j /\ t.at = "created"
           /\ \A a \in {"spawn", "wait"} : LET t == [task EXCEPT !.at = a] IN
                                            t \in TaskType /\ t.job = task.job /\ t.at = a
           /\ LET r == [crew EXCEPT !.status = "running", !.job = task.job] IN
                r \in CrewType /\ r.status = "running" /\ r.job = task.job
           /\ \A s \in {"done", "error"} : LET r == [crew EXCEPT !.status = s, !.finished = TRUE] IN
                                            r \in CrewType /\ r.status = s
           /\ LET r == [crew EXCEPT !.started = TRUE, !.finished = FALSE] IN
                r \in CrewType /\ r.status = crew.status /\ r.job = crew.job
           /\ NoTask \in TaskType /\ NoTask.at = "none" /\ NoTask.job = NoJob
           /\ FreshState \in CrewType /\ FreshState.status = "idle"
  <1>1. NoTask \in TaskType /\ NoTask.at = "none" /\ NoTask.job = NoJob
    BY DEF TaskType, NoTask, JobIds
  <1>2. FreshState \in CrewType /\ FreshState.status = "idle"
    BY DEF CrewType, FreshState, JobIds
  <1>3. \A s \in {"done", "error"} : LET r == [crew EXCEPT !.status = s, !.finished = TRUE] IN
                                     r \in CrewType /\ r.status = s
    BY DEF CrewType
  <1>4. LET r == [crew EXCEPT !.started = TRUE, !.finished = FALSE] IN
          r \in CrewType /\ r.status = crew.status /\ r.job = crew.job
    BY DEF CrewType
  <1>5. LET r == [crew EXCEPT !.status = "running", !.job = task.job] IN
          r \in CrewType /\ r.status = "running" /\ r.job = task.job
    BY DEF CrewType, TaskType
  <1>6. /\ \A j \in JobIds : LET t == [job |-> j, at |-> "created"] IN
                               t \in TaskType /\ t.job = j /\ t.at = "created"
        /\ \A a \in {"spawn", "wait"} : LET t == [task EXCEPT !.at = a] IN
                                         t \in TaskType /\ t.job = task.job /\ t.at = a
    BY DEF TaskType
  <1> QED BY <1>1, <1>2, <1>3, <1>4, <1>5, <1>6

(* The runs themselves do not touch what the server keeps.                 *)
LEMMA ServerUntouched ==
    ASSUME CrewInv, UNCHANGED <<lock, crew, task, last, told>>, asked' \in asked..MaxJobs
    PROVE  LockInv'
  <1>1. task'.at # "none" => task'.job \in 1..asked'
    BY DEF CrewInv, CrewTypes, LockInv
  <1> QED BY <1>1 DEF CrewInv, LockInv, ToldRunningJob

(* And the server does not touch the runs, but to start one.               *)
LEMMA RunsUntouched ==
    ASSUME CrewInv, UNCHANGED <<job, rows, open, closed, overlap>>
    PROVE  RowsInv'
  BY DEF CrewInv, RowsInv, Alive

(* A run begins.                                                           *)
LEMMA RunBegins ==
    ASSUME CrewInv, NEW j \in Jobs, Begin(j), UNCHANGED <<rows, open, closed>>
    PROVE  /\ job' \in [Jobs -> {"none", "running", "loaded", "ok", "failed"}]
           /\ \A k \in Jobs : k # j => job'[k] = job[k]
           /\ job'[j] = "running"
           /\ RowsInv'
  <1>1. job' = [job EXCEPT ![j] = "running"] /\ job \in [Jobs -> {"none", "running", "loaded", "ok", "failed"}]
    BY DEF Begin, CrewInv, CrewTypes
  <1>2. \A k \in Jobs : job'[k] = IF k = j THEN "running" ELSE job[k]
    BY <1>1
  <1>3. ~ overlap' => ~ overlap /\ \A k \in Jobs : ~ Alive(k)
    BY Zenon DEF Begin
  <1>4. RowsInv'
    BY <1>2, <1>3 DEF CrewInv, RowsInv, Alive
  <1> QED BY <1>1, <1>2, <1>4

LEMMA CrewStep == CrewInv /\ [RunNext]_runVars => CrewInv'
  <1> SUFFICES ASSUME CrewInv, [RunNext]_runVars
               PROVE  CrewInv'
    OBVIOUS
  <1> USE RunCrewConstants
  <1>0. CrewTypes /\ LockInv /\ ApartInv /\ RowsInv
    BY DEF CrewInv
  <1>1. CASE PostRun
    <2>1. /\ ~ lock /\ asked < MaxJobs /\ asked' = asked + 1
          /\ mine' = mine \union {asked'} /\ lock' = TRUE
          /\ crew' = [crew EXCEPT !.started = TRUE, !.finished = FALSE]
          /\ task' = [job |-> asked', at |-> "created"]
          /\ UNCHANGED <<job, rows, open, starts, last, told, closed, overlap>>
      BY <1>1 DEF PostRun
    <2>2. /\ asked \in Nat /\ asked' \in Nat /\ asked' \in 1..MaxJobs /\ asked' \in 1..asked'
          /\ asked' \in JobIds
      BY <1>0, <2>1 DEF CrewTypes, JobIds, Jobs
    <2>3. /\ task'.job = asked' /\ task'.at = "created" /\ crew'.status = crew.status
          /\ task' \in TaskType /\ crew' \in CrewType
      BY <1>0, <2>1, <2>2, CrewRecords DEF CrewTypes
    <2>4. CrewTypes'
      BY <1>0, <2>1, <2>2, <2>3 DEF CrewTypes, Jobs
    <2>5. LockInv'
      BY <1>0, <2>1, <2>2, <2>3 DEF LockInv, ToldRunningJob
    <2>6. ApartInv'
      <3>1. \A j \in Jobs : j > asked' => j > asked
        BY <2>1, <2>2 DEF Jobs
      <3>2. mine' \subseteq 1..asked'
        BY <1>0, <2>1, <2>2 DEF ApartInv
      <3>3. job[asked'] = "none"
        BY <1>0, <2>1, <2>2 DEF ApartInv, Jobs
      <3>4. \A j \in mine : ~ Alive(j)
        BY <1>0, <2>1 DEF ApartInv, LockInv
      <3>5. \A j \in mine' : ~ Alive(j)'
        BY <2>1, <3>3, <3>4 DEF Alive
      <3> QED BY <1>0, <2>1, <3>1, <3>2, <3>5 DEF ApartInv
    <2> QED BY <2>1, <2>4, <2>5, <2>6, RunsUntouched DEF CrewInv
  <1>2. CASE PostBusy
    <2>1. /\ lock /\ told' = {[answer |-> crew.job, running |-> task.job, at |-> task.at]}
          /\ UNCHANGED <<lock, crew, task, job, rows, open, asked, mine, starts, last, closed, overlap>>
      BY <1>2 DEF PostBusy
    <2>2. ToldRunningJob'
      BY <1>0, <2>1 DEF ToldRunningJob, LockInv, CrewTypes, TaskType
    <2> QED BY <1>0, <2>1, <2>2 DEF CrewInv, CrewTypes, LockInv, ApartInv, RowsInv, Alive
  <1>3. CASE TaskStarts
    <2>1. /\ task.at = "created"
          /\ crew' = [crew EXCEPT !.status = "running", !.job = task.job]
          /\ task' = [task EXCEPT !.at = "spawn"]
          /\ UNCHANGED <<lock, job, rows, open, asked, mine, starts, last, told, closed, overlap>>
      BY <1>3 DEF TaskStarts
    <2>2. /\ task'.job = task.job /\ task'.at = "spawn"
          /\ crew'.status = "running" /\ crew'.job = task.job
      BY <1>0, <2>1, CrewRecords DEF CrewTypes
    <2>3. CrewTypes'
      BY <1>0, <2>1, <2>2, CrewRecords DEF CrewTypes
    <2>4. LockInv'
      BY <1>0, <2>1, <2>2 DEF LockInv, ToldRunningJob
    <2>5. ApartInv'
      BY <1>0, <2>1, <2>2 DEF ApartInv, Alive
    <2> QED BY <2>1, <2>3, <2>4, <2>5, RunsUntouched DEF CrewInv
  <1>4. CASE Spawn
    <2>1. /\ task.at = "spawn" /\ task' = [task EXCEPT !.at = "wait"] /\ Begin(task.job)
          /\ UNCHANGED <<lock, crew, rows, open, asked, mine, starts, last, told, closed>>
      BY <1>4 DEF Spawn
    <2>2. task'.job = task.job /\ task'.at = "wait"
      BY <1>0, <2>1, CrewRecords DEF CrewTypes
    <2>3. task.job \in 1..asked /\ task.job \in Jobs
      BY <1>0, <2>1 DEF LockInv, CrewTypes, Jobs
    <2>4. /\ job' \in [Jobs -> {"none", "running", "loaded", "ok", "failed"}]
          /\ \A k \in Jobs : k # task.job => job'[k] = job[k]
          /\ job'[task.job] = "running"
          /\ RowsInv'
      BY <2>1, <2>3, RunBegins
    <2>5. CrewTypes'
      BY <1>0, <2>1, <2>2, <2>4, CrewRecords DEF CrewTypes
    <2>6. LockInv'
      BY <1>0, <2>1, <2>2 DEF LockInv, ToldRunningJob
    <2>7. ApartInv'
      <3>1. \A j \in Jobs : j > asked => job'[j] = "none"
        BY <1>0, <2>3, <2>4 DEF ApartInv, CrewTypes, Jobs
      <3>2. \A j \in mine : j \in Jobs /\ ~ Alive(j)
        BY <1>0, <2>1 DEF ApartInv, CrewTypes, Jobs
      <3>3. \A j \in mine : Alive(j)' => j = task.job
        BY <2>4, <3>2 DEF Alive
      <3> QED BY <1>0, <2>1, <2>2, <3>1, <3>3 DEF ApartInv
    <2> QED BY <2>4, <2>5, <2>6, <2>7 DEF CrewInv
  <1>5. CASE SpawnFails \/ TaskEnds
    <2>1. PICK outcome \in {"done", "error"} :
             /\ Finish(outcome) /\ task.at \in {"spawn", "wait"}
             /\ task.at = "wait" => ~ Alive(task.job)
             /\ UNCHANGED <<job, rows, open, asked, mine, starts, told, closed, overlap>>
      BY <1>5 DEF SpawnFails, TaskEnds
    <2>2. /\ crew' = [crew EXCEPT !.status = outcome, !.finished = TRUE]
          /\ last' = outcome /\ lock' = FALSE /\ task' = NoTask
      BY <2>1 DEF Finish
    <2>3. task'.at = "none" /\ task'.job = NoJob /\ crew'.status = outcome
      BY <1>0, <2>2, CrewRecords DEF CrewTypes
    <2>4. CrewTypes'
      BY <1>0, <2>1, <2>2, <2>3, CrewRecords DEF CrewTypes, JobIds
    <2>5. LockInv'
      BY <1>0, <2>1, <2>2, <2>3 DEF LockInv, ToldRunningJob
    <2>6. ApartInv'
      <3>1. \A j \in mine : ~ Alive(j)
        BY <1>0, <2>1 DEF ApartInv
      <3> QED BY <1>0, <2>1, <3>1 DEF ApartInv, Alive
    <2> QED BY <2>1, <2>4, <2>5, <2>6, RunsUntouched DEF CrewInv
  <1>6. CASE ServerRestarts
    <2>1. /\ lock' = FALSE /\ crew' = FreshState /\ task' = NoTask /\ last' = "none"
          /\ mine' = {} /\ told' = {} /\ UNCHANGED <<open, asked, closed, overlap>>
          /\ \/ UNCHANGED <<job, rows>>
             \/ /\ task.at = "wait" /\ Alive(task.job)
                /\ job' = [job EXCEPT ![task.job] = "failed"]
                /\ rows' = [rows EXCEPT ![task.job] = {}]
      BY <1>6 DEF ServerRestarts
    <2>2. task'.at = "none" /\ task'.job = NoJob /\ crew'.status = "idle"
      BY <1>0, <2>1, CrewRecords DEF CrewTypes
    <2>3. /\ job' \in [Jobs -> {"none", "running", "loaded", "ok", "failed"}]
          /\ rows' \in [Jobs -> SUBSET Positions]
          /\ \A j \in Jobs : /\ job'[j] = job[j] \/ (job'[j] = "failed" /\ Alive(j))
                             /\ rows'[j] \subseteq rows[j]
      BY <1>0, <2>1 DEF CrewTypes
    <2>4. CrewTypes'
      BY <1>0, <2>1, <2>2, <2>3, CrewRecords DEF CrewTypes, JobIds
    <2>5. LockInv'
      BY <2>1, <2>2 DEF LockInv, ToldRunningJob
    <2>6. ApartInv'
      <3>1. \A j \in Jobs : j > asked => ~ Alive(j)
        BY <1>0 DEF ApartInv, Alive
      <3> QED BY <1>0, <2>1, <2>3, <3>1 DEF ApartInv
    <2>7. RowsInv'
      <3>1. \A j \in Jobs : Alive(j)' => Alive(j)
        BY <2>3 DEF Alive
      <3>2. \A j \in Jobs : job'[j] = "loaded" => job[j] = "loaded" /\ rows'[j] \subseteq rows[j]
        BY <2>3
      <3> QED BY <1>0, <2>1, <3>1, <3>2 DEF RowsInv
    <2> QED BY <2>4, <2>5, <2>6, <2>7 DEF CrewInv
  <1>7. CASE ScheduledRun
    <2>1. /\ asked < MaxJobs /\ asked' = asked + 1 /\ Begin(asked')
          /\ UNCHANGED <<lock, crew, task, rows, open, mine, starts, last, told, closed>>
      BY <1>7 DEF ScheduledRun
    <2>2. /\ asked \in Nat /\ asked' \in 1..MaxJobs /\ asked' \in Jobs /\ asked' \in asked..MaxJobs
      BY <1>0, <2>1 DEF CrewTypes, Jobs
    <2>3. /\ job' \in [Jobs -> {"none", "running", "loaded", "ok", "failed"}]
          /\ \A k \in Jobs : k # asked' => job'[k] = job[k]
          /\ RowsInv'
      BY <2>1, <2>2, RunBegins
    <2>4. CrewTypes'
      BY <1>0, <2>1, <2>2, <2>3 DEF CrewTypes
    <2>5. LockInv'
      BY <2>1, <2>2, ServerUntouched
    <2>6. ApartInv'
      <3>1. \A j \in Jobs : j > asked' => job'[j] = "none"
        BY <1>0, <2>1, <2>2, <2>3 DEF ApartInv, Jobs
      <3>2. mine \subseteq 1..asked' /\ \A j \in mine : j \in Jobs /\ j # asked'
        BY <1>0, <2>1, <2>2 DEF ApartInv, Jobs
      <3> QED BY <1>0, <2>1, <2>3, <3>1, <3>2 DEF ApartInv, Alive
    <2> QED BY <2>3, <2>4, <2>5, <2>6 DEF CrewInv
  <1>8. ASSUME NEW j \in Jobs, RunStep(j)
        PROVE  CrewInv'
    <2>1. /\ Alive(j) /\ UNCHANGED <<lock, crew, task, asked, mine, starts, last, told, overlap>>
          /\ \E s \in {"loaded", "ok", "failed"} : job' = [job EXCEPT ![j] = s]
      BY <1>8 DEF RunStep, LoadPositions, ClosePositions, RunFails, Alive
    <2>2. /\ job' \in [Jobs -> {"none", "running", "loaded", "ok", "failed"}]
          /\ \A k \in Jobs : k # j => job'[k] = job[k]
      BY <1>0, <2>1 DEF CrewTypes
    <2>3. asked' \in asked..MaxJobs
      BY <1>0, <2>1 DEF CrewTypes
    <2>4. LockInv'
      BY <2>1, <2>3, ServerUntouched
    <2>5. ApartInv'
      <3>1. \A k \in Jobs : Alive(k)' => Alive(k)
        BY <2>1, <2>2 DEF Alive
      <3>2. \A k \in Jobs : k > asked => job'[k] = "none"
        BY <1>0, <2>1, <2>2 DEF ApartInv, Alive
      <3>3. mine \subseteq Jobs
        BY <1>0 DEF ApartInv, CrewTypes, Jobs
      <3> QED BY <1>0, <2>1, <3>1, <3>2, <3>3 DEF ApartInv
    <2>6. RowsInv' /\ rows' \in [Jobs -> SUBSET Positions] /\ open' \in SUBSET Positions
      <3>1. CASE LoadPositions(j)
        <4>1. /\ job' = [job EXCEPT ![j] = "loaded"] /\ rows' = [rows EXCEPT ![j] = open]
              /\ UNCHANGED <<open, closed, overlap>>
          BY <3>1 DEF LoadPositions
        <4>2. \A k \in Jobs : Alive(k)' => Alive(k)
          BY <2>1, <2>2 DEF Alive
        <4>3. \A k \in Jobs : rows'[k] = IF k = j THEN open ELSE rows[k]
          BY <1>0, <4>1 DEF CrewTypes
        <4>4. RowsInv'
          BY <1>0, <2>2, <4>1, <4>2, <4>3 DEF RowsInv
        <4>5. open \in SUBSET Positions
          BY <1>0 DEF CrewTypes
        <4> QED BY <1>0, <4>1, <4>4, <4>5 DEF CrewTypes
      <3>2. CASE ClosePositions(j)
        <4>1. PICK hit \in SUBSET rows[j] :
                 /\ open' = IF hit = {} THEN open ELSE rows[j] \ hit
                 /\ closed' = closed \union hit
          BY <3>2 DEF ClosePositions
        <4>2. /\ job[j] = "loaded" /\ job' = [job EXCEPT ![j] = "ok"]
              /\ rows' = [rows EXCEPT ![j] = {}] /\ overlap' = overlap
          BY <3>2 DEF ClosePositions
        <4>3. job'[j] = "ok"
          BY <1>0, <4>2 DEF CrewTypes
        <4>4. \A k \in Jobs : Alive(k)' => Alive(k) /\ k # j
          BY <2>2, <4>3 DEF Alive
        <4>5. ~ overlap => \A k \in Jobs : ~ Alive(k)'
          BY <1>0, <2>1, <4>4 DEF RowsInv
        <4>6. ~ overlap => open' \intersect closed' = {}
          BY <1>0, <4>1, <4>2 DEF RowsInv
        <4>7. RowsInv'
          BY <4>2, <4>5, <4>6 DEF RowsInv, Alive
        <4>8. open' \in SUBSET Positions
          BY <1>0, <4>1 DEF CrewTypes
        <4> QED BY <1>0, <4>2, <4>7, <4>8 DEF CrewTypes
      <3>3. CASE RunFails(j)
        <4>1. /\ job' = [job EXCEPT ![j] = "failed"] /\ rows' = [rows EXCEPT ![j] = {}]
              /\ UNCHANGED <<open, closed, overlap>>
          BY <3>3 DEF RunFails
        <4>2. \A k \in Jobs : Alive(k)' => Alive(k)
          BY <2>1, <2>2 DEF Alive
        <4>3. \A k \in Jobs : rows'[k] \subseteq rows[k] /\ (job'[k] = "loaded" => job[k] = "loaded")
          BY <1>0, <4>1 DEF CrewTypes
        <4>4. RowsInv'
          BY <1>0, <4>1, <4>2, <4>3 DEF RowsInv
        <4> QED BY <1>0, <4>1, <4>4 DEF CrewTypes
      <3> QED BY <1>8, <3>1, <3>2, <3>3 DEF RunStep
    <2>7. CrewTypes'
      BY <1>0, <2>1, <2>2, <2>6 DEF CrewTypes
    <2> QED BY <2>4, <2>5, <2>6, <2>7 DEF CrewInv
  <1>9. CASE UNCHANGED runVars
    BY <1>0, <1>9 DEF runVars, CrewInv, CrewTypes, LockInv, ToldRunningJob, ApartInv, RowsInv, Alive
  <1> QED BY <1>1, <1>2, <1>3, <1>4, <1>5, <1>6, <1>7, <1>8, <1>9 DEF RunNext, TaskStep

LEMMA CrewCorrect == RunSpec => []CrewInv
  <1>1. RunInit => CrewInv
    <2> SUFFICES ASSUME RunInit
                 PROVE  CrewInv
      OBVIOUS
    <2>1. /\ task.at = "none" /\ task.job = NoJob /\ crew.status = "idle"
          /\ task \in TaskType /\ crew \in CrewType
      BY DEF RunInit, NoTask, FreshState, TaskType, CrewType, JobIds
    <2>2. CrewTypes
      <3>1. asked \in 0..MaxJobs /\ lock \in BOOLEAN /\ open \in SUBSET Positions
        <4>1. asked \in 0..MaxJobs
          BY RunCrewConstants DEF RunInit
        <4>2. lock \in BOOLEAN
          BY Zenon DEF RunInit
        <4>3. open \in SUBSET Positions
          BY Zenon DEF RunInit
        <4> QED BY <4>1, <4>2, <4>3
      <3>2. /\ job \in [Jobs -> {"none", "running", "loaded", "ok", "failed"}]
            /\ rows \in [Jobs -> SUBSET Positions]
        BY DEF RunInit
      <3> QED BY <2>1, <3>1, <3>2 DEF CrewTypes
    <2>3. \A j \in Jobs : job[j] = "none"
      BY DEF RunInit
    <2> QED BY <2>1, <2>2, <2>3 DEF RunInit, CrewInv, LockInv, ToldRunningJob, ApartInv, RowsInv, Alive
  <1> QED BY <1>1, CrewStep, PTL DEF RunSpec

(* A client that polls or is refused is told of the run that is on, and    *)
(* between runs how the last one ended, whatever fails to start, fails or  *)
(* is restarted.                                                           *)
THEOREM StatusIsTruthful == RunSpec => []StatusTruthful
  <1>1. CrewInv => StatusTruthful
    BY DEF CrewInv, CrewTypes, TaskType, LockInv, StatusTruthful
  <1> QED BY <1>1, CrewCorrect, PTL

(* The runs of one server never overlap, and without any other overlap no  *)
(* closed position is opened again, for any positions and any number of    *)
(* runs and restarts.                                                      *)
THEOREM ClosedPositionsStay == RunSpec => []ClosedStays
  <1>1. CrewInv => ClosedStays
    BY DEF CrewInv, ApartInv, RowsInv, ClosedStays, TriggeredApart
  <1> QED BY <1>1, CrewCorrect, PTL
(***************************************************************************)
(* The portfolio.                                                          *)
(***************************************************************************)
Holding == [id : Nat, shares : {0, 1}, notes : {0, 1}]

Edit == [op : {"none", "add", "delete", "patch"}, ids : SUBSET Nat,
         field : Fields \union {"none"}, rows : SUBSET Holding]

(* The id is one that an import is going to insert, or has inserted.       *)
Claims(r, i) == edit[r].op = "add" /\ (i \in edit[r].ids \/ Has(edit[r].rows, i))

PortfolioTypes ==
    /\ created \in Nat
    /\ holdings \subseteq Holding /\ expected \subseteq Holding /\ doubtful \subseteq Nat
    /\ edit \in [Requests -> Edit]
    /\ \A r \in Requests : /\ edit[r].op = "patch" => edit[r].field \in Fields
                           /\ edit[r].op = "add" => edit[r].ids # {}
                           /\ edit[r].op # "add" => edit[r].rows = {}

(* Every id that is in use was given out.                                  *)
GivenOut ==
    /\ \A i \in Nat : Has(holdings, i) \/ Has(expected, i) \/ i \in doubtful => i <= created
    /\ \A r \in Requests, i \in Nat : Claims(r, i) => i <= created
    /\ \A r \in Requests, i \in Nat : i \in edit[r].ids => i <= created

(* The ids an import has still to insert are in no row and no request is   *)
(* about them, and no two imports have an id in common.                    *)
ImportsApart ==
    /\ \A r \in Requests : edit[r].op = "add" =>
         \A i \in edit[r].ids : /\ ~ Has(holdings, i) /\ ~ Has(expected, i)
                                /\ i \notin doubtful /\ ~ Has(edit[r].rows, i)
                                /\ \A s \in Requests : s # r => i \notin edit[s].ids
    /\ \A r, s \in Requests, i \in Nat : r # s => ~ (Claims(r, i) /\ Claims(s, i))

(* A row is one of the answered requests' when no import answers for it.   *)
RowsAgree ==
    \A h \in Holding : (h \in holdings /\ h.id \notin doubtful /\ ~ Importing(h.id))
                         <=> (h \in expected /\ h.id \notin doubtful)

(* What the statements keep in the table.                                  *)
TableInv == PortfolioTypes /\ GivenOut /\ ImportsApart /\ RowsAgree

(* In the file, until two requests cross, there is at most one under way,  *)
(* and it changes the rows it loaded as they still are.                    *)
FileInv ==
    /\ doubtful = {}
    /\ edit = [r \in Requests |-> edit[r]]
    /\ ~ crossed => /\ holdings = expected
                    /\ \A r \in Requests : edit[r] # None => edit[r].rows = holdings
                    /\ \A r, s \in Requests : edit[r] # None /\ edit[s] # None => r = s

StoreInv == /\ table \in BOOLEAN
            /\ table => TableInv
            /\ ~ table => FileInv

LEMMA ChangesType ==
    ASSUME created \in Nat, holdings \subseteq Holding, NEW e \in Changes
    PROVE  /\ e \in Edit /\ e.rows = {} /\ e.op \in {"add", "delete", "patch"}
           /\ e.op = "patch" => e.field \in Fields
           /\ e.op = "add" => \E n \in Nat \ {0} : /\ e.ids = created + 1 .. created + n
                                                   /\ Cardinality(e.ids) = n
                                                   /\ Created(e) = created + n
           /\ e.op # "add" => Created(e) = created /\ \A i \in e.ids : Has(holdings, i)
  <1>1. CASE \E n \in 1..(MaxIds - created) :
               e = [op |-> "add", ids |-> created + 1 .. created + n, field |-> "none", rows |-> {}]
    <2>1. PICK n \in 1..(MaxIds - created) :
               e = [op |-> "add", ids |-> created + 1 .. created + n, field |-> "none", rows |-> {}]
      BY <1>1
    <2>2. n \in Nat \ {0} /\ created + 1 \in Int /\ created + n \in Int
      BY PortfolioConstants
    <2>3. Cardinality(created + 1 .. created + n) = n
      BY <2>2, FS_Interval
    <2>4. created + 1 .. created + n \in SUBSET Nat
      BY <2>2
    <2> QED BY <2>1, <2>2, <2>3, <2>4 DEF Edit, Created
  <1>2. CASE \E h \in holdings :
               e = [op |-> "delete", ids |-> {h.id}, field |-> "none", rows |-> {}]
    BY <1>2 DEF Edit, Created, Holding, Has
  <1>3. CASE \E h \in holdings, f \in Fields :
               e = [op |-> "patch", ids |-> {h.id}, field |-> f, rows |-> {}]
    BY <1>3 DEF Edit, Created, Holding, Has
  <1> QED BY <1>1, <1>2, <1>3 DEF Changes

(* What a patch makes of a row.                                            *)
Patched(h, e) == IF h.id \in e.ids THEN [h EXCEPT ![e.field] = 1] ELSE h

LEMMA PatchedType ==
    ASSUME NEW h \in Holding, NEW e, e.field \in Fields
    PROVE  Patched(h, e) \in Holding /\ Patched(h, e).id = h.id
  <1>1. CASE e.field = "shares"
    BY <1>1 DEF Patched, Holding
  <1>2. CASE e.field = "notes"
    BY <1>2 DEF Patched, Holding
  <1> QED BY <1>1, <1>2 DEF Fields

(* A deletion or a patch makes the same of the rows of an id in two stores *)
(* that have the same rows of it, and gives no row a new id.               *)
LEMMA ChangedAlike ==
    ASSUME NEW e, e.op = "delete" \/ (e.op = "patch" /\ e.field \in Fields),
           NEW S, S \subseteq Holding
    PROVE  /\ Changed(S, e) \subseteq Holding
           /\ \A i : Has(Changed(S, e), i) => Has(S, i)
           /\ \A T : \A h \in Holding :
                T \subseteq Holding /\ (\A g \in Holding : g.id = h.id => (g \in S => g \in T))
                  => (h \in Changed(S, e) => h \in Changed(T, e))
  <1>1. CASE e.op = "delete"
    <2>1. \A T : Changed(T, e) = {h \in T : h.id \notin e.ids}
      BY <1>1 DEF Changed
    <2> QED BY <2>1 DEF Has
  <1>2. CASE e.op = "patch" /\ e.field \in Fields
    <2>1. \A T : Changed(T, e) = {Patched(h, e) : h \in T}
      BY <1>2 DEF Changed, Patched
    <2>2. \A h \in Holding : Patched(h, e) \in Holding /\ Patched(h, e).id = h.id
      BY <1>2, PatchedType
    <2> HIDE DEF Holding
    <2>3. ASSUME NEW h \in Changed(S, e)
          PROVE  h \in Holding /\ \E g \in S : g.id = h.id
      BY <2>1, <2>2, <2>3
    <2>4. ASSUME NEW T, NEW h \in Holding, T \subseteq Holding,
                 \A g \in Holding : g.id = h.id => (g \in S => g \in T), h \in Changed(S, e)
          PROVE  h \in Changed(T, e)
      <3>1. PICK g \in S : h = Patched(g, e)
        BY <2>1, <2>4
      <3>2. g \in T
        BY <2>2, <2>4, <3>1
      <3> QED BY <2>1, <3>1, <3>2
    <2> QED BY <2>3, <2>4 DEF Has
  <1> QED BY <1>1, <1>2

(* A set of numbers has a least one.                                       *)
Below == OpToRel(<, Nat)

LEMMA LeastOf ==
    ASSUME NEW S \in SUBSET Nat, S # {}
    PROVE  \E i \in S : \A k \in S : i <= k
  <1>1. \A a, b \in Nat : <<a, b>> \in Below <=> a < b
    BY DEF Below, OpToRel
  <1>2. IsWellFoundedOn(Below, Nat)
    BY NatLessThanWellFounded, Zenon DEF Below
  <1>3. PICK i \in S : \A k \in S : ~ (<<k, i>> \in Below)
    BY <1>2, WFMin
  <1>4. \A k \in S : k \in Nat /\ i \in Nat /\ ~ (k < i)
    BY <1>1, <1>3
  <1>5. \A k \in S : i <= k
    BY <1>4
  <1> QED BY <1>5

LEMMA FirstOf ==
    ASSUME NEW S \in SUBSET Nat, S # {}
    PROVE  First(S) \in S
  BY LeastOf DEF First

(* The file.                                                               *)
LEMMA FileStep == StoreInv /\ ~ table /\ [PortfolioNext]_portfolioVars => StoreInv'
  <1> SUFFICES ASSUME StoreInv, ~ table, [PortfolioNext]_portfolioVars
               PROVE  StoreInv'
    OBVIOUS
  <1>1. FileInv /\ table = FALSE
    BY DEF StoreInv
  <1>2. ASSUME NEW r \in Requests, LoadRows(r)
        PROVE  FileInv' /\ table' = table
    <2>1. PICK e \in Changes : edit' = [edit EXCEPT ![r] = [e EXCEPT !.rows = holdings]]
      BY <1>2 DEF LoadRows
    <2>2. [e EXCEPT !.rows = holdings].rows = holdings
      BY DEF Changes
    <2>3. /\ edit' = [s \in Requests |-> edit'[s]]
          /\ edit'[r].rows = holdings /\ \A s \in Requests : s # r => edit'[s] = edit[s]
      BY <1>1, <2>1, <2>2 DEF FileInv
    <2>4. /\ doubtful' = doubtful /\ holdings' = holdings /\ expected' = expected /\ table' = table
          /\ ~ crossed' => ~ crossed /\ \A s \in Requests : edit[s] = None
      BY <1>2 DEF LoadRows
    <2> QED BY <1>1, <2>3, <2>4 DEF FileInv
  <1>3. ASSUME NEW r \in Requests, SaveRows(r)
        PROVE  FileInv' /\ table' = table
    <2>1. /\ doubtful' = doubtful /\ crossed' = crossed /\ table' = table
          /\ edit[r] # None /\ edit' = [edit EXCEPT ![r] = None]
          /\ holdings' = Changed(edit[r].rows, edit[r]) /\ expected' = Changed(expected, edit[r])
      BY <1>3 DEF SaveRows
    <2>2. /\ edit' = [s \in Requests |-> edit'[s]]
          /\ edit'[r] = None /\ \A s \in Requests : s # r => edit'[s] = edit[s]
      BY <1>1, <2>1 DEF FileInv
    <2>3. ~ crossed => holdings' = expected' /\ \A s \in Requests : edit'[s] = None
      BY <1>1, <2>1, <2>2 DEF FileInv
    <2> QED BY <1>1, <2>1, <2>2, <2>3 DEF FileInv
  <1>4. ASSUME NEW r \in Requests, SaveFails(r)
        PROVE  FileInv' /\ table' = table
    <2>1. /\ UNCHANGED <<doubtful, crossed, table, holdings, expected>>
          /\ edit' = [edit EXCEPT ![r] = None]
      BY <1>4 DEF SaveFails
    <2>2. /\ edit' = [s \in Requests |-> edit'[s]]
          /\ edit'[r] = None /\ \A s \in Requests : s # r => edit'[s] = edit[s]
      BY <1>1, <2>1 DEF FileInv
    <2> QED BY <1>1, <2>1, <2>2 DEF FileInv
  <1>5. CASE UNCHANGED portfolioVars
    BY <1>1, <1>5 DEF portfolioVars, FileInv, StoreInv
  <1>6. \A r \in Requests : ~ (TakeUp(r) \/ ChangeRow(r) \/ InsertRow(r) \/ RequestFails(r))
    BY DEF TakeUp, ChangeRow, InsertRow, RequestFails
  <1> QED BY <1>1, <1>2, <1>3, <1>4, <1>5, <1>6 DEF PortfolioNext, StoreInv

(* A request is about to make a change.                                    *)
LEMMA ChangeBegins ==
    ASSUME TableInv, table, table' = table, NEW r \in Requests, edit[r] = None,
           NEW e \in Edit, e.rows = {}, e.op \in {"add", "delete", "patch"},
           e.op = "patch" => e.field \in Fields,
           created' \in Nat, created <= created',
           e.op = "add" => e.ids # {} /\ \A i \in e.ids : created < i /\ i <= created',
           e.op # "add" => \A i \in e.ids : Has(holdings, i),
           edit' = [edit EXCEPT ![r] = e],
           UNCHANGED <<holdings, expected, doubtful>>
    PROVE  TableInv'
  <1>1. /\ edit' \in [Requests -> Edit] /\ edit'[r] = e
        /\ \A s \in Requests : s # r => edit'[s] = edit[s]
    BY DEF TableInv, PortfolioTypes
  <1>2. edit[r].op = "none"
    BY DEF None
  <1>3. PortfolioTypes'
    BY <1>1 DEF TableInv, PortfolioTypes
  <1>4. /\ \A i : ~ Claims(r, i) /\ (Claims(r, i)' <=> e.op = "add" /\ i \in e.ids)
        /\ \A s \in Requests : s # r => \A i : Claims(s, i)' <=> Claims(s, i)
    BY <1>1, <1>2 DEF Claims, Has
  <1>5. \A i : Importing(i)' <=> Importing(i)
    BY <1>1, <1>2 DEF Importing, Has
  <1>6. \A i \in Nat : i <= created => i <= created'
    BY DEF TableInv, PortfolioTypes
  <1>7. GivenOut'
    <2>1. \A i \in e.ids : i \in Nat => i <= created'
      BY <1>6 DEF TableInv, GivenOut
    <2>2. \A s \in Requests, i \in Nat : i \in edit'[s].ids => i <= created'
      BY <1>1, <1>6, <2>1 DEF TableInv, GivenOut
    <2> QED BY <1>4, <1>6, <2>2 DEF TableInv, GivenOut, Has
  <1>8. ASSUME e.op = "add", NEW i \in e.ids
        PROVE  /\ i \in Nat /\ ~ Has(holdings, i) /\ ~ Has(expected, i) /\ i \notin doubtful
               /\ \A s \in Requests : ~ Claims(s, i)
    <2>1. i \in Nat /\ created \in Nat /\ ~ (i <= created)
      BY <1>8 DEF TableInv, PortfolioTypes, Edit
    <2> QED BY <2>1 DEF TableInv, GivenOut
  <1>9. ImportsApart'
    <2>1. \A s \in Requests : edit'[s].op = "add" =>
            \A i \in edit'[s].ids : /\ ~ Has(holdings', i) /\ ~ Has(expected', i)
                                    /\ i \notin doubtful' /\ ~ Has(edit'[s].rows, i)
      <3>1. \A i : ~ Has({}, i)
        BY DEF Has
      <3> QED BY <1>1, <1>8, <3>1 DEF TableInv, ImportsApart
    <2>3. ASSUME NEW s \in Requests, edit'[s].op = "add", NEW i \in edit'[s].ids,
                 NEW q \in Requests, q # s
          PROVE  i \notin edit'[q].ids
      <3>1. CASE s = r
        <4>1. i \in e.ids /\ i \in Nat /\ created \in Nat /\ ~ (i <= created)
          BY <1>1, <2>3, <3>1 DEF TableInv, PortfolioTypes, Edit
        <4> QED BY <1>1, <2>3, <3>1, <4>1 DEF TableInv, GivenOut
      <3>2. CASE s # r
        <4>1. edit[s].op = "add" /\ i \in edit[s].ids /\ i \in Nat
          BY <1>1, <2>3, <3>2 DEF TableInv, PortfolioTypes, Edit
        <4>2. ~ Has(holdings, i) /\ i <= created /\ (q # s => i \notin edit[q].ids)
          BY <2>3, <4>1 DEF TableInv, ImportsApart, GivenOut
        <4>3. i \notin e.ids
          <5>1. i <= created /\ created \in Nat /\ i \in Nat
            BY <4>1, <4>2 DEF TableInv, PortfolioTypes
          <5>2. CASE e.op = "add"
            BY <5>1, <5>2
          <5>3. CASE e.op # "add"
            BY <4>2, <5>3
          <5> QED BY <5>2, <5>3
        <4> QED BY <1>1, <2>3, <4>2, <4>3
      <3> QED BY <3>1, <3>2
    <2>2. \A s, t \in Requests, i \in Nat : s # t => ~ (Claims(s, i)' /\ Claims(t, i)')
      BY <1>4, <1>8 DEF TableInv, ImportsApart
    <2> QED BY <2>1, <2>2, <2>3 DEF ImportsApart
  <1>10. RowsAgree'
    BY <1>5 DEF TableInv, RowsAgree
  <1> QED BY <1>3, <1>7, <1>9, <1>10 DEF TableInv

(* A deletion or a patch of one row.                                       *)
LEMMA RowChanged ==
    ASSUME TableInv, NEW r \in Requests, ChangeRow(r)
    PROVE  TableInv' /\ table' = table
  <1> DEFINE e == edit[r]
  <1>1. /\ e.op = "delete" \/ (e.op = "patch" /\ e.field \in Fields)
        /\ holdings' = Changed(holdings, e) /\ expected' = Changed(expected, e)
        /\ edit' = [edit EXCEPT ![r] = None]
        /\ table' = table /\ created' = created /\ doubtful' = doubtful
    BY DEF ChangeRow, TableInv, PortfolioTypes
  <1>2. holdings \subseteq Holding /\ expected \subseteq Holding
    BY DEF TableInv, PortfolioTypes
  <1>3. /\ holdings' \subseteq Holding /\ expected' \subseteq Holding
        /\ \A i : Has(holdings', i) => Has(holdings, i)
        /\ \A i : Has(expected', i) => Has(expected, i)
    <2> HIDE DEF e
    <2> QED BY <1>1, <1>2, ChangedAlike
  <1>4. /\ edit' \in [Requests -> Edit] /\ edit'[r] = None
        /\ None.op = "none" /\ None.ids = {} /\ None.rows = {}
        /\ \A s \in Requests : s # r => edit'[s] = edit[s]
    <2>1. None \in Edit
      BY DEF None, Edit
    <2> QED BY <1>1, <2>1 DEF TableInv, PortfolioTypes, None
  <1>5. PortfolioTypes'
    BY <1>1, <1>3, <1>4 DEF TableInv, PortfolioTypes
  <1>6. /\ \A s \in Requests, i \in Nat : Claims(s, i)' => Claims(s, i)
        /\ \A i : Importing(i)' <=> Importing(i)
    BY <1>1, <1>4 DEF Claims, Importing
  <1>7. GivenOut'
    <2>1. \A s \in Requests : \A i \in edit'[s].ids : i \in edit[s].ids
      BY <1>4
    <2> QED BY <1>1, <1>3, <1>6, <2>1 DEF TableInv, GivenOut
  <1>8. ImportsApart'
    <2>1. ASSUME NEW s \in Requests, edit'[s].op = "add", NEW i \in edit'[s].ids
          PROVE  /\ ~ Has(holdings', i) /\ ~ Has(expected', i)
                 /\ i \notin doubtful' /\ ~ Has(edit'[s].rows, i)
                 /\ \A t \in Requests : t # s => i \notin edit'[t].ids
      <3>1. s # r /\ edit'[s] = edit[s]
        BY <1>4, <2>1
      <3>2. /\ ~ Has(holdings, i) /\ ~ Has(expected, i)
            /\ i \notin doubtful /\ ~ Has(edit[s].rows, i)
            /\ \A t \in Requests : t # s => i \notin edit[t].ids
        BY <2>1, <3>1 DEF TableInv, ImportsApart
      <3> QED BY <1>1, <1>3, <1>4, <3>1, <3>2
    <2>2. \A s, t \in Requests, k \in Nat : s # t => ~ (Claims(s, k)' /\ Claims(t, k)')
      BY <1>6 DEF TableInv, ImportsApart
    <2> QED BY <2>1, <2>2 DEF ImportsApart
  <1>9. RowsAgree'
    <2> HIDE DEF e
    <2> SUFFICES ASSUME NEW h \in Holding, h.id \notin doubtful
                 PROVE  (h \in holdings' /\ ~ Importing(h.id)) <=> h \in expected'
      BY <1>1, <1>6 DEF RowsAgree
    <2>1. CASE Importing(h.id)
      <3>1. h.id \in Nat
        BY DEF Holding
      <3>2. \A g \in Holding : g.id = h.id => g \notin expected
        BY <2>1 DEF TableInv, RowsAgree
      <3>3. ~ Has(expected, h.id)
        BY <1>2, <3>2 DEF Has
      <3>4. h \notin expected'
        BY <1>3, <3>3 DEF Has
      <3> QED BY <2>1, <3>4
    <2>2. CASE ~ Importing(h.id)
      <3>1. \A g \in Holding : g.id = h.id => (g \in holdings <=> g \in expected)
        BY <2>2 DEF TableInv, RowsAgree
      <3>2. h \in Changed(holdings, e) => h \in Changed(expected, e)
        BY <1>1, <1>2, <3>1, ChangedAlike
      <3>3. h \in Changed(expected, e) => h \in Changed(holdings, e)
        BY <1>1, <1>2, <3>1, ChangedAlike
      <3> QED BY <1>1, <2>2, <3>2, <3>3
    <2> QED BY <2>1, <2>2
  <1> QED BY <1>1, <1>5, <1>7, <1>8, <1>9 DEF TableInv

(* Of the rows a failing statement was not about, the store keeps all and  *)
(* gets none, and it gets no row with another new id.                      *)
LEMMA FailedChange ==
    ASSUME NEW e \in Edit, e.op \in {"add", "delete", "patch"}, e.op = "patch" => e.field \in Fields,
           NEW S, S \subseteq Holding
    PROVE  /\ Changed(S, e) \subseteq Holding
           /\ \A i : Has(Changed(S, e), i) => Has(S, i) \/ i \in e.ids
           /\ \A h \in Holding : h.id \notin e.ids => (h \in Changed(S, e) <=> h \in S)
  <1>1. CASE e.op = "add"
    <2>1. Changed(S, e) = S \union {New(i) : i \in e.ids}
      BY <1>1 DEF Changed
    <2>2. \A i \in e.ids : New(i) \in Holding /\ New(i).id = i
      BY DEF New, Holding, Edit
    <2> HIDE DEF Holding
    <2> QED BY <2>1, <2>2 DEF Has
  <1>2. CASE e.op = "delete"
    <2>1. Changed(S, e) = {h \in S : h.id \notin e.ids}
      BY <1>2 DEF Changed
    <2> QED BY <2>1 DEF Has
  <1>3. CASE e.op = "patch"
    <2>1. Changed(S, e) = {Patched(h, e) : h \in S}
      BY <1>3 DEF Changed, Patched
    <2>2. \A h \in Holding : Patched(h, e) \in Holding /\ Patched(h, e).id = h.id
      BY <1>3, PatchedType
    <2>3. \A h \in Holding : h.id \notin e.ids => Patched(h, e) = h
      BY DEF Patched
    <2> HIDE DEF Holding
    <2>4. Changed(S, e) \subseteq Holding /\ \A i : Has(Changed(S, e), i) => Has(S, i)
      BY <2>1, <2>2 DEF Has
    <2>5. ASSUME NEW h \in Holding, h.id \notin e.ids, h \in Changed(S, e)
          PROVE  h \in S
      <3>1. PICK g \in S : h = Patched(g, e)
        BY <2>1, <2>5
      <3>2. g \in Holding
        OBVIOUS
      <3>3. g.id \notin e.ids
        BY <2>2, <2>5, <3>1, <3>2
      <3> QED BY <2>3, <3>1, <3>2, <3>3
    <2>6. ASSUME NEW h \in Holding, h.id \notin e.ids, h \in S
          PROVE  h \in Changed(S, e)
      BY <2>1, <2>3, <2>6
    <2> QED BY <2>4, <2>5, <2>6
  <1> QED BY <1>1, <1>2, <1>3

(* A request ends with an error.                                           *)
LEMMA RequestEnds ==
    ASSUME TableInv, NEW r \in Requests, RequestFails(r)
    PROVE  TableInv' /\ table' = table
  <1> DEFINE e == [edit[r] EXCEPT !.ids = Touched(edit[r])]
  <1>1. /\ edit[r].op # "none" /\ edit' = [edit EXCEPT ![r] = None] /\ table
        /\ holdings' = holdings \/ holdings' = Changed(holdings, e)
        /\ doubtful' = doubtful \union {h.id : h \in e.rows} \union e.ids
        /\ UNCHANGED <<table, created, expected>>
    BY DEF RequestFails
  <1>2. /\ edit[r] \in Edit /\ edit[r].op \in {"add", "delete", "patch"}
        /\ edit[r].op = "patch" => edit[r].field \in Fields
    BY <1>1 DEF TableInv, PortfolioTypes, Edit
  <1>3. Touched(edit[r]) \subseteq edit[r].ids
    <2>1. CASE edit[r].op = "add"
      <3>1. edit[r].ids \in SUBSET Nat /\ edit[r].ids # {}
        BY <1>2, <2>1 DEF TableInv, PortfolioTypes, Edit
      <3> QED BY <2>1, <3>1, FirstOf DEF Touched
    <2>2. CASE edit[r].op # "add"
      BY <2>2 DEF Touched
    <2> QED BY <2>1, <2>2
  <1>4. /\ e \in Edit /\ e.op = edit[r].op /\ e.field = edit[r].field /\ e.rows = edit[r].rows
        /\ e.ids \subseteq edit[r].ids
    BY <1>2, <1>3 DEF Edit
  <1> HIDE DEF e
  <1>5. /\ edit' \in [Requests -> Edit] /\ edit'[r].op = "none"
        /\ edit'[r].ids = {} /\ edit'[r].rows = {}
        /\ \A s \in Requests : s # r => edit'[s] = edit[s]
    <2>1. None \in Edit
      BY DEF None, Edit
    <2> QED BY <1>1, <2>1 DEF TableInv, PortfolioTypes, None
  <1>6. \A i : i \in doubtful' <=> i \in doubtful \/ Has(edit[r].rows, i) \/ i \in e.ids
    BY <1>1, <1>4 DEF Has
  <1>7. /\ holdings' \subseteq Holding
        /\ \A i : Has(holdings', i) => Has(holdings, i) \/ i \in e.ids
        /\ \A h \in Holding : h.id \notin e.ids => (h \in holdings' <=> h \in holdings)
    <2>1. holdings \subseteq Holding
      BY DEF TableInv, PortfolioTypes
    <2>2. CASE holdings' = holdings
      BY <2>1, <2>2
    <2>3. CASE holdings' = Changed(holdings, e)
      BY <1>2, <1>4, <2>1, <2>3, FailedChange
    <2> QED BY <1>1, <2>2, <2>3
  <1>8. PortfolioTypes'
    <2>1. (\A h \in e.rows : h.id \in Nat) /\ e.ids \subseteq Nat
      BY <1>4 DEF Edit, Holding
    <2>2. doubtful' \subseteq Nat
      BY <1>1, <2>1 DEF TableInv, PortfolioTypes
    <2>3. \A s \in Requests : /\ edit'[s].op = "patch" => edit'[s].field \in Fields
                              /\ edit'[s].op = "add" => edit'[s].ids # {}
                              /\ edit'[s].op # "add" => edit'[s].rows = {}
      BY <1>5 DEF TableInv, PortfolioTypes
    <2> QED BY <1>1, <1>5, <1>7, <2>2, <2>3 DEF TableInv, PortfolioTypes
  <1>9. \A s \in Requests, i \in Nat : Claims(s, i)' => s # r /\ Claims(s, i)
    BY <1>5 DEF Claims
  <1>10. edit[r].op # "add" => edit[r].rows = {}
    BY DEF TableInv, PortfolioTypes
  <1>11. GivenOut'
    <2>1. \A i \in Nat : Has(edit[r].rows, i) => i <= created
      BY <1>10 DEF TableInv, GivenOut, Claims, Has
    <2>2. \A i \in Nat : i \in e.ids => i <= created
      BY <1>4 DEF TableInv, GivenOut
    <2>3. \A s \in Requests, i \in Nat : i \in edit'[s].ids => i \in edit[s].ids
      BY <1>5
    <2> QED BY <1>1, <1>6, <1>7, <1>9, <2>1, <2>2, <2>3 DEF TableInv, GivenOut
  <1>12. ImportsApart'
    <2>1. ASSUME NEW s \in Requests, edit'[s].op = "add", NEW i \in edit'[s].ids
          PROVE  /\ ~ Has(holdings', i) /\ ~ Has(expected', i)
                 /\ i \notin doubtful' /\ ~ Has(edit'[s].rows, i)
                 /\ \A t \in Requests : t # s => i \notin edit'[t].ids
      <3>1. s # r /\ i \in Nat /\ edit'[s] = edit[s]
        BY <1>5, <2>1 DEF TableInv, PortfolioTypes, Edit
      <3>2. /\ ~ Has(holdings, i) /\ ~ Has(expected, i)
            /\ i \notin doubtful /\ ~ Has(edit[s].rows, i)
            /\ \A t \in Requests : t # s => i \notin edit[t].ids
        BY <2>1, <3>1 DEF TableInv, ImportsApart
      <3>3. i \notin e.ids
        BY <1>4, <3>1, <3>2
      <3>4. ~ Has(edit[r].rows, i)
        BY <1>10, <2>1, <3>1 DEF TableInv, ImportsApart, Claims, Has
      <3> QED BY <1>1, <1>5, <1>6, <1>7, <3>1, <3>2, <3>3, <3>4
    <2>2. \A s, t \in Requests, i \in Nat : s # t => ~ (Claims(s, i)' /\ Claims(t, i)')
      BY <1>9 DEF TableInv, ImportsApart
    <2> QED BY <2>1, <2>2 DEF ImportsApart
  <1>13. RowsAgree'
    <2>1. \A i : Importing(i) <=> Importing(i)' \/ (edit[r].op = "add" /\ Has(edit[r].rows, i))
      BY <1>1, <1>5 DEF Importing
    <2>2. ASSUME NEW h \in Holding, h.id \notin doubtful'
          PROVE  (h \in holdings' /\ ~ Importing(h.id)') <=> h \in expected'
      <3>1. h.id \notin doubtful /\ ~ Has(edit[r].rows, h.id) /\ h.id \notin e.ids
        BY <1>6, <2>2
      <3> QED BY <1>1, <1>7, <2>1, <3>1 DEF TableInv, RowsAgree
    <2> QED BY <2>2 DEF RowsAgree
  <1> QED BY <1>1, <1>8, <1>11, <1>12, <1>13 DEF TableInv

(* An import stores its next row, which may be its last.                   *)
LEMMA RowImported ==
    ASSUME TableInv, NEW r \in Requests, InsertRow(r)
    PROVE  TableInv' /\ table' = table
  <1> DEFINE i == First(edit[r].ids)
             e == [edit[r] EXCEPT !.ids = @ \ {i}, !.rows = @ \union {New(i)}]
  <1>1. /\ edit[r].op = "add" /\ holdings' = holdings \union {New(i)} /\ table
        /\ table' = table /\ created' = created /\ doubtful' = doubtful
        /\ IF e.ids = {}
           THEN /\ edit' = [edit EXCEPT ![r] = None]
                /\ expected' = expected \union {h \in holdings' : Has(e.rows, h.id)}
           ELSE edit' = [edit EXCEPT ![r] = e] /\ expected' = expected
    BY DEF InsertRow
  <1>2. edit[r] \in Edit /\ edit[r].ids \in SUBSET Nat /\ edit[r].ids # {}
    BY <1>1 DEF TableInv, PortfolioTypes, Edit
  <1>3. i \in edit[r].ids /\ i \in Nat
    BY <1>2, FirstOf
  <1> HIDE DEF i
  <1>4. New(i) \in Holding /\ New(i).id = i
    BY <1>3 DEF New, Holding
  <1>5. /\ e \in Edit /\ e.op = "add" /\ e.ids = edit[r].ids \ {i}
        /\ e.rows = edit[r].rows \union {New(i)}
    BY <1>1, <1>2, <1>4 DEF Edit
  <1> HIDE DEF e
  <1>6. /\ ~ Has(holdings, i) /\ ~ Has(expected, i) /\ i \notin doubtful
        /\ Claims(r, i) /\ \A s \in Requests : s # r => ~ Claims(s, i)
    BY <1>1, <1>3 DEF TableInv, ImportsApart, Claims
  <1>7. /\ edit' \in [Requests -> Edit] /\ edit'[r] = IF e.ids = {} THEN None ELSE e
        /\ \A s \in Requests : s # r => edit'[s] = edit[s]
    <2>1. None \in Edit
      BY DEF None, Edit
    <2> QED BY <1>1, <1>5, <2>1 DEF TableInv, PortfolioTypes
  <1>8. /\ \A k : Has(holdings', k) <=> Has(holdings, k) \/ k = i
        /\ \A k : Has(e.rows, k) <=> Has(edit[r].rows, k) \/ k = i
    BY <1>1, <1>4, <1>5 DEF Has
  <1>9. /\ holdings' \subseteq Holding /\ expected' \subseteq Holding
        /\ \A k : Has(expected', k) =>
             \/ Has(expected, k)
             \/ e.ids = {} /\ (Has(edit[r].rows, k) \/ k = i)
    <2>1. holdings' \subseteq Holding /\ expected \subseteq Holding
      BY <1>1, <1>4 DEF TableInv, PortfolioTypes
    <2>2. CASE e.ids = {}
      BY <1>1, <1>8, <2>1, <2>2 DEF Has
    <2>3. CASE e.ids # {}
      BY <1>1, <2>1, <2>3
    <2> QED BY <2>1, <2>2, <2>3
  <1>10. PortfolioTypes'
    <2>1. \A s \in Requests : /\ edit'[s].op = "patch" => edit'[s].field \in Fields
                              /\ edit'[s].op = "add" => edit'[s].ids # {}
                              /\ edit'[s].op # "add" => edit'[s].rows = {}
      BY <1>5, <1>7 DEF TableInv, PortfolioTypes, None
    <2> QED BY <1>1, <1>7, <1>9, <2>1 DEF TableInv, PortfolioTypes
  <1>11. /\ \A k : Claims(r, k)' => Claims(r, k)
         /\ \A s \in Requests : s # r => \A k : Claims(s, k)' <=> Claims(s, k)
    BY <1>1, <1>3, <1>5, <1>7, <1>8 DEF Claims, None
  <1>12. GivenOut'
    <2>1. \A k \in Nat : Has(edit[r].rows, k) \/ k = i => k <= created
      BY <1>1, <1>6 DEF TableInv, GivenOut, Claims
    <2>2. \A s \in Requests : \A k \in edit'[s].ids : k \in edit[s].ids
      BY <1>5, <1>7 DEF None
    <2> QED BY <1>1, <1>8, <1>9, <1>11, <2>1, <2>2 DEF TableInv, GivenOut
  <1>13. ImportsApart'
    <2>1. ASSUME NEW s \in Requests, edit'[s].op = "add", NEW k \in edit'[s].ids
          PROVE  /\ ~ Has(holdings', k) /\ ~ Has(expected', k)
                 /\ k \notin doubtful' /\ ~ Has(edit'[s].rows, k)
      <3>1. CASE s = r
        <4>1. e.ids # {} /\ edit'[r] = e /\ k \in edit[r].ids /\ k # i
          BY <1>5, <1>7, <2>1, <3>1 DEF None
        <4>2. /\ ~ Has(holdings, k) /\ ~ Has(expected, k)
              /\ k \notin doubtful /\ ~ Has(edit[r].rows, k)
          BY <1>1, <4>1 DEF TableInv, ImportsApart
        <4> QED BY <1>1, <1>8, <1>9, <3>1, <4>1, <4>2
      <3>2. CASE s # r
        <4>1. edit'[s] = edit[s] /\ edit[s].op = "add" /\ k \in edit[s].ids /\ Claims(s, k)
          BY <1>7, <2>1, <3>2 DEF Claims
        <4>2. k \in Nat /\ k # i /\ ~ Has(edit[r].rows, k)
          <5>1. k \in Nat
            BY <4>1 DEF TableInv, PortfolioTypes, Edit
          <5>2. ~ Claims(r, k)
            BY <3>2, <4>1, <5>1 DEF TableInv, ImportsApart
          <5> QED BY <1>1, <1>6, <5>1, <5>2 DEF Claims
        <4>3. /\ ~ Has(holdings, k) /\ ~ Has(expected, k)
              /\ k \notin doubtful /\ ~ Has(edit[s].rows, k)
          BY <4>1 DEF TableInv, ImportsApart
        <4> QED BY <1>1, <1>8, <1>9, <4>1, <4>2, <4>3
      <3> QED BY <3>1, <3>2
    <2>2. \A s, t \in Requests, k \in Nat : s # t => ~ (Claims(s, k)' /\ Claims(t, k)')
      BY <1>11 DEF TableInv, ImportsApart
    <2>3. ASSUME NEW s \in Requests, edit'[s].op = "add", NEW k \in edit'[s].ids,
                 NEW t \in Requests, t # s
          PROVE  k \notin edit'[t].ids
      <3>1. /\ k \in edit[s].ids /\ edit[s].op = "add"
            /\ \A n \in edit'[t].ids : n \in edit[t].ids
        BY <1>1, <1>5, <1>7, <2>3 DEF None
      <3> QED BY <2>3, <3>1 DEF TableInv, ImportsApart
    <2> QED BY <2>1, <2>2, <2>3 DEF ImportsApart
  <1>14. RowsAgree'
    <2> SUFFICES ASSUME NEW h \in Holding, h.id \notin doubtful
                 PROVE  (h \in holdings' /\ ~ Importing(h.id)') <=> h \in expected'
      BY <1>1 DEF RowsAgree
    <2>1. (h \in holdings /\ ~ Importing(h.id)) <=> h \in expected
      BY DEF TableInv, RowsAgree
    <2>2. h.id \in Nat
      BY DEF Holding
    <2>3. CASE h.id = i \/ Has(edit[r].rows, h.id)
      <3>1. h \notin expected
        <4>1. CASE h.id = i
          BY <1>6, <4>1 DEF Has
        <4>2. CASE Has(edit[r].rows, h.id)
          BY <1>1, <2>1, <4>2 DEF Importing
        <4> QED BY <2>3, <4>1, <4>2
      <3>2. \A s \in Requests : s # r => ~ Claims(s, h.id)
        BY <1>1, <1>6, <2>2, <2>3 DEF TableInv, ImportsApart, Claims
      <3>3. Importing(h.id)' <=> e.ids # {}
        <4>1. CASE e.ids = {}
          <5>1. edit'[r].op = "none"
            BY <1>7, <4>1 DEF None
          <5>2. \A s \in Requests : ~ (edit'[s].op = "add" /\ Has(edit'[s].rows, h.id))
            BY <1>7, <3>2, <5>1 DEF Claims
          <5> QED BY <4>1, <5>2 DEF Importing
        <4>2. CASE e.ids # {}
          <5>1. edit'[r] = e /\ Has(e.rows, h.id)
            BY <1>7, <1>8, <2>3, <4>2
          <5> QED BY <1>1, <1>5, <4>2, <5>1 DEF Importing
        <4> QED BY <4>1, <4>2
      <3>4. h \in expected' <=> e.ids = {} /\ h \in holdings'
        BY <1>1, <1>8, <2>3, <3>1
      <3> QED BY <3>3, <3>4
    <2>4. CASE ~ (h.id = i \/ Has(edit[r].rows, h.id))
      <3>1. Importing(h.id)' <=> Importing(h.id)
        <4>1. ~ Has(e.rows, h.id) /\ None.op = "none"
          BY <1>8, <2>4 DEF None
        <4>2. \A s \in Requests : (edit'[s].op = "add" /\ Has(edit'[s].rows, h.id))
                                    <=> (edit[s].op = "add" /\ Has(edit[s].rows, h.id))
          BY <1>7, <2>4, <4>1
        <4> QED BY <1>1, <4>2 DEF Importing
      <3>2. (h \in expected' <=> h \in expected) /\ (h \in holdings' <=> h \in holdings)
        BY <1>1, <1>4, <1>8, <2>4
      <3> QED BY <2>1, <3>1, <3>2
    <2> QED BY <2>3, <2>4
  <1> QED BY <1>1, <1>10, <1>12, <1>13, <1>14 DEF TableInv

LEMMA TableStep == StoreInv /\ table /\ [PortfolioNext]_portfolioVars => StoreInv'
  <1> SUFFICES ASSUME StoreInv, table, [PortfolioNext]_portfolioVars
               PROVE  TableInv' /\ table' = table
    BY DEF StoreInv
  <1>1. TableInv
    BY DEF StoreInv
  <1>2. ASSUME NEW r \in Requests, TakeUp(r)
        PROVE  TableInv' /\ table' = table
    <2>1. PICK e \in Changes : created' = Created(e) /\ edit' = [edit EXCEPT ![r] = e]
      BY <1>2 DEF TakeUp
    <2>2. /\ edit[r] = None /\ table' = table
          /\ UNCHANGED <<holdings, expected, doubtful>>
      BY <1>2 DEF TakeUp
    <2>3. created \in Nat /\ holdings \subseteq Holding
      BY <1>1 DEF TableInv, PortfolioTypes
    <2>4. /\ e \in Edit /\ e.rows = {} /\ e.op \in {"add", "delete", "patch"}
          /\ e.op = "patch" => e.field \in Fields
          /\ e.op = "add" => \E n \in Nat \ {0} : /\ e.ids = created + 1 .. created + n
                                                  /\ Cardinality(e.ids) = n
                                                  /\ Created(e) = created + n
          /\ e.op # "add" => Created(e) = created /\ \A i \in e.ids : Has(holdings, i)
      BY <2>3, ChangesType
    <2>5. /\ created' \in Nat /\ created <= created'
          /\ e.op = "add" => e.ids # {} /\ \A i \in e.ids : created < i /\ i <= created'
      <3>1. CASE e.op = "add"
        <4>1. PICK n \in Nat \ {0} : e.ids = created + 1 .. created + n /\ Created(e) = created + n
          BY <2>4, <3>1
        <4>2. created' = created + n /\ created + 1 \in e.ids
          BY <2>1, <2>3, <4>1
        <4> QED BY <2>3, <4>1, <4>2
      <3>2. CASE e.op # "add"
        BY <2>1, <2>3, <2>4, <3>2
      <3> QED BY <3>1, <3>2
    <2> QED BY <1>1, <2>1, <2>2, <2>4, <2>5, ChangeBegins
  <1>3. CASE UNCHANGED portfolioVars
    BY <1>1, <1>3 DEF portfolioVars, TableInv, PortfolioTypes, GivenOut, ImportsApart, RowsAgree,
                      Claims, Importing
  <1>4. \A r \in Requests : ~ (LoadRows(r) \/ SaveRows(r) \/ SaveFails(r))
    BY DEF LoadRows, SaveRows, SaveFails
  <1> QED BY <1>1, <1>2, <1>3, <1>4, RowChanged, RowImported, RequestEnds DEF PortfolioNext

(* The store is what the answered requests made it, but for the rows of    *)
(* imports that are under way or were answered with an error, and in the   *)
(* file once two requests have crossed.                                    *)
THEOREM HoldingsAreAsAnswered == PortfolioSpec => []HoldingsAsAnswered
  <1>1. PortfolioInit => StoreInv
    <2>1. \A i : ~ Has({}, i)
      BY DEF Has
    <2>2. None \in Edit /\ None.op = "none" /\ None.ids = {} /\ None.rows = {}
      BY DEF None, Edit
    <2> QED BY <2>1, <2>2 DEF PortfolioInit, StoreInv, FileInv, TableInv, PortfolioTypes, GivenOut,
                              ImportsApart, RowsAgree, Claims, Importing
  <1>2. StoreInv /\ [PortfolioNext]_portfolioVars => StoreInv'
    BY FileStep, TableStep
  <1>3. StoreInv => HoldingsAsAnswered
    <2> SUFFICES ASSUME StoreInv, table \/ ~ crossed
                 PROVE  {h \in holdings : h.id \notin doubtful /\ ~ Importing(h.id)}
                          = {h \in expected : h.id \notin doubtful}
      BY DEF HoldingsAsAnswered
    <2>1. CASE table
      BY <2>1 DEF StoreInv, TableInv, PortfolioTypes, RowsAgree
    <2>2. CASE ~ table
      BY <2>2 DEF StoreInv, FileInv, Importing
    <2> QED BY <2>1, <2>2
  <1> QED BY <1>1, <1>2, <1>3, PTL DEF PortfolioSpec
(***************************************************************************)
(* The Web Push subscriptions.                                             *)
(***************************************************************************)

(* Induction, for a set of numbers: the least number outside of it.        *)
LEMMA InAllNumbers ==
    ASSUME NEW S, 0 \in S, \A n \in Nat : n \in S => n + 1 \in S
    PROVE  \A n \in Nat : n \in S
  <1>1. SUFFICES ASSUME Nat \ S # {} PROVE FALSE
    OBVIOUS
  <1>2. PICK x \in Nat \ S : \A y \in Nat \ S : x <= y
    <2>1. Nat \ S \in SUBSET Nat
      OBVIOUS
    <2> QED BY <1>1, <2>1, LeastOf
  <1>3. x - 1 \in Nat /\ ~ (x <= x - 1) /\ (x - 1) + 1 = x
    BY <1>2
  <1> QED BY <1>2, <1>3

(* What Pruning is defined by.                                             *)
PrunedTo(h, n, kept) ==
    kept = [i \in 0..n |-> IF i = 0 THEN << >> ELSE Recent(kept[i - 1], h[i])]

LEMMA PruningDefined ==
    ASSUME NEW h, Len(h) \in Nat
    PROVE  PrunedTo(h, Len(h), Pruning(h))
  <1> DEFINE S == {n \in Nat : \E kept : PrunedTo(h, n, kept)}
  <1>1. 0 \in S
    <2>1. PrunedTo(h, 0, [i \in 0..0 |-> << >>])
      BY DEF PrunedTo
    <2> QED BY <2>1
  <1>2. ASSUME NEW n \in Nat, n \in S PROVE n + 1 \in S
    <2>1. PICK kept : PrunedTo(h, n, kept)
      BY <1>2
    <2> DEFINE more == [i \in 0..(n + 1) |->
                          IF i = n + 1 THEN Recent(kept[n], h[n + 1]) ELSE kept[i]]
               next(i) == IF i = 0 THEN << >> ELSE Recent(more[i - 1], h[i])
    <2>2. ASSUME NEW i \in 0..(n + 1) PROVE more[i] = next(i)
      <3>1. CASE i = n + 1
        <4>1. i - 1 = n /\ n \in 0..(n + 1) /\ n # n + 1 /\ i # 0
          BY <3>1
        <4>2. more[i - 1] = kept[n]
          BY <4>1
        <4> QED BY <3>1, <4>1, <4>2
      <3>2. CASE i # n + 1 /\ i # 0
        <4>1. i \in 0..n /\ i - 1 \in 0..(n + 1) /\ i - 1 # n + 1
          BY <3>2
        <4>2. more[i] = kept[i] /\ more[i - 1] = kept[i - 1]
          BY <3>2, <4>1
        <4>3. kept[i] = Recent(kept[i - 1], h[i])
          BY <2>1, <3>2, <4>1 DEF PrunedTo
        <4> QED BY <3>2, <4>2, <4>3
      <3>3. CASE i # n + 1 /\ i = 0
        <4>1. 0 \in 0..n
          OBVIOUS
        <4>2. kept[0] = << >>
          BY <2>1, <4>1 DEF PrunedTo
        <4> QED BY <3>3, <4>2
      <3> QED BY <3>1, <3>2, <3>3
    <2>3. more = [i \in 0..(n + 1) |-> next(i)]
      <3>1. more = [i \in 0..(n + 1) |-> more[i]]
        OBVIOUS
      <3> HIDE DEF more, next
      <3> QED BY <2>2, <3>1
    <2>4. PrunedTo(h, n + 1, more)
      BY <2>3 DEF PrunedTo
    <2> HIDE DEF more
    <2> QED BY <2>4
  <1>3. \A n \in Nat : n \in S
    <2> HIDE DEF S
    <2> QED BY <1>1, <1>2, InAllNumbers
  <1>4. \E kept : PrunedTo(h, Len(h), kept)
    BY <1>3
  <1> QED BY <1>4, Zenon DEF Pruning, PrunedTo

(* The kept part k is the end of s, and what precedes it is out of the     *)
(* window.                                                                 *)
Rest(k, s, n) ==
    /\ k \in Seq(Nat) /\ Len(k) <= n
    /\ \A i \in 1..Len(k) : k[i] = s[n - Len(k) + i]
    /\ \A i \in 1..(n - Len(k)) : s[i] < clock - Minute

Ordered(s) == \A i, j \in 1..Len(s) : i <= j => s[i] <= s[j]

(* Pruning hits that are in order drops the first of them.                 *)
LEMMA FreshIsRest ==
    ASSUME NEW h \in Seq(Nat), Ordered(h), clock \in Nat
    PROVE  Rest(Fresh(h), h, Len(h))
  <1> DEFINE kept == Pruning(h)
             Good(n) == /\ Rest(kept[n], h, n)
                        /\ \A i \in 1..Len(kept[n]) : kept[n][i] >= clock - Minute
             S == {n \in Nat : n <= Len(h) => Good(n)}
  <1>1. Len(h) \in Nat /\ Minute \in Nat /\ clock - Minute \in Int
    BY WebPushConstants
  <1>2. \A i \in 0..Len(h) : kept[i] = IF i = 0 THEN << >> ELSE Recent(kept[i - 1], h[i])
    BY <1>1, PruningDefined DEF PrunedTo
  <1>3. 0 \in S
    <2>1. kept[0] = << >>
      BY <1>1, <1>2
    <2> HIDE DEF kept
    <2>2. kept[0] \in Seq(Nat) /\ Len(kept[0]) = 0
      BY <2>1
    <2> QED BY <2>2 DEF Rest
  <1> HIDE DEF kept
  <1>4. ASSUME NEW n \in Nat, n \in S PROVE n + 1 \in S
    <2> SUFFICES ASSUME n + 1 <= Len(h) PROVE Good(n + 1)
      OBVIOUS
    <2>1. Good(n) /\ n + 1 \in 0..Len(h) /\ n + 1 # 0 /\ (n + 1) - 1 = n
      BY <1>1, <1>4
    <2>2. kept[n + 1] = Recent(kept[n], h[n + 1])
      BY <1>2, <2>1
    <2>3. h[n + 1] \in Nat /\ kept[n] \in Seq(Nat) /\ Len(kept[n]) \in Nat /\ Len(kept[n]) <= n
      BY <1>1, <2>1 DEF Rest
    <2>4. CASE h[n + 1] >= clock - Minute
      <3>1. kept[n + 1] = Append(kept[n], h[n + 1])
        BY <2>2, <2>4 DEF Recent
      <3>2. /\ kept[n + 1] \in Seq(Nat) /\ Len(kept[n + 1]) = Len(kept[n]) + 1
            /\ \A i \in 1..Len(kept[n]) : kept[n + 1][i] = kept[n][i]
            /\ kept[n + 1][Len(kept[n]) + 1] = h[n + 1]
        BY <2>3, <3>1
      <3>3. ASSUME NEW i \in 1..Len(kept[n + 1])
            PROVE  /\ kept[n + 1][i] = h[(n + 1) - Len(kept[n + 1]) + i]
                   /\ kept[n + 1][i] >= clock - Minute
        <4>1. CASE i = Len(kept[n]) + 1
          <5>1. (n + 1) - Len(kept[n + 1]) + i = n + 1
            BY <2>3, <3>2, <4>1
          <5> QED BY <2>4, <3>2, <4>1, <5>1
        <4>2. CASE i # Len(kept[n]) + 1
          <5> DEFINE m == Len(kept[n])
          <5>1. m \in Nat /\ Len(kept[n + 1]) = m + 1
            BY <2>3, <3>2
          <5> HIDE DEF m
          <5>2. i \in 1..m /\ (n + 1) - (m + 1) + i = n - m + i
            BY <4>2, <5>1 DEF m
          <5>3. kept[n][i] = h[n - m + i] /\ kept[n][i] >= clock - Minute
            BY <2>1, <5>2 DEF Rest, m
          <5> QED BY <3>2, <5>1, <5>2, <5>3 DEF m
        <4> QED BY <4>1, <4>2
      <3>4. (n + 1) - Len(kept[n + 1]) = n - Len(kept[n]) /\ Len(kept[n + 1]) <= n + 1
        BY <2>3, <3>2
      <3> QED BY <2>1, <3>2, <3>3, <3>4 DEF Rest
    <2>5. CASE ~ (h[n + 1] >= clock - Minute)
      <3>1. kept[n + 1] = kept[n] /\ h[n + 1] < clock - Minute
        BY <1>1, <2>2, <2>3, <2>5 DEF Recent
      <3>2. Len(kept[n]) = 0
        <4> SUFFICES ASSUME Len(kept[n]) # 0 PROVE FALSE
          OBVIOUS
        <4> DEFINE m == Len(kept[n])
                   k == n - m + 1
        <4>1. m \in Nat /\ m # 0 /\ m <= n /\ n + 1 <= Len(h)
          BY <2>3
        <4> HIDE DEF m
        <4>2. 1 \in 1..m /\ k \in 1..Len(h) /\ k <= n + 1 /\ n + 1 \in 1..Len(h)
          BY <1>1, <4>1
        <4>3. kept[n][1] = h[k] /\ kept[n][1] >= clock - Minute
          BY <2>1, <4>2 DEF Rest, m
        <4> HIDE DEF k
        <4>4. h[k] \in Nat /\ h[k] <= h[n + 1]
          BY <4>2 DEF Ordered
        <4> QED BY <1>1, <2>3, <3>1, <4>3, <4>4
      <3>3. ASSUME NEW i \in 1..(n + 1) PROVE h[i] < clock - Minute
        <4>1. CASE i = n + 1
          BY <3>1, <4>1
        <4>2. CASE i # n + 1
          <5>1. \A j \in 1..(n - Len(kept[n])) : h[j] < clock - Minute
            BY <2>1 DEF Rest
          <5>2. n - Len(kept[n]) = n /\ i \in 1..n
            BY <3>2, <4>2
          <5> QED BY <5>1, <5>2
        <4> QED BY <4>1, <4>2
      <3> QED BY <2>1, <2>3, <3>1, <3>2, <3>3 DEF Rest
    <2> QED BY <2>4, <2>5
  <1>5. \A n \in Nat : n \in S
    <2> HIDE DEF S
    <2> QED BY <1>3, <1>4, InAllNumbers
  <1>6. Good(Len(h))
    BY <1>1, <1>5
  <1> QED BY <1>6 DEF Fresh, kept
PushTypes ==
    /\ clock \in Nat /\ requests \in Nat /\ granted \in Nat
    /\ counter \in [n : Nat, expires : Int]
    /\ req \in [Browsers -> [at : {"none", "incr", "expire", "store"}, stamp : Nat]]
    /\ hits \in Seq(Nat) /\ passed \in Seq(Nat)

(* The hits are those let through last, and none that is left out counts.  *)
WindowInv ==
    Limit > 0 =>
        /\ Rest(hits, passed, Len(passed))
        /\ Ordered(passed) /\ \A i \in 1..Len(passed) : passed[i] <= clock
        /\ \A i \in 1..(Len(passed) - Limit) : passed[i + Limit] - passed[i] > Minute

CounterInv ==
    /\ Limit > 0 => granted <= Limit
    /\ counter.n > 0 => granted <= counter.n
    /\ RefusalEnds

LimitInv == PushTypes /\ WindowInv /\ CounterInv

LEMMA RestOfRest ==
    ASSUME PushTypes, WindowInv, Limit > 0
    PROVE  Rest(Fresh(hits), passed, Len(passed))
  <1> DEFINE f == Fresh(hits)
             p == Len(passed)
             l == Len(hits)
  <1>1. p \in Nat /\ l \in Nat /\ l <= p /\ clock - Minute \in Int
    BY WebPushConstants DEF PushTypes, WindowInv, Rest
  <1>2. \A i \in 1..l : hits[i] = passed[p - l + i]
    BY DEF WindowInv, Rest
  <1>3. Ordered(hits)
    <2>1. \A i \in 1..l : p - l + i \in 1..p
      BY <1>1
    <2>2. \A i, j \in 1..l : i <= j => p - l + i <= p - l + j
      BY <1>1
    <2> HIDE DEF p, l
    <2> QED BY <1>2, <2>1, <2>2 DEF WindowInv, Ordered, p, l
  <1>4. Rest(f, hits, l)
    BY <1>3, FreshIsRest DEF PushTypes
  <1> HIDE DEF f, p, l
  <1>5. f \in Seq(Nat) /\ Len(f) \in Nat /\ Len(f) <= l
    BY <1>4 DEF Rest
  <1>6. ASSUME NEW i \in 1..Len(f) PROVE f[i] = passed[p - Len(f) + i]
    <2>1. f[i] = hits[l - Len(f) + i]
      BY <1>4 DEF Rest
    <2>2. l - Len(f) + i \in 1..l /\ p - l + (l - Len(f) + i) = p - Len(f) + i
      BY <1>1, <1>5
    <2> QED BY <1>2, <2>1, <2>2
  <1>7. ASSUME NEW i \in 1..(p - Len(f)) PROVE passed[i] < clock - Minute
    <2>1. CASE i <= p - l
      <3>1. i \in 1..(p - l)
        BY <1>1, <2>1
      <3> QED BY <3>1 DEF WindowInv, Rest, p, l
    <2>2. CASE ~ (i <= p - l)
      <3>1. /\ i - (p - l) \in 1..l /\ i - (p - l) \in 1..(l - Len(f))
            /\ p - l + (i - (p - l)) = i
        BY <1>1, <1>5, <2>2
      <3> QED BY <1>2, <1>4, <3>1 DEF Rest
    <2> QED BY <2>1, <2>2
  <1> QED BY <1>1, <1>5, <1>6, <1>7 DEF Rest, f, p

(* The limit in memory drops what it does not count any more, and counts   *)
(* what it lets through.                                                   *)
LEMMA WindowMoves ==
    ASSUME PushTypes, WindowInv, NEW b \in Browsers, MemoryLimit(b), clock' = clock
    PROVE  WindowInv' /\ hits' \in Seq(Nat) /\ passed' \in Seq(Nat)
  <1> DEFINE f == Fresh(hits)
             p == Len(passed)
  <1>1. CASE Limit = 0
    <2>1. hits' = hits /\ passed' = Append(passed, clock)
      BY <1>1 DEF MemoryLimit
    <2> QED BY <1>1, <2>1 DEF WindowInv, PushTypes
  <1>2. CASE Limit > 0
    <2>1. Rest(f, passed, p)
      BY <1>2, RestOfRest
    <2> HIDE DEF f
    <2>2. f \in Seq(Nat) /\ Len(f) \in Nat /\ Len(f) <= p /\ p \in Nat
      BY <2>1 DEF Rest, PushTypes
    <2>3. CASE Len(f) >= Limit
      <3>1. hits' = f /\ passed' = passed
        BY <1>2, <2>3 DEF MemoryLimit, f
      <3> QED BY <1>2, <2>1, <2>2, <3>1 DEF WindowInv, PushTypes, Rest, Ordered
    <2>4. CASE ~ (Len(f) >= Limit)
      <3>1. hits' = Append(f, clock) /\ passed' = Append(passed, clock)
        BY <1>2, <2>4 DEF MemoryLimit, f
      <3>2. /\ hits' \in Seq(Nat) /\ Len(hits') = Len(f) + 1
            /\ hits'[Len(f) + 1] = clock /\ \A i \in 1..Len(f) : hits'[i] = f[i]
        BY <2>2, <3>1 DEF PushTypes
      <3>3. /\ passed' \in Seq(Nat) /\ Len(passed') = p + 1
            /\ passed'[p + 1] = clock /\ \A i \in 1..p : passed'[i] = passed[i]
        BY <3>1 DEF PushTypes
      <3> HIDE DEF p
      <3>4. Rest(hits, passed, Len(passed))'
        <4>1. ASSUME NEW i \in 1..(Len(f) + 1)
              PROVE  hits'[i] = passed'[(p + 1) - (Len(f) + 1) + i]
          <5>1. CASE i = Len(f) + 1
            <6>1. (p + 1) - (Len(f) + 1) + i = p + 1
              BY <2>2, <5>1
            <6> QED BY <3>2, <3>3, <5>1, <6>1
          <5>2. CASE i # Len(f) + 1
            <6>1. /\ i \in 1..Len(f) /\ (p + 1) - (Len(f) + 1) + i = p - Len(f) + i
                  /\ p - Len(f) + i \in 1..p
              BY <2>2, <5>2
            <6> QED BY <2>1, <3>2, <3>3, <6>1 DEF Rest
          <5> QED BY <5>1, <5>2
        <4>2. \A i \in 1..((p + 1) - (Len(f) + 1)) : passed'[i] < clock' - Minute
          <5>1. \A i \in 1..((p + 1) - (Len(f) + 1)) : i \in 1..(p - Len(f)) /\ i \in 1..p
            BY <2>2
          <5> QED BY <2>1, <3>3, <5>1 DEF Rest
        <4>3. Len(hits') = Len(f) + 1 /\ Len(passed') = p + 1 /\ Len(hits') <= Len(passed')
          BY <2>2, <3>2, <3>3
        <4> HIDE DEF p
        <4> QED BY <3>2, <4>1, <4>2, <4>3 DEF Rest
      <3>5. \A i \in 1..(p + 1) : passed'[i] <= clock
        <4>1. \A i \in 1..p : passed[i] <= clock
          BY <1>2 DEF WindowInv, p
        <4>2. \A i \in 1..(p + 1) : i = p + 1 \/ i \in 1..p
          BY <2>2
        <4>3. clock \in Nat /\ passed'[p + 1] <= clock
          BY <3>3 DEF PushTypes
        <4>4. \A i \in 1..p : passed'[i] <= clock
          BY <3>3, <4>1
        <4> QED BY <4>2, <4>3, <4>4
      <3>6. Ordered(passed')
        <4>1. ASSUME NEW i \in 1..(p + 1), NEW j \in 1..(p + 1), i <= j
              PROVE  passed'[i] <= passed'[j]
          <5>1. CASE j = p + 1
            BY <3>3, <3>5, <5>1
          <5>2. CASE j # p + 1
            <6>1. i \in 1..p /\ j \in 1..p
              BY <2>2, <4>1, <5>2
            <6> QED BY <1>2, <3>3, <4>1, <6>1 DEF WindowInv, Ordered, p
          <5> QED BY <5>1, <5>2
        <4> QED BY <3>3, <4>1 DEF Ordered
      <3>7. ASSUME NEW i \in 1..((p + 1) - Limit)
            PROVE  passed'[i + Limit] - passed'[i] > Minute
        <4>1. Limit \in Nat
          BY WebPushConstants
        <4>2. CASE i = (p + 1) - Limit
          <5>1. i \in 1..(p - Len(f)) /\ i \in 1..p /\ i + Limit = p + 1
            BY <1>2, <2>2, <2>4, <4>1, <4>2
          <5>2. passed[i] < clock - Minute /\ passed'[i] = passed[i] /\ passed'[i + Limit] = clock
            BY <2>1, <3>3, <5>1 DEF Rest
          <5>3. passed[i] \in Nat /\ clock \in Nat /\ Minute \in Nat
            BY <5>1, WebPushConstants DEF PushTypes, p
          <5> QED BY <5>2, <5>3
        <4>3. CASE i # (p + 1) - Limit
          <5>1. i \in 1..(p - Limit) /\ i \in 1..p /\ i + Limit \in 1..p
            BY <1>2, <2>2, <4>1, <4>3
          <5> QED BY <1>2, <3>3, <5>1 DEF WindowInv, p
        <4> QED BY <4>2, <4>3
      <3> QED BY <3>2, <3>3, <3>4, <3>5, <3>6, <3>7 DEF WindowInv
    <2> QED BY <2>3, <2>4
  <1> QED BY <1>1, <1>2, WebPushConstants
LEMMA WindowTicks ==
    ASSUME PushTypes, WindowInv, clock' = clock + 1, UNCHANGED <<hits, passed>>
    PROVE  WindowInv'
  <1>1. clock \in Nat /\ Minute \in Nat /\ clock' - Minute \in Int /\ passed \in Seq(Nat)
    BY WebPushConstants DEF PushTypes
  <1>2. \A t \in Nat : /\ t < clock - Minute => t < clock' - Minute
                       /\ t <= clock => t <= clock'
    BY <1>1
  <1>3. hits' = hits /\ passed' = passed /\ Len(passed') = Len(passed)
    OBVIOUS
  <1>4. \A i \in 1..Len(passed) : passed[i] \in Nat
    BY <1>1
  <1>5. CASE Limit > 0
    <2>1. Rest(hits, passed, Len(passed))'
      <3>1. \A i \in 1..(Len(passed) - Len(hits)) : passed[i] < clock' - Minute
        <4>1. \A i \in 1..(Len(passed) - Len(hits)) : i \in 1..Len(passed)
          BY <1>1 DEF PushTypes
        <4> QED BY <1>2, <1>4, <1>5, <4>1 DEF WindowInv, Rest
      <3> QED BY <1>3, <1>5, <3>1 DEF WindowInv, Rest
    <2> QED BY <1>2, <1>3, <1>4, <1>5, <2>1 DEF WindowInv, Ordered
  <1> QED BY <1>5 DEF WindowInv

(* A request moves on; where it goes is the only thing that changes in req.*)
LEMMA RequestMoves ==
    ASSUME PushTypes, NEW b \in Browsers, NEW stage \in {"none", "incr", "expire", "store"},
           At(b, stage)
    PROVE  /\ req' \in [Browsers -> [at : {"none", "incr", "expire", "store"}, stamp : Nat]]
           /\ req'[b] = [at |-> stage, stamp |-> requests]
           /\ \A c \in Browsers : c # b => req'[c] = req[c]
  BY DEF PushTypes, At

LEMMA LimitStep == LimitInv /\ [PushNext]_pushVars => LimitInv'
  <1> SUFFICES ASSUME LimitInv, [PushNext]_pushVars
               PROVE  LimitInv'
    OBVIOUS
  <1>1. PushTypes /\ WindowInv /\ CounterInv
    BY DEF LimitInv
  <1>2. Limit \in Nat /\ KeyLife \in Nat /\ counter.n \in Nat /\ counter.expires \in Int
        /\ clock \in Nat /\ requests \in Nat /\ granted \in Nat
    BY <1>1, WebPushConstants DEF PushTypes
  <1>3. CASE Tick
    <2>1. /\ clock' = clock + 1 /\ counter' \in {NoCounter, counter}
          /\ UNCHANGED <<hits, passed, req, requests, granted, failed>>
      BY <1>3 DEF Tick
    <2>2. NoCounter.n = 0 /\ NoCounter \in [n : Nat, expires : Int]
      BY DEF NoCounter, Never
    <2>3. PushTypes'
      BY <1>1, <1>2, <2>1, <2>2 DEF PushTypes
    <2>4. WindowInv'
      BY <1>1, <2>1, WindowTicks
    <2>5. CounterInv'
      BY <1>1, <1>2, <2>1, <2>2 DEF CounterInv, RefusalEnds
    <2> QED BY <2>3, <2>4, <2>5 DEF LimitInv
  <1>4. CASE Reboot
    <2>1. /\ hits' = <<>> /\ passed' = <<>> /\ req' = [b \in Browsers |-> Idle]
          /\ UNCHANGED <<counter, clock, requests, granted>>
          /\ failed \subseteq failed'
          /\ (\E b \in Browsers : req[b].at = "expire") => "expire" \in failed'
      BY <1>4 DEF Reboot
    <2>2. PushTypes'
      BY <1>1, <2>1 DEF PushTypes, Idle
    <2>3. WindowInv'
      BY <1>2, <2>1 DEF WindowInv, Rest, Ordered
    <2>4. CounterInv'
      BY <1>1, <2>1 DEF CounterInv, RefusalEnds
    <2> QED BY <2>2, <2>3, <2>4 DEF LimitInv
  <1>5. ASSUME NEW b \in Browsers, MemoryLimit(b), UNCHANGED clock,
               requests' \in Nat, failed \subseteq failed',
               granted' \in Nat, counter' \in [n : Nat, expires : Int],
               Limit > 0 => granted' <= Limit,
               counter'.n > 0 => granted' <= counter'.n,
               req[b].at = "expire" => "expire" \in failed',
               counter'.n > 0 /\ counter'.expires = Never =>
                   "expire" \in failed' \/ (counter.n > 0 /\ counter.expires = Never)
        PROVE  LimitInv'
    <2>1. PICK stage \in {"none", "store"} : At(b, stage)
      BY <1>5 DEF MemoryLimit
    <2>2. /\ req' \in [Browsers -> [at : {"none", "incr", "expire", "store"}, stamp : Nat]]
          /\ \A c \in Browsers : c # b => req'[c] = req[c]
      BY <1>1, <2>1, RequestMoves
    <2>3. WindowInv' /\ hits' \in Seq(Nat) /\ passed' \in Seq(Nat)
      BY <1>1, <1>5, WindowMoves
    <2>4. PushTypes'
      BY <1>1, <1>5, <2>2, <2>3 DEF PushTypes
    <2>5. CounterInv'
      BY <1>1, <1>5, <2>2 DEF CounterInv, RefusalEnds
    <2> QED BY <2>3, <2>4, <2>5 DEF LimitInv
  <1>6. ASSUME NEW b \in Browsers, NEW stage \in {"none", "incr", "expire", "store"}, At(b, stage),
               UNCHANGED <<clock, hits, passed>>, requests' \in Nat, failed \subseteq failed',
               granted' \in Nat, counter' \in [n : Nat, expires : Int],
               Limit > 0 => granted' <= Limit,
               counter'.n > 0 => granted' <= counter'.n,
               counter' = counter \/ counter'.expires # Never \/ stage = "expire"
                 \/ (counter.n > 0 /\ counter'.expires = counter.expires),
               req[b].at = "expire" => counter'.expires # Never
        PROVE  LimitInv'
    <2>1. /\ req' \in [Browsers -> [at : {"none", "incr", "expire", "store"}, stamp : Nat]]
          /\ req'[b].at = stage /\ \A c \in Browsers : c # b => req'[c] = req[c]
      BY <1>1, <1>6, RequestMoves
    <2>2. PushTypes'
      BY <1>1, <1>6, <2>1 DEF PushTypes
    <2>3. WindowInv'
      BY <1>1, <1>6 DEF WindowInv, Rest, Ordered
    <2>4. RefusalEnds'
      <3> SUFFICES ASSUME counter'.n > 0, counter'.expires = Never, "expire" \notin failed'
                   PROVE  \E c \in Browsers : req'[c].at = "expire"
        BY DEF RefusalEnds
      <3>1. CASE stage = "expire"
        BY <2>1, <3>1
      <3>2. CASE stage # "expire"
        <4>1. counter.n > 0 /\ counter.expires = Never
          BY <1>6, <3>2
        <4>2. PICK c \in Browsers : req[c].at = "expire"
          BY <1>1, <1>6, <4>1 DEF CounterInv, RefusalEnds
        <4>3. c # b
          BY <1>6, <4>2
        <4> QED BY <2>1, <4>2, <4>3
      <3> QED BY <3>1, <3>2
    <2>5. CounterInv'
      BY <1>6, <2>4 DEF CounterInv
    <2> QED BY <2>2, <2>3, <2>5 DEF LimitInv
  <1>7. ASSUME NEW b \in Browsers, Subscribe(b) PROVE LimitInv'
    <2>1. /\ req[b].at = "none" /\ requests' = requests + 1
          /\ UNCHANGED <<counter, clock, granted, failed>>
          /\ \/ At(b, "incr") /\ UNCHANGED <<hits, passed>>
             \/ MemoryLimit(b)
      BY <1>7 DEF Subscribe
    <2>2. counter' \in [n : Nat, expires : Int] /\ granted' \in Nat /\ requests' \in Nat
          /\ (Limit > 0 => granted' <= Limit) /\ (counter'.n > 0 => granted' <= counter'.n)
      BY <1>1, <1>2, <2>1 DEF PushTypes, CounterInv
    <2>3. CASE MemoryLimit(b)
      BY <1>5, <2>1, <2>2, <2>3
    <2>4. CASE At(b, "incr") /\ UNCHANGED <<hits, passed>>
      BY <1>6, <2>1, <2>2, <2>4
    <2> QED BY <2>1, <2>3, <2>4
  <1>8. ASSUME NEW b \in Browsers, RedisFails(b) PROVE LimitInv'
    <2>1. /\ MemoryLimit(b) /\ UNCHANGED <<clock, requests>>
          /\ \/ /\ req[b].at = "incr" /\ Limit > 0
                /\ \/ UNCHANGED <<counter, granted, failed>>
                   \/ /\ counter' = [counter EXCEPT !.n = @ + 1]
                      /\ granted' = IF counter.n = 0 THEN 0 ELSE granted
                      /\ failed' = IF counter.n = 0 THEN failed \union {"expire"} ELSE failed
             \/ /\ req[b].at = "expire"
                /\ counter' \in {counter, [counter EXCEPT !.expires = clock + KeyLife]}
                /\ failed' = failed \union {"expire"}
                /\ UNCHANGED granted
      BY <1>8 DEF RedisFails
    <2>2. /\ counter \in [n : Nat, expires : Int] /\ clock + KeyLife \in Int /\ requests' \in Nat
          /\ (Limit > 0 => granted <= Limit) /\ (counter.n > 0 => granted <= counter.n)
      BY <1>1, <1>2, <2>1 DEF PushTypes, CounterInv
    <2>3. CASE req[b].at = "incr" /\ UNCHANGED <<counter, granted, failed>>
      BY <1>2, <1>5, <2>1, <2>2, <2>3
    <2>4. CASE /\ req[b].at = "incr" /\ Limit > 0
               /\ counter' = [counter EXCEPT !.n = @ + 1]
               /\ granted' = IF counter.n = 0 THEN 0 ELSE granted
               /\ failed' = IF counter.n = 0 THEN failed \union {"expire"} ELSE failed
      <3>1. /\ counter' \in [n : Nat, expires : Int] /\ counter'.n = counter.n + 1
            /\ counter'.expires = counter.expires
        BY <2>2, <2>4
      <3>2. /\ granted' \in Nat /\ granted' <= Limit /\ granted' <= counter'.n
            /\ failed \subseteq failed'
            /\ counter.n = 0 => "expire" \in failed'
        BY <1>2, <2>2, <2>4, <3>1
      <3>3. counter'.n > 0 /\ counter'.expires = Never =>
                "expire" \in failed' \/ (counter.n > 0 /\ counter.expires = Never)
        BY <1>2, <3>1, <3>2
      <3> QED BY <1>5, <2>1, <2>2, <2>4, <3>1, <3>2, <3>3
    <2>5. CASE /\ req[b].at = "expire"
               /\ counter' \in {counter, [counter EXCEPT !.expires = clock + KeyLife]}
               /\ failed' = failed \union {"expire"}
               /\ UNCHANGED granted
      <3>1. counter' \in [n : Nat, expires : Int] /\ counter'.n = counter.n
        BY <2>2, <2>5
      <3> QED BY <1>2, <1>5, <2>1, <2>2, <2>5, <3>1
    <2> QED BY <2>1, <2>3, <2>4, <2>5
  <1>9. ASSUME NEW b \in Browsers, Incr(b) PROVE LimitInv'
    <2>1. req[b].at = "incr" /\ UNCHANGED <<clock, hits, passed, requests, failed>>
      BY <1>9 DEF Incr
    <2>2. CASE Limit = 0
      <3>1. At(b, "store") /\ UNCHANGED <<counter, granted>>
        BY <1>9, <2>2 DEF Incr
      <3>2. counter' \in [n : Nat, expires : Int] /\ granted' \in Nat /\ requests' \in Nat
            /\ (counter'.n > 0 => granted' <= counter'.n)
        BY <1>1, <1>2, <2>1, <3>1 DEF PushTypes, CounterInv
      <3> QED BY <1>6, <2>1, <2>2, <3>1, <3>2
    <2>3. CASE Limit # 0
      <3>1. /\ counter' = [counter EXCEPT !.n = @ + 1]
            /\ IF counter'.n = 1 THEN At(b, "expire") /\ granted' = 1
               ELSE IF counter'.n > Limit THEN At(b, "none") /\ UNCHANGED granted
               ELSE At(b, "store") /\ granted' = granted + 1
        BY <1>9, <2>3 DEF Incr
      <3>2. /\ counter' \in [n : Nat, expires : Int] /\ counter'.n = counter.n + 1
            /\ counter'.expires = counter.expires /\ Limit > 0 /\ requests' \in Nat
        <4>1. counter \in [n : Nat, expires : Int] /\ counter' = [counter EXCEPT !.n = counter.n + 1]
          BY <1>1, <3>1 DEF PushTypes
        <4>2. /\ counter' \in [n : Nat, expires : Int] /\ counter'.n = counter.n + 1
              /\ counter'.expires = counter.expires
          BY <4>1
        <4> QED BY <1>2, <2>1, <2>3, <4>2
      <3>3. counter.n > 0 => granted <= counter.n
        BY <1>1 DEF CounterInv
      <3>4. granted <= Limit
        BY <1>1, <3>2 DEF CounterInv
      <3>5. CASE counter'.n = 1
        <4>1. At(b, "expire") /\ granted' = 1
          BY <3>1, <3>5
        <4>2. granted' <= Limit /\ granted' <= counter'.n /\ granted' \in Nat
          BY <1>2, <3>2, <3>5, <4>1
        <4> QED BY <1>6, <2>1, <3>2, <4>1, <4>2
      <3>6. CASE counter'.n # 1 /\ counter'.n > Limit
        <4>1. At(b, "none") /\ granted' = granted
          BY <3>1, <3>6
        <4>2. counter.n > 0 /\ granted' <= counter'.n /\ granted' <= Limit /\ granted' \in Nat
          BY <1>2, <3>2, <3>3, <3>4, <3>6, <4>1
        <4> QED BY <1>6, <2>1, <3>2, <4>1, <4>2
      <3>7. CASE counter'.n # 1 /\ ~ (counter'.n > Limit)
        <4>1. At(b, "store") /\ granted' = granted + 1
          BY <3>1, <3>7
        <4>2. counter.n > 0 /\ granted' <= counter'.n /\ granted' <= Limit /\ granted' \in Nat
          BY <1>2, <3>2, <3>3, <3>7, <4>1
        <4> QED BY <1>6, <2>1, <3>2, <4>1, <4>2
      <3> QED BY <3>5, <3>6, <3>7
    <2> QED BY <2>2, <2>3
  <1>10. ASSUME NEW b \in Browsers, Expire(b) PROVE LimitInv'
    <2>1. /\ At(b, "store") /\ counter' = [counter EXCEPT !.expires = clock + KeyLife]
          /\ UNCHANGED <<clock, hits, passed, requests, granted, failed>>
      BY <1>10 DEF Expire
    <2>2. /\ counter' \in [n : Nat, expires : Int] /\ counter'.n = counter.n
          /\ counter'.expires = clock + KeyLife /\ clock + KeyLife # Never
      <3>1. counter \in [n : Nat, expires : Int] /\ clock + KeyLife \in Int
        BY <1>1, <1>2 DEF PushTypes
      <3>2. /\ counter' \in [n : Nat, expires : Int] /\ counter'.n = counter.n
            /\ counter'.expires = clock + KeyLife
        BY <2>1, <3>1
      <3> QED BY <1>2, <3>2 DEF Never
    <2>3. (Limit > 0 => granted' <= Limit) /\ (counter'.n > 0 => granted' <= counter'.n)
      BY <1>1, <2>1, <2>2 DEF CounterInv
    <2> QED BY <1>2, <1>6, <2>1, <2>2, <2>3
  <1>11. ASSUME NEW b \in Browsers, StoreInRedis(b) \/ StoreInMemory(b) PROVE LimitInv'
    <2>1. /\ At(b, "none") /\ req[b].at = "store" /\ failed \subseteq failed'
          /\ UNCHANGED <<clock, hits, passed, requests, granted, counter>>
      BY <1>11 DEF StoreInRedis, StoreInMemory, Answer
    <2>2. counter' \in [n : Nat, expires : Int] /\ granted' \in Nat /\ requests' \in Nat
          /\ (Limit > 0 => granted' <= Limit) /\ (counter'.n > 0 => granted' <= counter'.n)
      BY <1>1, <1>2, <2>1 DEF PushTypes, CounterInv
    <2> QED BY <1>6, <2>1, <2>2
  <1>12. CASE UNCHANGED pushVars
    BY <1>1, <1>12 DEF pushVars, LimitInv, PushTypes, WindowInv, CounterInv, RefusalEnds, Rest, Ordered
  <1> QED BY <1>3, <1>4, <1>7, <1>8, <1>9, <1>10, <1>11, <1>12 DEF PushNext

LEMMA LimitCorrect == PushSpec => []LimitInv
  <1>1. PushInit => LimitInv
    BY WebPushConstants DEF PushInit, LimitInv, PushTypes, WindowInv, CounterInv, RefusalEnds, Rest,
                            Ordered, NoCounter, Idle, Never
  <1> QED BY <1>1, LimitStep, PTL DEF PushSpec

(* Neither limit lets more of an address's requests through than it should *)
(* (the one in memory in any sliding minute, the one in Redis in the life  *)
(* of its counter), and the counter has an end unless setting it is under  *)
(* way, or its creator failed, died or never learned that it was.          *)
THEOREM LimitIsKept == PushSpec => []LimitKept
  <1>1. LimitInv => LimitKept
    BY WebPushConstants DEF LimitInv, WindowInv, CounterInv, LimitKept, NoneTooMany
  <1> QED BY <1>1, LimitCorrect, PTL
(* The subscriptions in memory: who is told so is in the store under the   *)
(* stamp it was told, or had to make room for newer ones.                  *)
MemoryInv ==
    /\ ack \in [Browsers -> [by : {"none", "redis", "memory"}, stamp : Nat]]
    /\ IsFiniteSet(DOMAIN byFp) /\ DOMAIN byFp \subseteq Browsers
    /\ byFp \in [DOMAIN byFp -> Nat]
    /\ MaxSubs # 0 => Cardinality(DOMAIN byFp) <= MaxSubs
    /\ \A k \in DOMAIN byFp : byFp[k] < requests /\ ack[k].by = "memory" /\ ack[k].stamp = byFp[k]
    /\ \A j, k \in DOMAIN byFp : j # k => byFp[j] # byFp[k]
    /\ \A b \in Browsers : ack[b].by = "memory" /\ b \notin DOMAIN byFp =>
         /\ MaxSubs # 0 /\ Cardinality(DOMAIN byFp) = MaxSubs
         /\ \A k \in DOMAIN byFp : byFp[k] > ack[b].stamp

(* Without Redis every request has a stamp of its own, later than the one  *)
(* its browser is stored under.                                            *)
StampInv ==
    client # "connected" =>
        /\ \A b \in Browsers : req[b].at \in {"none", "store"}
        /\ \A b \in Browsers : req[b].at = "store" =>
             /\ req[b].stamp < requests
             /\ \A k \in DOMAIN byFp : byFp[k] # req[b].stamp /\ (k = b => byFp[k] < req[b].stamp)
             /\ \A c \in Browsers : c # b /\ req[c].at = "store" => req[c].stamp # req[b].stamp

(* Until the process has connected, or found that it cannot, nothing is    *)
(* under way; with Redis nothing is in memory.                             *)
ClientInv ==
    /\ client \in {"unset", "connected", "False"} /\ url \in BOOLEAN
    /\ client = "unset" /\ url => \A b \in Browsers : req[b].at = "none"
    /\ client = "connected" \/ (client = "unset" /\ url) =>
         DOMAIN byFp = {} /\ \A b \in Browsers : ack[b].by # "memory"

RedisInv == \A b \in Browsers : ack[b].by = "redis" => b \in hash \union failed

AckInv == MemoryInv /\ StampInv /\ ClientInv /\ RedisInv

(* What makes room is the oldest.                                          *)
LEMMA TrimmedRight ==
    ASSUME NEW D, IsFiniteSet(D), NEW m \in [D -> Nat],
           \A j, k \in D : j # k => m[j] # m[k],
           MaxSubs # 0 => Cardinality(D) <= MaxSubs + 1
    PROVE  \/ Trimmed(m) = m /\ (MaxSubs # 0 => Cardinality(D) <= MaxSubs)
           \/ \E o \in D : /\ MaxSubs # 0 /\ Cardinality(D) = MaxSubs + 1
                           /\ Cardinality(D \ {o}) = MaxSubs
                           /\ Trimmed(m) = [k \in D \ {o} |-> m[k]]
                           /\ \A k \in D \ {o} : m[o] < m[k]
  <1>1. MaxSubs \in Nat /\ Cardinality(D) \in Nat /\ DOMAIN m = D
    BY FS_CardinalityType, WebPushConstants
  <1>2. CASE MaxSubs = 0 \/ Cardinality(D) <= MaxSubs
    BY <1>1, <1>2 DEF Trimmed
  <1>3. CASE ~ (MaxSubs = 0 \/ Cardinality(D) <= MaxSubs)
    <2> DEFINE o == CHOOSE b \in D : \A k \in D : m[b] <= m[k]
    <2>1. Cardinality(D) = MaxSubs + 1
      BY <1>1, <1>3
    <2>2. \E b \in D : \A k \in D : m[b] <= m[k]
      <3>1. {m[k] : k \in D} \in SUBSET Nat
        OBVIOUS
      <3>2. D # {}
        BY <1>1, <2>1, FS_EmptySet
      <3>3. PICK n \in {m[k] : k \in D} : \A l \in {m[k] : k \in D} : n <= l
        <4>1. {m[k] : k \in D} # {}
          BY <3>2
        <4> QED BY <3>1, <4>1, LeastOf
      <3>4. PICK b \in D : n = m[b]
        OBVIOUS
      <3>5. \A k \in D : m[b] <= m[k]
        BY <3>3, <3>4
      <3> QED BY <3>5
    <2>3. o \in D /\ \A k \in D : m[o] <= m[k]
      BY <2>2
    <2>4. Trimmed(m) = [k \in D \ {o} |-> m[k]]
      BY <1>1, <1>3 DEF Trimmed
    <2> HIDE DEF o
    <2>5. Cardinality(D \ {o}) = MaxSubs
      <3>1. Cardinality(D \ {o}) = Cardinality(D) - 1
        BY <2>3, FS_RemoveElement
      <3> QED BY <1>1, <2>1, <3>1
    <2>6. \A k \in D \ {o} : m[o] < m[k]
      BY <2>3
    <2> QED BY <1>3, <2>1, <2>3, <2>4, <2>5, <2>6
  <1> QED BY <1>2, <1>3

LEMMA MemoryStored ==
    ASSUME PushTypes, AckInv, NEW b \in Browsers, StoreInMemory(b)
    PROVE  MemoryInv' /\ DOMAIN byFp' \subseteq DOMAIN byFp \union {b}
           /\ \A k \in DOMAIN byFp' : byFp'[k] = IF k = b THEN req[b].stamp ELSE byFp[k]
  <1> DEFINE D == DOMAIN byFp \union {b}
             s == req[b].stamp
             m == [k \in D |-> IF k = b THEN s ELSE byFp[k]]
  <1>1. /\ req[b].at = "store" /\ client # "connected" /\ byFp' = Trimmed(m)
        /\ ack' = [ack EXCEPT ![b] = [by |-> "memory", stamp |-> s]] /\ requests' = requests
    BY DEF StoreInMemory, Answer
  <1>2. /\ IsFiniteSet(DOMAIN byFp) /\ byFp \in [DOMAIN byFp -> Nat] /\ s \in Nat /\ s < requests
        /\ DOMAIN byFp \subseteq Browsers /\ MaxSubs \in Nat
        /\ \A k \in DOMAIN byFp : byFp[k] # s /\ (k = b => byFp[k] < s)
        /\ \A j, k \in DOMAIN byFp : j # k => byFp[j] # byFp[k]
    BY <1>1, WebPushConstants DEF PushTypes, AckInv, MemoryInv, StampInv
  <1>3. /\ IsFiniteSet(D) /\ m \in [D -> Nat] /\ DOMAIN m = D /\ m[b] = s
        /\ \A k \in DOMAIN byFp : k # b => m[k] = byFp[k]
        /\ \A k \in D : m[k] < requests
        /\ \A j, k \in D : j # k => m[j] # m[k]
    <2>1. IsFiniteSet(D)
      BY <1>2, FS_AddElement
    <2>2. \A k \in DOMAIN byFp : byFp[k] < requests
      BY DEF AckInv, MemoryInv
    <2> HIDE DEF s
    <2> QED BY <1>2, <2>1, <2>2
  <1>4. /\ Cardinality(DOMAIN byFp) \in Nat
        /\ Cardinality(D) = IF b \in DOMAIN byFp THEN Cardinality(DOMAIN byFp)
                            ELSE Cardinality(DOMAIN byFp) + 1
        /\ MaxSubs # 0 => Cardinality(DOMAIN byFp) <= MaxSubs
    BY <1>2, FS_AddElement, FS_CardinalityType DEF AckInv, MemoryInv
  <1>5. \/ byFp' = m /\ (MaxSubs # 0 => Cardinality(D) <= MaxSubs)
        \/ \E o \in D : /\ MaxSubs # 0 /\ Cardinality(D) = MaxSubs + 1
                        /\ Cardinality(D \ {o}) = MaxSubs
                        /\ byFp' = [k \in D \ {o} |-> m[k]]
                        /\ \A k \in D \ {o} : m[o] < m[k]
    <2>1. MaxSubs # 0 => Cardinality(D) <= MaxSubs + 1
      BY <1>2, <1>4
    <2>2. IsFiniteSet(D) /\ m \in [D -> Nat] /\ \A j, k \in D : j # k => m[j] # m[k]
      BY <1>3
    <2>3. byFp' = Trimmed(m)
      BY <1>1
    <2> HIDE DEF m, D
    <2>4. \/ Trimmed(m) = m /\ (MaxSubs # 0 => Cardinality(D) <= MaxSubs)
          \/ \E o \in D : /\ MaxSubs # 0 /\ Cardinality(D) = MaxSubs + 1
                          /\ Cardinality(D \ {o}) = MaxSubs
                          /\ Trimmed(m) = [k \in D \ {o} |-> m[k]]
                          /\ \A k \in D \ {o} : m[o] < m[k]
      BY <2>1, <2>2, TrimmedRight
    <2> QED BY <2>3, <2>4
  <1>6. /\ ack' \in [Browsers -> [by : {"none", "redis", "memory"}, stamp : Nat]]
        /\ ack'[b].by = "memory" /\ ack'[b].stamp = s
        /\ \A c \in Browsers : c # b => ack'[c] = ack[c]
    BY <1>1, <1>2 DEF AckInv, MemoryInv
  <1>7. \A k \in D : k \in Browsers /\ ack'[k].by = "memory" /\ ack'[k].stamp = m[k]
    <2>1. \A k \in DOMAIN byFp : ack[k].by = "memory" /\ ack[k].stamp = byFp[k]
      BY DEF AckInv, MemoryInv
    <2> HIDE DEF s
    <2> QED BY <1>2, <1>3, <1>6, <2>1
  (* A browser that had made room before.                                  *)
  <1>8. ASSUME NEW c \in Browsers, c \notin D, ack'[c].by = "memory"
        PROVE  /\ ack'[c] = ack[c] /\ ack[c].stamp \in Nat
               /\ MaxSubs # 0 /\ Cardinality(DOMAIN byFp) = MaxSubs
               /\ \A k \in DOMAIN byFp : byFp[k] > ack[c].stamp
    BY <1>6, <1>8 DEF AckInv, MemoryInv
  <1> HIDE DEF D, m, s
  <1>9. CASE byFp' = m /\ (MaxSubs # 0 => Cardinality(D) <= MaxSubs)
    <2>1. ASSUME NEW c \in Browsers, ack'[c].by = "memory", c \notin D
          PROVE  /\ MaxSubs # 0 /\ Cardinality(D) = MaxSubs
                 /\ \A k \in D : m[k] > ack'[c].stamp
      <3>1. b \in DOMAIN byFp
        BY <1>4, <1>8, <1>9, <2>1
      <3>2. \A k \in DOMAIN byFp : m[k] > ack[c].stamp
        <4>1. byFp[b] > ack[c].stamp /\ s > byFp[b] /\ byFp[b] \in Nat /\ s \in Nat
          BY <1>2, <1>8, <2>1, <3>1
        <4>2. m[b] > ack[c].stamp
          BY <1>3, <1>8, <2>1, <4>1
        <4> QED BY <1>3, <1>8, <2>1, <4>2
      <3> QED BY <1>4, <1>8, <2>1, <3>1, <3>2 DEF D
    <2>2. D \subseteq Browsers
      BY <1>2 DEF D
    <2>3. MemoryInv'
      BY <1>1, <1>3, <1>6, <1>7, <1>9, <2>1, <2>2 DEF MemoryInv
    <2>4. \A k \in D : m[k] = IF k = b THEN s ELSE byFp[k]
      BY DEF m
    <2> QED BY <1>3, <1>9, <2>3, <2>4 DEF D, s
  <1>10. ASSUME NEW o \in D, MaxSubs # 0, Cardinality(D) = MaxSubs + 1,
                Cardinality(D \ {o}) = MaxSubs,
                byFp' = [k \in D \ {o} |-> m[k]],
                \A k \in D \ {o} : m[o] < m[k]
         PROVE  MemoryInv' /\ DOMAIN byFp' \subseteq D /\ \A k \in DOMAIN byFp' : byFp'[k] = m[k]
    <2>1. DOMAIN byFp' = D \ {o} /\ \A k \in D \ {o} : byFp'[k] = m[k]
      BY <1>10
    <2>2. IsFiniteSet(D \ {o}) /\ byFp' \in [D \ {o} -> Nat]
      BY <1>3, <1>10, FS_RemoveElement
    <2>3. ASSUME NEW c \in Browsers, ack'[c].by = "memory", c \notin D \ {o}
          PROVE  \A k \in D \ {o} : m[k] > ack'[c].stamp
      <3>1. CASE c = o
        <4>1. ack'[c].stamp = m[o]
          BY <1>7, <3>1
        <4>2. \A k \in D : m[k] \in Nat
          BY <1>3
        <4> QED BY <1>10, <4>1, <4>2
      <3>2. CASE c # o
        <4>1. c \notin D
          BY <2>3, <3>2
        <4>2. b \in D /\ \A k \in D : k = b \/ k \in DOMAIN byFp
          BY DEF D
        <4>3. \A k \in D : m[k] \in Nat
          BY <1>3
        <4>4. \A k \in DOMAIN byFp : k # b => m[k] > ack[c].stamp
          BY <1>3, <1>8, <2>3, <4>1
        <4>5. ack'[c] = ack[c] /\ ack[c].stamp \in Nat
          BY <1>8, <2>3, <4>1
        <4>6. b # o => m[b] > ack[c].stamp
          <5> SUFFICES ASSUME b # o PROVE m[b] > ack[c].stamp
            OBVIOUS
          <5>1. m[o] < m[b] /\ o \in DOMAIN byFp
            BY <1>10, <4>2
          <5> QED BY <4>2, <4>3, <4>4, <4>5, <5>1
        <4> QED BY <4>2, <4>4, <4>5, <4>6
      <3> QED BY <3>1, <3>2
    <2>4. D \ {o} \subseteq Browsers
      BY <1>2 DEF D
    <2>5. \A k \in D \ {o} : byFp'[k] < requests'
      BY <1>1, <1>3, <2>1
    <2>6. \A j, k \in D \ {o} : j # k => byFp'[j] # byFp'[k]
      BY <1>3, <2>1
    <2>7. \A k \in D \ {o} : ack'[k].by = "memory" /\ ack'[k].stamp = byFp'[k]
      BY <1>7, <2>1
    <2>8. Cardinality(D \ {o}) <= MaxSubs
      BY <1>2, <1>10
    <2>9. \A c \in Browsers : ack'[c].by = "memory" /\ c \notin DOMAIN byFp' =>
            /\ MaxSubs # 0 /\ Cardinality(DOMAIN byFp') = MaxSubs
            /\ \A k \in DOMAIN byFp' : byFp'[k] > ack'[c].stamp
      BY <1>10, <2>1, <2>3
    <2>10. MemoryInv'
      BY <1>6, <2>1, <2>2, <2>4, <2>5, <2>6, <2>7, <2>8, <2>9 DEF MemoryInv
    <2> QED BY <2>1, <2>10
  <1>11. CASE \E o \in D : /\ MaxSubs # 0 /\ Cardinality(D) = MaxSubs + 1
                           /\ Cardinality(D \ {o}) = MaxSubs
                           /\ byFp' = [k \in D \ {o} |-> m[k]]
                           /\ \A k \in D \ {o} : m[o] < m[k]
    <2>1. MemoryInv' /\ DOMAIN byFp' \subseteq D /\ \A k \in DOMAIN byFp' : byFp'[k] = m[k]
      BY <1>10, <1>11
    <2>2. \A k \in D : m[k] = IF k = b THEN s ELSE byFp[k]
      BY DEF m
    <2> QED BY <2>1, <2>2 DEF D, s
  <1> QED BY <1>5, <1>9, <1>11
LEMMA AckStep == LimitInv /\ AckInv /\ [PushNext]_pushVars => AckInv'
  <1> SUFFICES ASSUME LimitInv, AckInv, [PushNext]_pushVars
               PROVE  AckInv'
    OBVIOUS
  <1>1. PushTypes /\ MemoryInv /\ StampInv /\ ClientInv /\ RedisInv /\ requests \in Nat
    BY DEF LimitInv, AckInv, PushTypes
  <1>2. CASE Tick
    <2>1. UNCHANGED <<url, client, hash, byFp, req, requests, ack, failed>>
      BY <1>2 DEF Tick
    <2> QED BY <1>1, <2>1 DEF AckInv, MemoryInv, StampInv, ClientInv, RedisInv
  <1>3. CASE Reboot
    <2>1. /\ client' = "unset" /\ byFp' = [b \in {} |-> 0] /\ req' = [b \in Browsers |-> Idle]
          /\ ack' = [b \in Browsers |-> IF ack[b].by = "memory" THEN Untold ELSE ack[b]]
          /\ url' = url /\ hash' = hash /\ failed \subseteq failed' /\ requests' = requests
      BY <1>3 DEF Reboot
    <2>2. /\ DOMAIN byFp' = {} /\ IsFiniteSet({}) /\ Cardinality({}) = 0
          /\ byFp' \in [{} -> Nat]
      BY <2>1, FS_EmptySet
    <2>3. Untold.by = "none" /\ Untold \in [by : {"none", "redis", "memory"}, stamp : Nat]
      BY DEF Untold
    <2>4. /\ ack' \in [Browsers -> [by : {"none", "redis", "memory"}, stamp : Nat]]
          /\ \A b \in Browsers : /\ ack'[b].by # "memory"
                                 /\ ack'[b].by = "redis" => ack'[b] = ack[b]
      BY <1>1, <2>1, <2>3 DEF MemoryInv
    <2>5. MemoryInv'
      BY <2>2, <2>4, WebPushConstants DEF MemoryInv
    <2>6. \A b \in Browsers : req'[b].at = "none"
      BY <2>1 DEF Idle
    <2> QED BY <1>1, <2>1, <2>2, <2>4, <2>5, <2>6 DEF AckInv, StampInv, ClientInv, RedisInv
  (* A request that is not at the store yet, or has just come to it.       *)
  <1>4. ASSUME NEW b \in Browsers, NEW stage \in {"none", "incr", "expire", "store"}, At(b, stage),
               UNCHANGED <<url, hash, byFp, ack>>, failed \subseteq failed',
               requests' \in Nat, requests <= requests',
               client' \in {"unset", "connected", "False"},
               client' # client => client = "unset" /\ url /\ client' # "unset",
               client' = "unset" => ~ url,
               client' # "connected" =>
                   client # "connected" /\ stage \in {"none", "store"} /\ requests < requests'
        PROVE  AckInv'
    <2>1. /\ req' \in [Browsers -> [at : {"none", "incr", "expire", "store"}, stamp : Nat]]
          /\ req'[b].at = stage /\ req'[b].stamp = requests
          /\ \A c \in Browsers : c # b => req'[c] = req[c]
      BY <1>1, <1>4, RequestMoves
    <2>2. \A k \in DOMAIN byFp : byFp[k] \in Nat /\ byFp[k] < requests /\ byFp[k] < requests'
      BY <1>1, <1>4 DEF MemoryInv
    <2>3. MemoryInv'
      BY <1>1, <1>4, <2>2 DEF MemoryInv
    <2>4. StampInv'
      <3> SUFFICES ASSUME client' # "connected" PROVE StampInv'
        BY DEF StampInv
      <3>1. \A c \in Browsers : req[c].at = "store" => req[c].stamp < requests /\ req[c].stamp \in Nat
        BY <1>1, <1>4 DEF StampInv, PushTypes
      <3>2. \A c \in Browsers : req'[c].at \in {"none", "store"}
        BY <1>1, <1>4, <2>1 DEF StampInv
      <3>3. ASSUME NEW c \in Browsers, req'[c].at = "store"
            PROVE  /\ req'[c].stamp < requests'
                   /\ \A k \in DOMAIN byFp : byFp[k] # req'[c].stamp
                                             /\ (k = c => byFp[k] < req'[c].stamp)
                   /\ \A d \in Browsers : d # c /\ req'[d].at = "store" =>
                        req'[d].stamp # req'[c].stamp
        <4>1. CASE c = b
          BY <1>1, <1>4, <2>1, <2>2, <3>1, <4>1
        <4>2. CASE c # b
          <5>1. req'[c] = req[c] /\ req[c].stamp < requests /\ req[c].stamp \in Nat
            BY <2>1, <3>1, <3>3, <4>2
          <5>2. \A d \in Browsers : d # c /\ req'[d].at = "store" => req'[d].stamp # req'[c].stamp
            BY <1>1, <1>4, <2>1, <3>3, <5>1 DEF StampInv
          <5> QED BY <1>1, <1>4, <3>3, <5>1, <5>2 DEF StampInv
        <4> QED BY <4>1, <4>2
      <3> QED BY <1>4, <3>2, <3>3 DEF StampInv
    <2>5. ClientInv'
      BY <1>1, <1>4 DEF ClientInv
    <2>6. RedisInv'
      BY <1>1, <1>4 DEF RedisInv
    <2> QED BY <2>3, <2>4, <2>5, <2>6 DEF AckInv
  <1>5. ASSUME NEW b \in Browsers, Subscribe(b) PROVE AckInv'
    <2>1. /\ UNCHANGED <<url, hash, byFp, ack, failed>> /\ requests' = requests + 1
          /\ client' \in IF client # "unset" THEN {client}
                         ELSE IF url THEN {"connected", "False"} ELSE {"unset"}
      BY <1>5 DEF Subscribe
    <2>2. PICK stage \in {"none", "incr", "store"} : /\ At(b, stage)
                                                     /\ client' # "connected" => stage # "incr"
      BY <1>5 DEF Subscribe, MemoryLimit
    <2>3. /\ client' \in {"unset", "connected", "False"}
          /\ client' # client => client = "unset" /\ url /\ client' # "unset"
          /\ client' = "unset" => ~ url
          /\ client' # "connected" => client # "connected"
      BY <1>1, <2>1 DEF ClientInv
    <2> QED BY <1>1, <1>4, <2>1, <2>2, <2>3
  <1>6. ASSUME NEW b \in Browsers, RedisFails(b) \/ Incr(b) \/ Expire(b) PROVE AckInv'
    <2>1. /\ req[b].at \in {"incr", "expire"} /\ failed \subseteq failed'
          /\ UNCHANGED <<url, client, hash, byFp, ack, requests>>
      BY <1>6 DEF RedisFails, Incr, Expire
    <2>2. PICK stage \in {"none", "incr", "expire", "store"} : At(b, stage)
      BY <1>6 DEF RedisFails, Incr, Expire, MemoryLimit
    <2>3. client = "connected"
      BY <1>1, <2>1 DEF StampInv
    <2> QED BY <1>1, <1>4, <2>1, <2>2, <2>3
  <1>7. ASSUME NEW b \in Browsers, StoreInRedis(b) PROVE AckInv'
    <2>1. /\ client = "connected" /\ hash \subseteq hash' /\ failed \subseteq failed'
          /\ b \in hash' \union failed'
          /\ ack' = [ack EXCEPT ![b] = [by |-> "redis", stamp |-> req[b].stamp]]
          /\ UNCHANGED <<url, client, byFp, requests>>
      BY <1>7 DEF StoreInRedis, Answer
    <2>2. req[b].stamp \in Nat
      BY <1>1 DEF PushTypes
    <2>3. /\ ack' \in [Browsers -> [by : {"none", "redis", "memory"}, stamp : Nat]]
          /\ ack'[b].by = "redis" /\ \A c \in Browsers : c # b => ack'[c] = ack[c]
      BY <1>1, <2>1, <2>2 DEF MemoryInv
    <2>4. DOMAIN byFp = {} /\ \A c \in Browsers : ack'[c].by # "memory"
      BY <1>1, <2>1, <2>3 DEF ClientInv
    <2>5. MemoryInv'
      BY <1>1, <2>1, <2>3, <2>4 DEF MemoryInv
    <2> QED BY <1>1, <2>1, <2>3, <2>4, <2>5 DEF AckInv, StampInv, ClientInv, RedisInv
  <1>8. ASSUME NEW b \in Browsers, StoreInMemory(b) PROVE AckInv'
    <2>1. /\ req[b].at = "store" /\ client # "connected" /\ At(b, "none")
          /\ ack' = [ack EXCEPT ![b] = [by |-> "memory", stamp |-> req[b].stamp]]
          /\ UNCHANGED <<url, client, hash, requests, failed>>
      BY <1>8 DEF StoreInMemory, Answer
    <2>2. /\ MemoryInv' /\ DOMAIN byFp' \subseteq DOMAIN byFp \union {b}
          /\ \A k \in DOMAIN byFp' : byFp'[k] = IF k = b THEN req[b].stamp ELSE byFp[k]
      BY <1>1, <1>8, MemoryStored DEF AckInv
    <2>3. req'[b].at = "none" /\ \A c \in Browsers : c # b => req'[c] = req[c]
      BY <1>1, <2>1, RequestMoves
    <2>4. StampInv'
      <3>1. \A c \in Browsers : req'[c].at = "store" => c # b /\ req'[c] = req[c]
        BY <2>3
      <3>2. ASSUME NEW c \in Browsers, req'[c].at = "store", NEW k \in DOMAIN byFp'
            PROVE  byFp'[k] # req'[c].stamp /\ (k = c => byFp'[k] < req'[c].stamp)
        <4>1. c # b /\ req'[c] = req[c] /\ req[c].at = "store"
          BY <3>1, <3>2
        <4>2. CASE k = b
          BY <1>1, <2>1, <2>2, <4>1, <4>2 DEF StampInv
        <4>3. CASE k # b
          <5>1. k \in DOMAIN byFp /\ byFp'[k] = byFp[k]
            BY <2>2, <3>2, <4>3
          <5> QED BY <1>1, <2>1, <4>1, <5>1 DEF StampInv
        <4> QED BY <4>2, <4>3
      <3>3. \A c \in Browsers : req'[c].at \in {"none", "store"}
        BY <1>1, <2>1, <2>3 DEF StampInv
      <3>4. ASSUME NEW c \in Browsers, req'[c].at = "store"
            PROVE  /\ req'[c].stamp < requests'
                   /\ \A d \in Browsers : d # c /\ req'[d].at = "store" =>
                        req'[d].stamp # req'[c].stamp
        BY <1>1, <2>1, <3>1, <3>4 DEF StampInv
      <3> QED BY <3>2, <3>3, <3>4 DEF StampInv
    <2>5. \A c \in Browsers : c # b => ack'[c] = ack[c]
      BY <1>1, <2>1 DEF MemoryInv
    <2>6. ack'[b].by = "memory"
      BY <1>1, <2>1 DEF MemoryInv
    <2>7. ~ (client = "unset" /\ url)
      BY <1>1, <2>1 DEF ClientInv
    <2>8. ClientInv' /\ RedisInv'
      BY <1>1, <2>1, <2>5, <2>6, <2>7 DEF ClientInv, RedisInv
    <2> QED BY <2>2, <2>4, <2>8 DEF AckInv
  <1>9. CASE UNCHANGED pushVars
    BY <1>1, <1>9 DEF pushVars, AckInv, MemoryInv, StampInv, ClientInv, RedisInv
  <1> QED BY <1>2, <1>3, <1>5, <1>6, <1>7, <1>8, <1>9 DEF PushNext

(* What a browser was told is so: it is in Redis unless writing failed,    *)
(* and in memory unless it made room for newer subscriptions.              *)
THEOREM AckIsKept == PushSpec => []AckKept
  <1>1. PushInit => AckInv
    <2> SUFFICES ASSUME PushInit PROVE AckInv
      OBVIOUS
    <2>1. DOMAIN byFp = {} /\ byFp \in [{} -> Nat] /\ requests = 0
      BY DEF PushInit
    <2>2. IsFiniteSet({}) /\ Cardinality({}) = 0 /\ MaxSubs \in Nat
      BY FS_EmptySet, WebPushConstants
    <2>3. /\ ack \in [Browsers -> [by : {"none", "redis", "memory"}, stamp : Nat]]
          /\ \A b \in Browsers : ack[b].by = "none" /\ req[b].at = "none"
      BY DEF PushInit, Untold, Idle
    <2>4. MemoryInv
      BY <2>1, <2>2, <2>3 DEF MemoryInv
    <2> QED BY <2>1, <2>3, <2>4 DEF PushInit, AckInv, StampInv, ClientInv, RedisInv
  <1>2. AckInv => AckKept
    BY DEF AckInv, MemoryInv, RedisInv, AckKept
  <1> QED BY <1>1, <1>2, AckStep, LimitCorrect, PTL DEF PushSpec

(***************************************************************************)
(* The tools and their sources.                                            *)
(***************************************************************************)

(* What the chain s of a tool t has to be for the three lists of           *)
(* exceptions to be complete.                                              *)
Fits(t, s) ==
    /\ Len(s) \in Nat \ {0}
    /\ s[Len(s)].ends = Outcomes
    /\ \A i \in 1..Len(s) : /\ t \notin Stubborn => s[i].keeps \subseteq Data
                            /\ t \notin Hasty /\ i # Len(s) => s[i].ends \subseteq Data
                            /\ t \notin Silent => s[i].mute = {}

(* They are, tool by tool.                                                 *)
LEMMA ChainsFit == \A t \in Tools : Fits(t, Chain[t])
  <1> USE DEF Fits, Stubborn, Hasty, Silent, Outcomes, Data, Missing, Step, Else, Part, Final
  <1>1. Fits("market_search", MarketSearch)
    BY DEF MarketSearch
  <1>2. Fits("rumor_scanner", RumorScanner)
    BY DEF RumorScanner
  <1>3. Fits("ai_momentum", AiMomentum)
    BY DEF AiMomentum
  <1>4. Fits("cryptopanic", CryptoPanic)
    BY DEF CryptoPanic
  <1>5. Fits("x_search", XSearch)
    BY DEF XSearch
  <1>6. Fits("newsapi", NewsApi)
    BY DEF NewsApi
  <1>7. Fits("gnews", GNews)
    BY DEF GNews
  <1>8. Fits("rss_feed", RssFeed)
    BY DEF RssFeed
  <1>9. Fits("prediction_markets", PredictionMarkets)
    BY DEF PredictionMarkets
  <1>10. Fits("sentiment_score", SentimentScore)
    BY DEF SentimentScore
  <1>11. Fits("coinglass_rates", CoinglassRates)
    BY DEF CoinglassRates, CoinGlass
  <1>12. Fits("coinglass_liquidations", CoinglassLiquidations)
    BY DEF CoinglassLiquidations, CoinGlass
  <1>13. Fits("coinglass_options", CoinglassOptions)
    BY DEF CoinglassOptions, CoinGlass
  <1>14. Fits("etf_flow", EtfFlow)
    BY DEF EtfFlow
  <1>15. Fits("onchain_metrics", Onchain)
    BY DEF Onchain
  <1>16. Fits("fear_greed", FearGreed)
    BY DEF FearGreed
  <1>17. Fits("cot_positioning", Cot)
    BY DEF Cot
  <1>18. Fits("grayscale_premium", Grayscale)
    BY DEF Grayscale
  <1>19. Fits("regime_scorecard", RegimeScorecard)
    BY DEF RegimeScorecard
  <1>2a. Fits("multi_timeframe", MultiTimeframe)
    BY DEF MultiTimeframe
  <1>21. Fits("valuation_anchor", ValuationAnchor)
    BY DEF ValuationAnchor
  <1>22. Fits("macro_context", MacroContext)
    BY DEF MacroContext
  <1>23. Fits("ml_quant", MlQuant)
    BY DEF MlQuant
  <1>24. Fits("econ_calendar", EconCalendar)
    BY DEF EconCalendar
  <1>25. Fits("financial_datasets", FinancialDatasets)
    BY DEF FinancialDatasets
  <1>26. Fits("correlation_matrix", Correlation)
    BY DEF Correlation
  <1>27. Fits("historical_analog", HistoricalAnalog)
    BY DEF HistoricalAnalog
  <1>28. Fits("ai_sector_market", AiSectorMarket)
    BY DEF AiSectorMarket
  <1>29. Fits("gspc_anchor", GspcAnchor)
    BY DEF GspcAnchor
  <1>30. Fits("spy_anchor", SpyAnchor)
    BY DEF SpyAnchor
  <1> HIDE DEF Fits
  <1>31. ASSUME NEW t \in Tools PROVE Fits(t, Chain[t])
    BY <1>1, <1>2, <1>3, <1>4, <1>5, <1>6, <1>7, <1>8, <1>9, <1>10, <1>11, <1>12, <1>13,
       <1>14, <1>15, <1>16, <1>17, <1>18, <1>19, <1>2a, <1>21, <1>22, <1>23, <1>24, <1>25,
       <1>26, <1>27, <1>28, <1>29, <1>30
    DEF Tools, Chain
  <1> QED BY <1>31
(* What a call without data was told, wherever its answer goes.            *)
CallType == [at : {"none", "drop", "ask", "keep"}, step : Nat, got : BOOLEAN, data : BOOLEAN,
             mute : BOOLEAN]
EntryType  == [kept : BOOLEAN, expired : BOOLEAN, data : BOOLEAN, mute : BOOLEAN]
AnswerType == [data : BOOLEAN, mute : BOOLEAN, cached : BOOLEAN, asked : Nat]

(* What waits to be kept, and what was kept, is excused by the lists.      *)
ToolInv ==
    /\ tool \in Tools
    /\ cache \in EntryType /\ call \in [Crews -> CallType] /\ answer \in [Crews -> AnswerType]
    /\ \A c \in Crews : call[c].step \in 1..Len(Chain[tool])
    /\ \A c \in Crews : call[c].at = "keep" /\ ~ call[c].data =>
         /\ tool \in Stubborn
         /\ call[c].step = Len(Chain[tool]) \/ tool \in Hasty
         /\ call[c].mute => tool \in Silent
    /\ cache.kept /\ ~ cache.data => tool \in Stubborn /\ (cache.mute => tool \in Silent)
    /\ GapsExplained

LEMMA AskStep ==
    ASSUME ToolInv, NEW c \in Crews, Ask(c)
    PROVE  ToolInv'
  <1> DEFINE s  == Chain[tool][call[c].step]
             n  == Len(Chain[tool])
  <1>1. PICK o \in Outcomes :
          LET data == o = "data" \/ (s.part /\ call[c].got)
              out  == IF data THEN "data" ELSE o
              now  == [call[c] EXCEPT !.got = @ \/ (s.part /\ o = "data"), !.data = data,
                                      !.mute = ~ data /\ o \in s.mute]
          IN  IF o \notin s.ends
              THEN Set(c, [now EXCEPT !.step = @ + 1]) /\ UNCHANGED answer
              ELSE IF out \in s.keeps
              THEN Set(c, [now EXCEPT !.at = "keep"]) /\ UNCHANGED answer
              ELSE Set(c, NoCall) /\ Return(c, data, now.mute, FALSE, call[c].step)
    BY DEF Ask
  <1> DEFINE data == o = "data" \/ (s.part /\ call[c].got)
             out  == IF data THEN "data" ELSE o
             now  == [call[c] EXCEPT !.got = @ \/ (s.part /\ o = "data"), !.data = data,
                                     !.mute = ~ data /\ o \in s.mute]
  <1>2. /\ call[c].at = "ask" /\ UNCHANGED <<tool, cache, calls>>
        /\ tool \in Tools /\ call[c] \in CallType /\ call[c].step \in 1..n /\ n \in Nat
    BY ChainsFit DEF Ask, ToolInv, Fits
  <1>3. Fits(tool, Chain[tool])
    BY <1>2, ChainsFit
  <1>4. /\ tool \notin Stubborn => s.keeps \subseteq Data
        /\ tool \notin Hasty /\ call[c].step # n => s.ends \subseteq Data
        /\ tool \notin Silent => s.mute = {}
        /\ call[c].step = n => s.ends = Outcomes
    BY <1>2, <1>3 DEF Fits
  <1>5. /\ now.at = "ask" /\ now.step = call[c].step /\ now.data = data
        /\ now.mute = (~ data /\ o \in s.mute)
        /\ now \in [at : {"ask"}, step : {call[c].step}, got : BOOLEAN, data : BOOLEAN, mute : BOOLEAN]
    BY <1>2, Zenon DEF CallType
  <1>6. ~ data =>
          /\ o # "data" /\ out = o
          /\ o \in s.keeps => tool \in Stubborn
          /\ o \in s.ends => call[c].step = n \/ tool \in Hasty
          /\ o \in s.mute => tool \in Silent
    BY <1>4 DEF Data
  <1>7. o \notin s.ends => call[c].step + 1 \in 1..n
    BY <1>2, <1>4
  <1>8. data \in BOOLEAN /\ (out \in s.keeps \/ out \notin s.keeps)
    OBVIOUS
  <1> HIDE DEF s, n, data, out, now
  <1>9. CASE o \notin s.ends
    <2>1. call' = [call EXCEPT ![c] = [now EXCEPT !.step = now.step + 1]] /\ answer' = answer
      BY <1>1, <1>9 DEF Set, s, now, data
    <2>2. /\ [now EXCEPT !.step = now.step + 1] \in CallType
          /\ [now EXCEPT !.step = now.step + 1].step \in 1..n
          /\ [now EXCEPT !.step = now.step + 1].at = "ask"
      BY <1>2, <1>5, <1>7, <1>9 DEF CallType
    <2>3. /\ call' \in [Crews -> CallType] /\ call'[c].step \in 1..n /\ call'[c].at = "ask"
          /\ \A d \in Crews : d # c => call'[d] = call[d]
      BY <2>1, <2>2 DEF ToolInv
    <2> QED BY <1>2, <2>1, <2>3 DEF ToolInv, GapsExplained, n
  <1>10. CASE o \in s.ends /\ out \in s.keeps
    <2>1. call' = [call EXCEPT ![c] = [now EXCEPT !.at = "keep"]] /\ answer' = answer
      BY <1>1, <1>10 DEF Set, s, now, data, out
    <2>2. /\ [now EXCEPT !.at = "keep"] \in CallType
          /\ [now EXCEPT !.at = "keep"].step = call[c].step
          /\ [now EXCEPT !.at = "keep"].data = data
          /\ [now EXCEPT !.at = "keep"].mute = (~ data /\ o \in s.mute)
      BY <1>2, <1>5 DEF CallType
    <2>3. /\ call' \in [Crews -> CallType] /\ call'[c].step = call[c].step
          /\ call'[c].data = data /\ call'[c].mute = (~ data /\ o \in s.mute)
          /\ \A d \in Crews : d # c => call'[d] = call[d]
      BY <2>1, <2>2 DEF ToolInv
    <2>4. ~ call'[c].data =>
             /\ tool \in Stubborn
             /\ call'[c].step = n \/ tool \in Hasty
             /\ call'[c].mute => tool \in Silent
      BY <1>6, <1>10, <2>3
    <2> QED BY <1>2, <2>1, <2>3, <2>4 DEF ToolInv, GapsExplained, n
  <1>11. CASE o \in s.ends /\ out \notin s.keeps
    <2>1. /\ call' = [call EXCEPT ![c] = NoCall]
          /\ answer' = [answer EXCEPT ![c] = [data |-> data, mute |-> now.mute, cached |-> FALSE,
                                              asked |-> call[c].step]]
      BY <1>1, <1>11 DEF Set, Return, s, now, data, out
    <2>2. NoCall \in CallType /\ NoCall.step = 1 /\ NoCall.at = "none"
      BY DEF NoCall, CallType
    <2>3. /\ call' \in [Crews -> CallType] /\ call'[c].step \in 1..n /\ call'[c].at = "none"
          /\ \A d \in Crews : d # c => call'[d] = call[d]
      BY <1>2, <2>1, <2>2 DEF ToolInv
    <2>4. now.mute \in BOOLEAN /\ call[c].step \in Nat
      BY <1>2, <1>5
    <2>5. /\ answer' \in [Crews -> AnswerType] /\ answer'[c].data = data
          /\ answer'[c].mute = now.mute /\ ~ answer'[c].cached /\ answer'[c].asked = call[c].step
          /\ \A d \in Crews : d # c => answer'[d] = answer[d]
      BY <1>8, <2>1, <2>4 DEF ToolInv, AnswerType
    <2>6. GapsExplained'
      <3> SUFFICES ASSUME NEW d \in Crews, ~ answer'[d].data
                   PROVE  /\ answer'[d].cached   => tool \in Stubborn
                          /\ ~ answer'[d].cached => answer'[d].asked = n \/ tool \in Hasty
                          /\ answer'[d].mute     => tool \in Silent
        BY <1>2 DEF GapsExplained, n
      <3>1. CASE d = c
        BY <1>5, <1>6, <1>11, <2>5, <3>1
      <3>2. CASE d # c
        BY <2>5, <3>2 DEF ToolInv, GapsExplained, n
      <3> QED BY <3>1, <3>2
    <2> QED BY <1>2, <2>3, <2>5, <2>6 DEF ToolInv, n
  <1> QED BY <1>9, <1>10, <1>11

LEMMA ToolStep == ToolInv /\ [ToolNext]_toolVars => ToolInv'
  <1> SUFFICES ASSUME ToolInv, [ToolNext]_toolVars
               PROVE  ToolInv'
    OBVIOUS
  <1>1. /\ Len(Chain[tool]) \in Nat \ {0} /\ NoEntry \in EntryType /\ ~ NoEntry.kept
        /\ NoCall \in CallType /\ NoCall.step = 1 /\ NoCall.at = "none"
    <2>1. Fits(tool, Chain[tool])
      BY ChainsFit DEF ToolInv
    <2> QED BY <2>1 DEF Fits, NoEntry, EntryType, NoCall, CallType
  <1>2. ASSUME NEW c \in Crews, NEW r \in CallType, r.step \in 1..Len(Chain[tool]), r.at # "keep",
               Set(c, r)
        PROVE  /\ call' \in [Crews -> CallType]
               /\ \A d \in Crews : call'[d].step \in 1..Len(Chain[tool])
               /\ \A d \in Crews : call'[d].at = "keep" => call'[d] = call[d]
    BY <1>2 DEF ToolInv, Set
  <1>2a. ASSUME NEW c \in Crews, NEW spot \in {"drop", "ask"}, Set(c, [NoCall EXCEPT !.at = spot])
         PROVE  /\ call' \in [Crews -> CallType]
                /\ \A d \in Crews : call'[d].step \in 1..Len(Chain[tool])
                /\ \A d \in Crews : call'[d].at = "keep" => call'[d] = call[d]
    <2> DEFINE r == [NoCall EXCEPT !.at = spot]
    <2>1. r \in CallType /\ r.step = 1 /\ r.at = spot
      BY <1>1 DEF CallType
    <2>2. Set(c, r)
      BY <1>2a
    <2> HIDE DEF r
    <2>3. r.step \in 1..Len(Chain[tool]) /\ r.at # "keep"
      BY <1>1, <2>1
    <2> QED BY <1>2, <2>1, <2>2, <2>3
  <1>3. ASSUME NEW c \in Crews, LookUp(c) PROVE ToolInv'
    <2>1. tool' = tool /\ cache' = cache
      BY <1>3 DEF LookUp
    <2>2. CASE cache.kept /\ ~ cache.expired
      <3>1. call' = call /\ answer' = [answer EXCEPT ![c] = [data |-> cache.data, mute |-> cache.mute,
                                                             cached |-> TRUE, asked |-> 0]]
        BY <1>3, <2>2 DEF LookUp, Return
      <3>2. /\ answer' \in [Crews -> AnswerType] /\ answer'[c].data = cache.data
            /\ answer'[c].mute = cache.mute /\ answer'[c].cached
            /\ \A d \in Crews : d # c => answer'[d] = answer[d]
        BY <3>1 DEF ToolInv, AnswerType, EntryType
      <3>3. GapsExplained'
        <4> SUFFICES ASSUME NEW d \in Crews, ~ answer'[d].data
                     PROVE  /\ answer'[d].cached   => tool \in Stubborn
                            /\ ~ answer'[d].cached => answer'[d].asked = Len(Chain[tool]) \/ tool \in Hasty
                            /\ answer'[d].mute     => tool \in Silent
          BY <2>1 DEF GapsExplained
        <4>1. CASE d = c
          BY <2>2, <3>2, <4>1 DEF ToolInv
        <4>2. CASE d # c
          BY <3>2, <4>2 DEF ToolInv, GapsExplained
        <4> QED BY <4>1, <4>2
      <3> QED BY <2>1, <3>1, <3>2, <3>3 DEF ToolInv
    <2>3. CASE ~ (cache.kept /\ ~ cache.expired)
      <3>1. PICK spot \in {"drop", "ask"} : Set(c, [NoCall EXCEPT !.at = spot])
        BY <1>3, <2>3 DEF LookUp
      <3>2. answer' = answer
        BY <1>3, <2>3 DEF LookUp
      <3>3. /\ call' \in [Crews -> CallType]
            /\ \A d \in Crews : call'[d].step \in 1..Len(Chain[tool])
            /\ \A d \in Crews : call'[d].at = "keep" => call'[d] = call[d]
        BY <1>2a, <3>1
      <3> QED BY <2>1, <3>2, <3>3 DEF ToolInv, GapsExplained
    <2> QED BY <2>2, <2>3
  <1>4. ASSUME NEW c \in Crews, DropExpired(c) PROVE ToolInv'
    <2>1. Set(c, [NoCall EXCEPT !.at = "ask"]) /\ cache' = NoEntry /\ UNCHANGED <<tool, answer>>
      BY <1>4 DEF DropExpired
    <2>2. /\ call' \in [Crews -> CallType]
          /\ \A d \in Crews : call'[d].step \in 1..Len(Chain[tool])
          /\ \A d \in Crews : call'[d].at = "keep" => call'[d] = call[d]
      BY <1>2a, <2>1
    <2> QED BY <1>1, <2>1, <2>2 DEF ToolInv, GapsExplained
  <1>5. ASSUME NEW c \in Crews, Keep(c) PROVE ToolInv'
    <2>1. /\ call[c].at = "keep" /\ tool' = tool /\ Set(c, NoCall)
          /\ cache' = [kept |-> TRUE, expired |-> FALSE, data |-> call[c].data, mute |-> call[c].mute]
          /\ answer' = [answer EXCEPT ![c] = [data |-> call[c].data, mute |-> call[c].mute,
                                              cached |-> FALSE, asked |-> call[c].step]]
      BY <1>5 DEF Keep, Return
    <2>2. call[c] \in CallType
      BY DEF ToolInv
    <2>3. /\ call' \in [Crews -> CallType]
          /\ \A d \in Crews : call'[d].step \in 1..Len(Chain[tool])
          /\ \A d \in Crews : call'[d].at = "keep" => call'[d] = call[d]
      BY <1>1, <1>2, <2>1
    <2>4. /\ answer' \in [Crews -> AnswerType] /\ answer'[c].data = call[c].data
          /\ answer'[c].mute = call[c].mute /\ ~ answer'[c].cached /\ answer'[c].asked = call[c].step
          /\ \A d \in Crews : d # c => answer'[d] = answer[d]
      BY <2>1, <2>2 DEF ToolInv, AnswerType, CallType
    <2>5. cache' \in EntryType /\ cache'.data = call[c].data /\ cache'.mute = call[c].mute
      BY <2>1, <2>2 DEF EntryType, CallType
    <2>6. GapsExplained'
      <3> SUFFICES ASSUME NEW d \in Crews, ~ answer'[d].data
                   PROVE  /\ answer'[d].cached   => tool \in Stubborn
                          /\ ~ answer'[d].cached => answer'[d].asked = Len(Chain[tool]) \/ tool \in Hasty
                          /\ answer'[d].mute     => tool \in Silent
        BY <2>1 DEF GapsExplained
      <3>1. CASE d = c
        BY <2>1, <2>4, <3>1 DEF ToolInv
      <3>2. CASE d # c
        BY <2>4, <3>2 DEF ToolInv, GapsExplained
      <3> QED BY <3>1, <3>2
    <2> QED BY <2>1, <2>3, <2>4, <2>5, <2>6 DEF ToolInv
  <1>6. CASE EntryExpires \/ EntryEvicted
    <2>1. /\ UNCHANGED <<tool, call, answer>> /\ cache' \in EntryType
          /\ cache'.kept => cache.kept /\ cache'.data = cache.data /\ cache'.mute = cache.mute
      BY <1>1, <1>6 DEF EntryExpires, EntryEvicted, ToolInv, EntryType
    <2> QED BY <2>1 DEF ToolInv, GapsExplained
  <1>7. CASE UNCHANGED toolVars
    BY <1>7 DEF toolVars, ToolInv, GapsExplained
  <1> QED BY <1>3, <1>4, <1>5, <1>6, <1>7, AskStep DEF ToolNext

(* A tool that says it has no data has asked or skipped all its sources    *)
(* just now, and its answer is marked, for every number of crews and calls *)
(* and whatever the cache does in between, but for the tools listed.           *)
THEOREM GapsAreExplained == ToolSpec => []GapsExplained
  <1>1. ToolInit => ToolInv
    <2> SUFFICES ASSUME ToolInit PROVE ToolInv
      OBVIOUS
    <2>1. Len(Chain[tool]) \in Nat \ {0}
      BY ChainsFit DEF ToolInit, Fits
    <2>2. NoCall \in CallType /\ NoCall.step = 1 /\ NoCall.at = "none"
      BY DEF NoCall, CallType
    <2>3. NoEntry \in EntryType /\ ~ NoEntry.kept
      BY DEF NoEntry, EntryType
    <2>4. Nothing \in AnswerType /\ Nothing.data
      BY DEF Nothing, AnswerType
    <2> QED BY <2>1, <2>2, <2>3, <2>4 DEF ToolInit, ToolInv, GapsExplained
  <1>2. ToolInv => GapsExplained
    BY DEF ToolInv
  <1> QED BY <1>1, <1>2, ToolStep, PTL DEF ToolSpec
(***************************************************************************)
(* The limits: the cap and the stop for repeated calls.                    *)
(***************************************************************************)

(* The calls that were counted and have not run yet. *)
Pending == {t \in Threads : thread[t].at \in {"append", "scan"}}

LaneType == [at : {"none", "append", "scan", "quota", "spend"}, arg : Arguments \cup {"none"},
             used : Nat]

LimitTypes ==
    /\ count \in Nat /\ ran \in Nat /\ today \in Nat /\ spent \in Nat
    /\ quota \in [day : Nat, used : Nat]
    /\ thread \in [Threads -> LaneType] /\ inRow \in [Threads -> Nat]
    /\ history \in Seq(Threads \X (Arguments \cup {"none"}))

(* What ran and what still can was counted while the cap allowed it.       *)
CapInv ==
    /\ IsFiniteSet(Pending)
    /\ CallCap > 0 => ran + Cardinality(Pending) <= count /\ ran + Cardinality(Pending) <= CallCap

(* The history ends with as many calls of a thread that are the same as    *)
(* were made in a row, and with the one that is about to be looked at.     *)
RowInv ==
    Repeats > 0 => \A t \in Threads : inRow[t] > 0 =>
        /\ inRow[t] <= Len(history)
        /\ \A i \in (Len(history) - inRow[t] + 1)..Len(history) : history[i] = history[Len(history)]
        /\ thread[t].at = "scan" => history[Len(history)] = <<t, thread[t].arg>>

UseInv == LimitTypes /\ CapInv /\ RowInv /\ ~ looped

(* The walk back passes all the calls at the end that have the argument.   *)
LEMMA StreakIsLong ==
    ASSUME NEW arg, Len(history) \in Nat, NEW k \in 1..Len(history),
           \A i \in (Len(history) - k + 1)..Len(history) : history[i][2] = arg
    PROVE  Streak(arg) \in Int /\ Streak(arg) >= k
  <1> DEFINE n    == Len(history)
             same == {m \in 0..n : \A i \in (m + 1)..n : history[i][2] = arg}
             Stop(m) == /\ \A i \in (m + 1)..n : history[i][2] = arg
                        /\ m = 0 \/ history[m][2] # arg
  <1>1. n \in Nat /\ k \in 1..n
    OBVIOUS
  <1>2. \E m \in 0..n : Stop(m)
    <2>1. same \in SUBSET Nat /\ n \in same
      BY <1>1
    <2>2. PICK m \in same : \A j \in same : m <= j
      BY <2>1, LeastOf
    <2>3. m \in 0..n /\ \A i \in (m + 1)..n : history[i][2] = arg
      BY <2>2
    <2>4. CASE m # 0 /\ history[m][2] = arg
      <3>1. m - 1 \in 0..n /\ ~ (m <= m - 1)
        BY <1>1, <2>3, <2>4
      <3>2. ASSUME NEW i \in ((m - 1) + 1)..n PROVE history[i][2] = arg
        <4>1. i = m \/ i \in (m + 1)..n
          BY <1>1, <2>3
        <4> QED BY <2>3, <2>4, <4>1
      <3>3. m - 1 \in same
        BY <3>1, <3>2
      <3> QED BY <2>2, <3>1, <3>3
    <2>5. CASE ~ (m # 0 /\ history[m][2] = arg)
      <3>1. Stop(m)
        BY <2>3, <2>5
      <3> QED BY <2>3, <3>1
    <2> QED BY <2>4, <2>5
  <1> DEFINE c == CHOOSE m \in 0..n : Stop(m)
  <1>3. c \in 0..n /\ Stop(c)
    BY <1>2
  <1>4. Streak(arg) = n - c
    BY DEF Streak
  <1> HIDE DEF c
  <1>5. c <= n - k
    <2> SUFFICES ASSUME ~ (c <= n - k) PROVE FALSE
      OBVIOUS
    <2>1. c # 0 /\ c \in (n - k + 1)..n
      BY <1>1, <1>3
    <2>2. history[c][2] = arg /\ history[c][2] # arg
      BY <1>3, <2>1
    <2> QED BY <2>2
  <1> QED BY <1>1, <1>3, <1>4, <1>5

(* One thread's call goes to another place, and the others stay.          *)
LEMMA OneMoves ==
    ASSUME LimitTypes, NEW t \in Threads, NEW r \in LaneType, thread' = [thread EXCEPT ![t] = r]
    PROVE  /\ thread' \in [Threads -> LaneType] /\ thread'[t] = r
           /\ \A u \in Threads : u # t => thread'[u] = thread[u]
           /\ Pending' = IF r.at \in {"append", "scan"} THEN Pending \cup {t} ELSE Pending \ {t}
  <1>1. /\ thread' \in [Threads -> LaneType] /\ thread'[t] = r
        /\ \A u \in Threads : u # t => thread'[u] = thread[u]
    BY DEF LimitTypes
  <1>2. CASE r.at \in {"append", "scan"}
    <2>1. ASSUME NEW u \in Threads PROVE u \in Pending' <=> u \in Pending \cup {t}
      BY <1>1, <1>2 DEF Pending
    <2>2. Pending' \subseteq Threads /\ Pending \cup {t} \subseteq Threads
      BY DEF Pending
    <2> QED BY <1>1, <1>2, <2>1, <2>2
  <1>3. CASE r.at \notin {"append", "scan"}
    <2>1. ASSUME NEW u \in Threads PROVE u \in Pending' <=> u \in Pending \ {t}
      BY <1>1, <1>3 DEF Pending
    <2>2. Pending' \subseteq Threads /\ Pending \ {t} \subseteq Threads
      BY DEF Pending
    <2> QED BY <1>1, <1>3, <2>1, <2>2
  <1> QED BY <1>1, <1>2, <1>3
(* A call that leaves the two places where it is pending frees its place. *)
LEMMA PendingIsCounted ==
    ASSUME IsFiniteSet(Pending), NEW t
    PROVE  /\ Cardinality(Pending) \in Nat
           /\ IsFiniteSet(Pending \cup {t}) /\ IsFiniteSet(Pending \ {t})
           /\ t \notin Pending => /\ Cardinality(Pending \cup {t}) = Cardinality(Pending) + 1
                                  /\ Pending \ {t} = Pending
           /\ t \in Pending => /\ Cardinality(Pending \ {t}) = Cardinality(Pending) - 1
                               /\ Pending \cup {t} = Pending
  BY FS_CardinalityType, FS_AddElement, FS_RemoveElement

LEMMA UseStep == UseInv /\ [LimitNext]_limitVars => UseInv'
  <1> SUFFICES ASSUME UseInv, [LimitNext]_limitVars
               PROVE  UseInv'
    OBVIOUS
  <1> USE ToolLimitsConstants
  <1>1. LimitTypes /\ CapInv /\ RowInv /\ ~ looped
    BY DEF UseInv
  <1>2. /\ Len(history) \in Nat /\ \A t \in Threads : thread[t] \in LaneType /\ inRow[t] \in Nat
        /\ Away \in [at : {"none"}, arg : {"none"}, used : {0}]
    BY <1>1 DEF LimitTypes, Away
  <1>3. ASSUME UNCHANGED <<history, inRow>>,
               \A t \in Threads : thread'[t].at = "scan" => thread'[t] = thread[t]
        PROVE  RowInv'
    BY <1>1, <1>3 DEF RowInv
  <1>4. ASSUME NEW t \in Threads, Count(t) PROVE UseInv'
    <2>1. PICK a \in Arguments :
             thread' = IF CallCap > 0 /\ count' > CallCap THEN thread
                       ELSE [thread EXCEPT ![t] = [Away EXCEPT !.at = "append", !.arg = a]]
      BY <1>4 DEF Count
    <2>2. /\ count' = (IF CallCap = 0 THEN count ELSE count + 1) /\ thread[t].at = "none"
          /\ UNCHANGED <<history, quota, today, ran, inRow, looped, spent>>
      BY <1>4 DEF Count
    <2>3. count' \in Nat /\ count' >= count /\ (CallCap > 0 => count' = count + 1)
      BY <1>1, <2>2 DEF LimitTypes
    <2>4. CASE CallCap > 0 /\ count' > CallCap
      <3>1. thread' = thread /\ Pending' = Pending
        BY <2>1, <2>4 DEF Pending
      <3>2. LimitTypes'
        BY <1>1, <2>2, <2>3, <3>1 DEF LimitTypes
      <3>3. CapInv'
        BY <1>1, <1>2, <2>2, <2>3, <3>1, FS_CardinalityType DEF CapInv, LimitTypes
      <3> QED BY <1>1, <1>3, <2>2, <3>1, <3>2, <3>3 DEF UseInv
    <2>5. CASE ~ (CallCap > 0 /\ count' > CallCap)
      <3> DEFINE r == [Away EXCEPT !.at = "append", !.arg = a]
      <3>1. r \in LaneType /\ r.at = "append"
        BY DEF Away, LaneType
      <3>2. thread' = [thread EXCEPT ![t] = r]
        BY <2>1, <2>5
      <3> HIDE DEF r
      <3>3. /\ thread' \in [Threads -> LaneType] /\ thread'[t].at = "append"
            /\ \A u \in Threads : u # t => thread'[u] = thread[u]
            /\ Pending' = Pending \cup {t}
        BY <1>1, <3>1, <3>2, OneMoves
      <3>4. t \notin Pending
        BY <2>2 DEF Pending
      <3>5. LimitTypes'
        BY <1>1, <2>2, <2>3, <3>3 DEF LimitTypes
      <3>6. IsFiniteSet(Pending)
        BY <1>1 DEF CapInv
      <3>7. /\ Cardinality(Pending) \in Nat /\ IsFiniteSet(Pending')
            /\ Cardinality(Pending') = Cardinality(Pending) + 1
        BY <3>3, <3>4, <3>6, PendingIsCounted
      <3>8. CapInv'
        BY <1>1, <2>2, <2>3, <2>5, <3>7 DEF CapInv, LimitTypes
      <3>9. RowInv'
        BY <1>3, <2>2, <3>3
      <3> QED BY <1>1, <2>2, <3>5, <3>8, <3>9 DEF UseInv
    <2> QED BY <2>4, <2>5
  <1>5. ASSUME NEW t \in Threads, Remember(t) PROVE UseInv'
    <2> DEFINE r == [thread[t] EXCEPT !.at = "scan"]
               now == <<t, thread[t].arg>>
    <2>1. /\ thread[t].at = "append" /\ thread' = [thread EXCEPT ![t].at = "scan"]
          /\ history' = (IF Repeats = 0 THEN history ELSE Append(history, now))
          /\ inRow' = [u \in Threads |-> IF u # t THEN 0 ELSE IF Same(t) THEN inRow[t] + 1 ELSE 1]
          /\ UNCHANGED <<count, quota, today, ran, looped, spent>>
      BY <1>5 DEF Remember, Go
    <2>2. r \in LaneType /\ r.at = "scan" /\ r.arg = thread[t].arg
      BY <1>2 DEF LaneType
    <2>3. thread' = [thread EXCEPT ![t] = r]
      BY <1>1, <2>1 DEF LimitTypes
    <2>4. now \in Threads \X (Arguments \cup {"none"})
      BY <1>2 DEF LaneType
    <2>5. Same(t) <=> history # << >> /\ history[Len(history)] = now
      BY DEF Same
    <2> HIDE DEF r, now
    <2>6. /\ thread' \in [Threads -> LaneType] /\ thread'[t].at = "scan"
          /\ thread'[t].arg = thread[t].arg
          /\ \A u \in Threads : u # t => thread'[u] = thread[u]
          /\ Pending' = Pending \cup {t}
      BY <1>1, <2>2, <2>3, OneMoves
    <2>7. t \in Pending
      BY <2>1 DEF Pending
    <2>8. Pending' = Pending
      BY <2>6, <2>7
    <2>9. history' \in Seq(Threads \X (Arguments \cup {"none"})) /\ inRow' \in [Threads -> Nat]
      BY <1>1, <1>2, <2>1, <2>4 DEF LimitTypes
    <2>10. LimitTypes' /\ CapInv'
      BY <1>1, <2>1, <2>6, <2>8, <2>9 DEF LimitTypes, CapInv
    <2>11. RowInv'
      <3> SUFFICES ASSUME Repeats > 0, NEW u \in Threads, inRow'[u] > 0
                   PROVE  /\ inRow'[u] <= Len(history')
                          /\ \A i \in (Len(history') - inRow'[u] + 1)..Len(history') :
                                history'[i] = history'[Len(history')]
                          /\ thread'[u].at = "scan" => history'[Len(history')] = <<u, thread'[u].arg>>
        BY DEF RowInv
      <3>1. u = t
        BY <2>1
      <3>2. /\ history' = Append(history, now) /\ Len(history') = Len(history) + 1
            /\ \A i \in 1..Len(history) : history'[i] = history[i]
            /\ history'[Len(history) + 1] = now
        <4>1. history \in Seq(Threads \X (Arguments \cup {"none"})) /\ history' = Append(history, now)
          BY <1>1, <2>1 DEF LimitTypes
        <4>2. ASSUME NEW S, NEW h \in Seq(S), NEW x \in S
              PROVE  /\ Len(Append(h, x)) = Len(h) + 1
                     /\ \A i \in 1..Len(h) : Append(h, x)[i] = h[i]
                     /\ Append(h, x)[Len(h) + 1] = x
          OBVIOUS
        <4> QED BY <2>4, <4>1, <4>2
      <3>3. now = <<u, thread'[u].arg>>
        BY <2>6, <3>1 DEF now
      <3>4. CASE Same(t)
        <4>1. inRow'[u] = inRow[t] + 1 /\ inRow[t] \in Nat
          BY <1>2, <2>1, <3>1, <3>4
        <4>2. inRow[t] <= Len(history)
          BY <1>1, <1>2 DEF RowInv
        <4>3. ASSUME NEW i \in (Len(history') - inRow'[u] + 1)..Len(history')
              PROVE  history'[i] = now
          <5>1. CASE i = Len(history) + 1
            BY <3>2, <5>1
          <5>2. CASE i # Len(history) + 1
            <6>1. i \in (Len(history) - inRow[t] + 1)..Len(history) /\ inRow[t] > 0
              BY <1>2, <3>2, <4>1, <4>2, <5>2
            <6>2. history[i] = history[Len(history)]
              BY <1>1, <6>1 DEF RowInv
            <6>3. i \in 1..Len(history)
              BY <1>2, <4>1, <4>2, <6>1
            <6> QED BY <2>5, <3>2, <3>4, <6>2, <6>3
          <5> QED BY <5>1, <5>2
        <4> QED BY <1>2, <3>2, <3>3, <4>1, <4>2, <4>3
      <3>5. CASE ~ Same(t)
        <4>1. inRow'[u] = 1
          BY <2>1, <3>1, <3>5
        <4> QED BY <1>2, <3>2, <3>3, <4>1
      <3> QED BY <3>4, <3>5
    <2> QED BY <1>1, <2>1, <2>10, <2>11 DEF UseInv
  <1>6. ASSUME NEW t \in Threads, Scan(t) PROVE UseInv'
    <2> DEFINE stop == Repeats > 0 /\ Streak(thread[t].arg) >= Repeats
               r    == IF stop THEN Away ELSE [thread[t] EXCEPT !.at = "quota"]
    <2>1. /\ thread[t].at = "scan" /\ UNCHANGED <<count, history, quota, today, inRow, spent>>
          /\ thread' = [thread EXCEPT ![t] = r]
          /\ ran' = ran \/ ran' = ran + 1
      BY <1>1, <1>6 DEF Scan, Go, LimitTypes
    <2>2. [thread[t] EXCEPT !.at = "quota"] \in LaneType
      BY <1>2 DEF LaneType
    <2>3. r \in LaneType /\ r.at \notin {"append", "scan"}
      BY <1>2, <2>2 DEF LaneType
    <2>4. ~ looped'
      <3>1. CASE stop
        BY <1>1, <1>6, <3>1 DEF Scan
      <3>2. CASE ~ stop
        <4> SUFFICES ASSUME Repeats > 0, inRow[t] >= Repeats PROVE FALSE
          BY <1>1, <1>6, <3>2 DEF Scan
        <4> DEFINE k == inRow[t]
        <4>1. k > 0 /\ k \in Nat
          BY <1>2
        <4>2. /\ k <= Len(history) /\ history[Len(history)] = <<t, thread[t].arg>>
              /\ \A i \in (Len(history) - k + 1)..Len(history) : history[i] = history[Len(history)]
          BY <1>1, <2>1, <4>1 DEF RowInv
        <4>3. \A i \in (Len(history) - k + 1)..Len(history) : history[i][2] = thread[t].arg
          BY <4>2
        <4> HIDE DEF k
        <4>4. k \in 1..Len(history)
          BY <1>2, <4>1, <4>2
        <4>5. Streak(thread[t].arg) \in Int /\ Streak(thread[t].arg) >= k
          BY <1>2, <4>3, <4>4, StreakIsLong
        <4> QED BY <3>2, <4>1, <4>5 DEF k
      <3> QED BY <3>1, <3>2
    <2> HIDE DEF r
    <2>5. /\ thread' \in [Threads -> LaneType] /\ thread'[t] = r
          /\ \A u \in Threads : u # t => thread'[u] = thread[u]
          /\ Pending' = Pending \ {t}
      BY <1>1, <2>1, <2>3, OneMoves
    <2>6. t \in Pending /\ IsFiniteSet(Pending)
      BY <1>1, <2>1 DEF Pending, CapInv
    <2>7. /\ Cardinality(Pending) \in Nat /\ IsFiniteSet(Pending')
          /\ Cardinality(Pending') = Cardinality(Pending) - 1
      BY <2>5, <2>6, PendingIsCounted
    <2>8. LimitTypes'
      BY <1>1, <2>1, <2>5 DEF LimitTypes
    <2>9. CapInv'
      BY <1>1, <2>1, <2>7 DEF CapInv, LimitTypes
    <2>10. RowInv'
      BY <1>3, <2>1, <2>3, <2>5
    <2> QED BY <2>4, <2>8, <2>9, <2>10 DEF UseInv
  <1>7. ASSUME NEW t \in Threads, ReadQuota(t) \/ SpendQuota(t) PROVE UseInv'
    <2>1. /\ thread[t].at \in {"quota", "spend"}
          /\ UNCHANGED <<count, history, today, ran, inRow, looped>>
          /\ quota' \in [day : Nat, used : Nat] /\ spent' \in Nat
      <3>1. quota \in [day : Nat, used : Nat] /\ today \in Nat /\ spent \in Nat
        BY <1>1 DEF LimitTypes
      <3>2. CASE ReadQuota(t)
        BY <1>1, <3>1, <3>2 DEF ReadQuota
      <3>3. CASE SpendQuota(t)
        <4>1. thread[t].used + 1 \in Nat
          BY <1>2 DEF LaneType
        <4> QED BY <1>1, <3>1, <3>3, <4>1 DEF SpendQuota
      <3> QED BY <1>7, <3>2, <3>3
    <2>2. \E r \in LaneType : /\ thread' = [thread EXCEPT ![t] = r]
                              /\ r.at \notin {"append", "scan"}
      <3>1. Away \in LaneType /\ Away.at = "none"
        BY <1>2 DEF LaneType
      <3>2. CASE thread' = [thread EXCEPT ![t] = Away]
        BY <3>1, <3>2
      <3>3. CASE thread' = [thread EXCEPT ![t].at = "spend", ![t].used = quota'.used]
        <4> DEFINE r == [thread[t] EXCEPT !.at = "spend", !.used = quota'.used]
        <4>1. r \in LaneType /\ r.at = "spend"
          BY <1>2, <2>1 DEF LaneType
        <4>2. thread' = [thread EXCEPT ![t] = r]
          BY <1>1, <3>3 DEF LimitTypes
        <4> HIDE DEF r
        <4> QED BY <4>1, <4>2
      <3> QED BY <1>7, <3>2, <3>3 DEF ReadQuota, SpendQuota
    <2>3. PICK r \in LaneType : thread' = [thread EXCEPT ![t] = r] /\ r.at \notin {"append", "scan"}
      BY <2>2
    <2>4. /\ thread' \in [Threads -> LaneType] /\ thread'[t] = r
          /\ \A u \in Threads : u # t => thread'[u] = thread[u]
          /\ Pending' = Pending \ {t}
      BY <1>1, <2>3, OneMoves
    <2>5. t \notin Pending
      BY <2>1 DEF Pending
    <2>6. Pending' = Pending
      BY <2>4, <2>5
    <2>7. LimitTypes' /\ CapInv'
      BY <1>1, <2>1, <2>4, <2>6 DEF LimitTypes, CapInv
    <2>8. RowInv'
      BY <1>3, <2>1, <2>3, <2>4
    <2> QED BY <1>1, <2>1, <2>7, <2>8 DEF UseInv
  <1>8. CASE Midnight \/ UNCHANGED limitVars
    <2>1. /\ UNCHANGED <<count, history, quota, thread, ran, inRow, looped>>
          /\ today' \in Nat /\ spent' \in Nat
      <3>1. CASE Midnight
        BY <1>1, <3>1 DEF Midnight, LimitTypes
      <3>2. CASE UNCHANGED limitVars
        BY <1>1, <3>2 DEF limitVars, LimitTypes
      <3> QED BY <1>8, <3>1, <3>2
    <2>2. LimitTypes'
      BY <1>1, <2>1 DEF LimitTypes
    <2>3. CapInv'
      <3>1. Pending' = Pending
        BY <2>1 DEF Pending
      <3> QED BY <1>1, <2>1, <3>1 DEF CapInv
    <2>4. RowInv'
      BY <1>3, <2>1
    <2> QED BY <1>1, <2>1, <2>2, <2>3, <2>4 DEF UseInv
  <1> QED BY <1>4, <1>5, <1>6, <1>7, <1>8 DEF LimitNext

LEMMA UseStarts == LimitInit => UseInv
  <1> SUFFICES ASSUME LimitInit PROVE UseInv
    OBVIOUS
  <1>1. Away \in LaneType /\ Away.at = "none"
    BY DEF Away, LaneType
  <1>2. Pending = {}
    BY <1>1 DEF LimitInit, Pending
  <1>3. LimitTypes
    BY <1>1 DEF LimitInit, LimitTypes
  <1>4. CapInv
    BY <1>2, FS_EmptySet, ToolLimitsConstants DEF LimitInit, CapInv
  <1>5. RowInv /\ ~ looped
    BY DEF LimitInit, RowInv
  <1> QED BY <1>3, <1>4, <1>5 DEF UseInv

(* At most the cap's number of calls run, and no thread gets to run the    *)
(* same call too often in a row, however many threads there are and        *)
(* however their steps interleave with the unlocked counters.              *)
THEOREM RunawaysAreStopped == LimitSpec => []RunawaysStopped
  <1>1. LimitInit => UseInv
    BY UseStarts
  <1>2. UseInv => RunawaysStopped
    <2> SUFFICES ASSUME UseInv PROVE RunawaysStopped
      OBVIOUS
    <2>1. Cardinality(Pending) \in Nat
      BY FS_CardinalityType DEF UseInv, CapInv
    <2> QED BY <2>1, ToolLimitsConstants DEF UseInv, LimitTypes, CapInv, RunawaysStopped
  <1> QED BY <1>1, <1>2, UseStep, PTL DEF LimitSpec
(***************************************************************************)
(* The limits: the daily quota of a source.                                *)
(***************************************************************************)

(* While no two calls met at the quota, at most one is between reading and *)
(* writing it, with what it holds, and the counter is that of the day.     *)
QuotaInv ==
    /\ LimitTypes /\ quota.day <= today
    /\ mixed \/ /\ \A t, u \in Threads : thread[t].at = "spend" /\ thread[u].at = "spend" => t = u
                /\ \A t \in Threads : thread[t].at = "spend" =>
                     quota.day = today /\ thread[t].used = quota.used /\ quota.used < Quota
                /\ quota.day # today => spent = 0
    /\ QuotaExact

LEMMA QuotaStep == QuotaInv /\ UseInv' /\ [LimitNext]_limitVars => QuotaInv'
  <1> SUFFICES ASSUME QuotaInv, UseInv', [LimitNext]_limitVars
               PROVE  QuotaInv'
    OBVIOUS
  <1> USE ToolLimitsConstants
  <1>1. /\ LimitTypes' /\ LimitTypes /\ quota.day <= today
        /\ quota \in [day : Nat, used : Nat] /\ today \in Nat /\ spent \in Nat
        /\ thread \in [Threads -> LaneType]
    BY DEF UseInv, QuotaInv, LimitTypes
  <1>2. ASSUME UNCHANGED <<quota, today, spent, mixed>>,
               \A t \in Threads : thread'[t].at = "spend" => thread'[t] = thread[t]
        PROVE  QuotaInv'
    BY <1>1, <1>2 DEF QuotaInv, QuotaExact
  <1>3. ASSUME NEW t \in Threads, Count(t) \/ Remember(t) \/ Scan(t)
        PROVE  QuotaInv'
    <2>1. UNCHANGED <<quota, today, spent, mixed>>
      BY <1>3 DEF Count, Remember, Scan
    <2>2. \A u \in Threads : u # t => thread'[u] = thread[u]
      BY <1>1, <1>3 DEF Count, Remember, Scan, Go
    <2>3. thread'[t].at # "spend" \/ thread'[t] = thread[t]
      <3>1. thread[t] \in LaneType
        BY <1>1
      <3>2. CASE Count(t)
        <4>1. PICK a \in Arguments : thread' = thread
                 \/ thread' = [thread EXCEPT ![t] = [Away EXCEPT !.at = "append", !.arg = a]]
          BY <3>2 DEF Count
        <4>2. [Away EXCEPT !.at = "append", !.arg = a].at = "append"
          BY DEF Away
        <4> QED BY <1>1, <4>1, <4>2
      <3>3. CASE Remember(t)
        <4>1. thread'[t].at = "scan"
          BY <1>1, <3>1, <3>3 DEF Remember, Go, LaneType
        <4> QED BY <4>1
      <3>4. CASE Scan(t)
        <4>1. [thread[t] EXCEPT !.at = "quota"].at = "quota" /\ Away.at = "none"
          BY <3>1 DEF LaneType, Away
        <4>2. thread'[t] = Away \/ thread'[t] = [thread[t] EXCEPT !.at = "quota"]
          BY <1>1, <3>4 DEF Scan, Go
        <4> QED BY <4>1, <4>2
      <3> QED BY <1>3, <3>2, <3>3, <3>4
    <2> QED BY <1>2, <2>1, <2>2, <2>3
  <1>4. ASSUME NEW t \in Threads, ReadQuota(t) PROVE QuotaInv'
    <2>1. /\ quota' = (IF quota.day = today THEN quota ELSE [day |-> today, used |-> 0])
          /\ UNCHANGED <<today, spent>>
          /\ mixed' = (mixed \/ \E u \in Threads : thread[u].at = "spend")
      BY <1>4 DEF ReadQuota
    <2>2. PICK limit \in {Quota, PoorQuota} :
             thread' = IF quota'.used >= limit THEN [thread EXCEPT ![t] = Away]
                       ELSE [thread EXCEPT ![t].at = "spend", ![t].used = quota'.used]
      BY <1>4 DEF ReadQuota
    <2>3. quota'.day = today /\ quota'.used \in Nat /\ limit \in Nat /\ limit <= Quota
      BY <1>1, <2>1
    <2>4. CASE mixed'
      BY <1>1, <2>1, <2>3, <2>4 DEF QuotaInv, QuotaExact
    <2>5. CASE ~ mixed'
      <3>1. ~ mixed /\ \A u \in Threads : thread[u].at # "spend"
        BY <2>1, <2>5
      <3>2. quota'.used = spent /\ spent <= Quota
        BY <1>1, <2>1, <3>1 DEF QuotaInv, QuotaExact
      <3>3. ASSUME NEW u \in Threads, thread'[u].at = "spend"
            PROVE  u = t /\ thread'[u].used = quota'.used /\ quota'.used < Quota
        <4>1. u = t
          BY <1>1, <2>2, <3>1, <3>3
        <4>2. ~ (quota'.used >= limit)
          <5>1. Away.at # "spend"
            BY DEF Away
          <5> QED BY <1>1, <2>2, <3>3, <4>1, <5>1
        <4>3. thread[t] \in LaneType
          BY <1>1
        <4>4. thread' = [thread EXCEPT ![t].at = "spend", ![t].used = quota'.used]
          BY <2>2, <4>2
        <4>5. thread'[t].used = quota'.used
          BY <1>1, <4>3, <4>4 DEF LaneType
        <4> QED BY <2>3, <4>1, <4>2, <4>5
      <3> QED BY <1>1, <2>1, <2>3, <3>2, <3>3 DEF QuotaInv, QuotaExact
    <2> QED BY <2>4, <2>5
  <1>5. ASSUME NEW t \in Threads, SpendQuota(t) PROVE QuotaInv'
    <2>1. /\ thread[t].at = "spend" /\ thread' = [thread EXCEPT ![t] = Away]
          /\ quota' = [quota EXCEPT !.used = thread[t].used + 1]
          /\ spent' = spent + 1 /\ UNCHANGED <<today, mixed>>
      BY <1>5 DEF SpendQuota
    <2>2. /\ quota'.day = quota.day /\ quota'.used = thread[t].used + 1
          /\ thread'[t].at = "none" /\ \A u \in Threads : u # t => thread'[u] = thread[u]
      BY <1>1, <2>1 DEF Away
    <2>3. CASE mixed
      BY <1>1, <2>1, <2>2, <2>3 DEF QuotaInv, QuotaExact
    <2>4. CASE ~ mixed
      <3>1. \A u \in Threads : thread'[u].at # "spend"
        BY <2>1, <2>2, <2>4 DEF QuotaInv
      <3>2. quota.day = today /\ thread[t].used = quota.used /\ quota.used = spent /\ quota.used < Quota
        BY <2>1, <2>4 DEF QuotaInv, QuotaExact
      <3>3. quota'.used = spent' /\ spent' <= Quota /\ quota'.day = today'
        BY <1>1, <2>1, <2>2, <3>2
      <3> QED BY <1>1, <2>1, <3>1, <3>2, <3>3 DEF QuotaInv, QuotaExact
    <2> QED BY <2>3, <2>4
  <1>6. CASE Midnight
    <2>1. /\ today' = today + 1 /\ spent' = 0 /\ UNCHANGED <<quota, thread>>
          /\ mixed' = \E t \in Threads : thread[t].at = "spend"
      BY <1>6 DEF Midnight
    <2>2. quota'.day <= today' /\ quota'.day # today' /\ spent' <= Quota
      BY <1>1, <2>1
    <2>3. mixed' \/ \A t \in Threads : thread'[t].at # "spend"
      BY <2>1
    <2> QED BY <1>1, <2>1, <2>2, <2>3 DEF QuotaInv, QuotaExact
  <1>7. CASE UNCHANGED limitVars
    BY <1>2, <1>7 DEF limitVars
  <1> QED BY <1>3, <1>4, <1>5, <1>6, <1>7 DEF LimitNext

(* The source's counter is the number of its calls of the day, and stays   *)
(* within the quota, unless two calls met there or one saw midnight; the   *)
(* exception ends at the next midnight no call sees.                       *)
THEOREM QuotaIsExact == LimitSpec => []QuotaExact
  <1>1. LimitInit => UseInv /\ QuotaInv
    <2>1. LimitInit => UseInv
      BY UseStarts
    <2>2. LimitInit => \A t \in Threads : thread[t].at = "none"
      BY DEF LimitInit, Away
    <2> QED BY <2>1, <2>2, ToolLimitsConstants DEF UseInv, LimitInit, QuotaInv, QuotaExact
  <1>2. QuotaInv => QuotaExact
    BY DEF QuotaInv
  <1>3. UseInv /\ QuotaInv /\ [LimitNext]_limitVars => UseInv' /\ QuotaInv'
    BY UseStep, QuotaStep
  <1> QED BY <1>1, <1>2, <1>3, PTL DEF LimitSpec
===============================================================================
