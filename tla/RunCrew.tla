------------------------------ MODULE RunCrew ------------------------------
(***************************************************************************)
(* POST /api/run-crew and GET /api/run-crew/status (run_crew.py): one      *)
(* asyncio lock, one state dictionary, a background coroutine that runs    *)
(* main.py as a subprocess; beside it, the scheduled run of main.py, which *)
(* knows nothing of the lock.  Of main.py only what two runs share is      *)
(* kept: the file of positions, which tracker.py loads, changes and        *)
(* replaces.                                                               *)
(***************************************************************************)
EXTENDS Integers

CONSTANTS Positions, \* recommendations that are open at the start
          MaxJobs,   \* bounds, for model checking
          MaxStarts

ASSUME RunCrewConstants == MaxJobs \in Nat /\ MaxStarts \in Nat

Jobs  == 1..MaxJobs   \* runs of main.py, in the order they are asked for
NoJob == 0

VARIABLES lock,   \* _crew_run_lock
          crew,   \* _crew_run_state
          task,   \* the background coroutine: its job and where it is
          job,    \* [Jobs -> what the run of main.py does]
          rows,   \* [Jobs -> the open positions a run has loaded]
          open,   \* the open positions in the file
          \* what happened so far
          asked,  \* runs asked for
          mine,   \* those this server was asked for
          starts, \* times the server was started
          last,   \* how the last run of this server ended
          told,   \* who was answered "already in progress" with which job
          closed, overlap

runVars == <<lock, crew, task, job, rows, open, asked, mine, starts, last, told, closed, overlap>>

NoTask == [job |-> NoJob, at |-> "none"]
FreshState  == [status |-> "idle", job |-> NoJob, started |-> FALSE, finished |-> FALSE]

Alive(j) == job[j] \in {"running", "loaded"}

RunInit ==
    /\ lock = FALSE /\ crew = FreshState /\ task = NoTask
    /\ job = [j \in Jobs |-> "none"] /\ rows = [j \in Jobs |-> {}]
    /\ open = Positions
    /\ asked = 0 /\ mine = {} /\ starts = 1 /\ last = "none"
    /\ told = {} /\ closed = {} /\ overlap = FALSE

(***************************************************************************)
(* The server's event loop: each action is what runs between two awaits.   *)
(***************************************************************************)

(* Starts a run whether or not the lock is taken. *)
PostRun_Mutant_Unlocked ==
    /\ asked < MaxJobs
    /\ asked' = asked + 1 /\ mine' = mine \union {asked'}
    /\ lock' = TRUE
    /\ crew' = [crew EXCEPT !.started = TRUE, !.finished = FALSE]
    /\ task' = [job |-> asked', at |-> "created"]
    /\ UNCHANGED <<job, rows, open, starts, last, told, closed, overlap>>

(* The lock is free: taking it does not suspend, so nothing comes between  *)
(* the question and the answer.  The task starts on a later turn.          *)
PostRun ==
    /\ ~ lock /\ asked < MaxJobs
    /\ asked' = asked + 1 /\ mine' = mine \union {asked'}
    /\ lock' = TRUE
    /\ crew' = [crew EXCEPT !.started = TRUE, !.finished = FALSE]
    /\ task' = [job |-> asked', at |-> "created"]
    /\ UNCHANGED <<job, rows, open, starts, last, told, closed, overlap>>

PostBusy ==
    /\ lock
    /\ told' = {[answer |-> crew.job, running |-> task.job, at |-> task.at]}
    /\ UNCHANGED <<lock, crew, task, job, rows, open, asked, mine, starts, last, closed, overlap>>

TaskStarts ==
    /\ task.at = "created"
    /\ crew' = [crew EXCEPT !.status = "running", !.job = task.job]
    /\ task' = [task EXCEPT !.at = "spawn"]
    /\ UNCHANGED <<lock, job, rows, open, asked, mine, starts, last, told, closed, overlap>>

Begin(j) ==
    /\ job' = [job EXCEPT ![j] = "running"]
    /\ overlap' = (overlap \/ \E k \in Jobs : Alive(k))

Spawn ==
    /\ task.at = "spawn"
    /\ task' = [task EXCEPT !.at = "wait"]
    /\ Begin(task.job)
    /\ UNCHANGED <<lock, crew, rows, open, asked, mine, starts, last, told, closed>>

(* The end of the coroutine: the outcome, then finally the time and the    *)
(* lock, with no await in between.                                         *)
Finish(outcome) ==
    /\ crew' = [crew EXCEPT !.status = outcome, !.finished = TRUE]
    /\ last' = outcome
    /\ lock' = FALSE
    /\ task' = NoTask

(* The lock is given back on the good path only. *)
SpawnFails_Mutant_KeepsLock ==
    /\ task.at = "spawn"
    /\ crew' = [crew EXCEPT !.status = "error", !.finished = TRUE]
    /\ last' = "error" /\ task' = NoTask
    /\ UNCHANGED <<lock, job, rows, open, asked, mine, starts, told, closed, overlap>>

SpawnFails ==
    /\ task.at = "spawn"
    /\ Finish("error")
    /\ UNCHANGED <<job, rows, open, asked, mine, starts, told, closed, overlap>>

(* Does not look at the exit code. *)
TaskEnds_Mutant_AlwaysDone ==
    /\ task.at = "wait" /\ ~ Alive(task.job)
    /\ crew' = [crew EXCEPT !.status = "done", !.finished = TRUE]
    /\ last' = IF job[task.job] = "ok" THEN "done" ELSE "error"
    /\ lock' = FALSE /\ task' = NoTask
    /\ UNCHANGED <<job, rows, open, asked, mine, starts, told, closed, overlap>>

(* communicate() has returned.                                             *)
TaskEnds ==
    /\ task.at = "wait" /\ ~ Alive(task.job)
    /\ Finish(IF job[task.job] = "ok" THEN "done" ELSE "error")
    /\ UNCHANGED <<job, rows, open, asked, mine, starts, told, closed, overlap>>

(* The server is started anew; a subprocess may survive it.                *)
ServerRestarts ==
    /\ starts < MaxStarts
    /\ starts' = starts + 1
    /\ lock' = FALSE /\ crew' = FreshState /\ task' = NoTask /\ last' = "none"
    /\ mine' = {} /\ told' = {}
    /\ \/ UNCHANGED <<job, rows>>
       \/ /\ task.at = "wait" /\ Alive(task.job)
          /\ job' = [job EXCEPT ![task.job] = "failed"]
          /\ rows' = [rows EXCEPT ![task.job] = {}]
    /\ UNCHANGED <<open, asked, closed, overlap>>

(***************************************************************************)
(* Runs of main.py.                                                        *)
(***************************************************************************)
ScheduledRun ==
    /\ asked < MaxJobs
    /\ asked' = asked + 1
    /\ Begin(asked')
    /\ UNCHANGED <<lock, crew, task, rows, open, mine, starts, last, told, closed>>

(* all_rows = _load_recs(), then a batch of price requests.                *)
LoadPositions(j) ==
    /\ job[j] = "running"
    /\ job' = [job EXCEPT ![j] = "loaded"]
    /\ rows' = [rows EXCEPT ![j] = open]
    /\ UNCHANGED <<lock, crew, task, open, asked, mine, starts, last, told, closed, overlap>>

(* _replace_recs(all_rows), if anything was closed.                        *)
ClosePositions(j) ==
    /\ job[j] = "loaded"
    /\ \E hit \in SUBSET rows[j] :
          /\ open' = IF hit = {} THEN open ELSE rows[j] \ hit
          /\ closed' = closed \union hit
    /\ job' = [job EXCEPT ![j] = "ok"]
    /\ rows' = [rows EXCEPT ![j] = {}]
    /\ UNCHANGED <<lock, crew, task, asked, mine, starts, last, told, overlap>>

(* Raises, or is killed.                                                   *)
RunFails(j) ==
    /\ Alive(j)
    /\ job' = [job EXCEPT ![j] = "failed"]
    /\ rows' = [rows EXCEPT ![j] = {}]
    /\ UNCHANGED <<lock, crew, task, open, asked, mine, starts, last, told, closed, overlap>>

RunStep(j) == LoadPositions(j) \/ ClosePositions(j) \/ RunFails(j)

TaskStep == TaskStarts \/ Spawn \/ SpawnFails \/ TaskEnds

RunNext == \/ PostRun \/ PostBusy \/ TaskStep \/ ServerRestarts \/ ScheduledRun
           \/ \E j \in Jobs : RunStep(j)

(* The event loop runs what is ready, and a run of main.py ends: its own   *)
(* wall-clock budget sees to that.  Nobody has to ask for a run.           *)
RunFairness == WF_runVars(TaskStep) /\ \A j \in Jobs : WF_runVars(RunStep(j))

RunSpec == RunInit /\ [][RunNext]_runVars /\ RunFairness

(***************************************************************************)
(* Properties.                                                             *)
(***************************************************************************)
RunTypeOK ==
    /\ lock \in BOOLEAN
    /\ crew \in [status : {"idle", "running", "done", "error"}, job : Jobs \union {NoJob},
                  started : BOOLEAN, finished : BOOLEAN]
    /\ task \in [job : Jobs \union {NoJob}, at : {"none", "created", "spawn", "wait"}]
    /\ job \in [Jobs -> {"none", "running", "loaded", "ok", "failed"}]
    /\ rows \in [Jobs -> SUBSET Positions]
    /\ open \subseteq Positions /\ closed \subseteq Positions
    /\ lock <=> task # NoTask

(* Whoever is refused is told the job that runs; a request in the turn     *)
(* between the one that took the lock and the task it created is told the  *)
(* job before.                                                             *)
ToldRunningJob == \A t \in told : t.at # "created" => t.answer = t.running

(* The status a client polls: while the lock is held it is the running     *)
(* job's, except for that turn; while it is free, it is how the last run   *)
(* ended.                                                                  *)
StatusTruthful ==
    /\ ToldRunningJob
    /\ IF lock THEN task.at = "created" \/ (crew.status = "running" /\ crew.job = task.job)
               ELSE crew.status = IF last = "none" THEN "idle" ELSE last

(* The runs one server was asked for never overlap each other.             *)
TriggeredApart == \A j, k \in mine : Alive(j) /\ Alive(k) => j = k

(* A position closed by one run stays closed, as long as runs do not       *)
(* overlap: the lock keeps triggered runs of one server apart, and nothing *)
(* keeps them apart from the scheduled one or from one that outlived its   *)
(* server.                                                                 *)
ClosedStays == TriggeredApart /\ (~ overlap => open \intersect closed = {})

(* A refusal is temporary: the lock is given back, also when the           *)
(* subprocess could not be started or failed.                              *)
LockGivenBack == lock ~> ~ lock
=============================================================================
