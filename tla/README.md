# A verification project for the Q-Silicon investment agent

The repository is an investment-research agent. A daily job lets language-model
crews write a report in two tracks (crypto, AI and US equities), validates it,
sends it to Telegram and as Web Push, and records its recommendations; a FastAPI
server and a React front end show the report, let a human approve trade
proposals, simulate the approved ones on paper, and watch price alerts.

The text of a report comes from a language model and cannot be verified. What can
is the control around it: which report is sent, what is recorded, what must be
reviewed before it is stored, what a paper trade rests on, which report the schema
and the gates let through and what is repaired on the way, and whether the small
stores that several threads and processes share without locks keep what they
promise. These modules are about that. All paths below are relative to `src/`.

## 1. Inventory

| component | state | operations | what makes it hard | what makes it correct |
|---|---|---|---|---|
| Report pipeline and job (`main.py`) | current report, last validation, last error, budget, scratchpad run | kickoff of two crews, 503 retries, fallback model, validation, final decision; then record, send, push, metrics | three nested retry loops that share variables; a wall-clock budget; any step may raise, a report's file included | what is recorded and sent is what the gate let through; retries are counted and end; the log tells the truth |
| Research graph (`graph/`) | LangGraph state: proposed trades, issues, revision count, reviewed trades | fourteen nodes, three routers | two loops under one recursion limit; a state merged from partial updates; a reviewer that fails | only reviewed trades are stored; the loops are bounded |
| Execution intents (`execution_intents.py`, `paper_execution.py`) | append-only JSONL log | append by the graph, POST, PATCH, paper tick | no lock; a tick fetches a quote per intent between reading and appending | a settled trade rests on an approval with the same prices; a single settlement per approval |
| Tracker (`tracker.py`, `state_store.py`) | recommendations (file or BigQuery) | save, daily check, previous block | re-runs of a day, missed days, a check over midnight, partial inserts, failed reads, torn rewrites | one open position per asset and day, results are kept and mean what they say |
| Price alerts (`price_alerts.py`, its router, the tick workflow) | JSONL file | add, delete, sweep | whole-file load and save from several threads; a quote per alert in between; a tick that works on a checkout | nothing is lost, an alert notifies once |
| War-room stream (`war_room_stream.py`, `api.py`) | two bounded queues, a version, a generator per connection | bump, emit, drain, rate limit, snapshot | destructive drains by several clients, a rate limit after the drain, writers outside the server | each event has one fate; a client never takes itself to be up to date when it is not |
| Run-crew trigger (`api_routers/run_crew.py`) | lock, job state | start, background job, status | a request lands between the lock and the job; jobs beside the schedule | one triggered job at a time, the status is of the running job, the lock comes back |
| Web Push store (`web_push_store.py`) | subscriptions, hits per address | subscribe, trim, rate limit | two back ends, a counter whose expiry is set by another call | the limit holds and ends; what was acknowledged is stored or made room for newer ones |
| Tool guard, cache, quotas (`scratchpad.py`, `tools_cache_http.py`, `tools_legacy.py`) | counters, history, cache | count, check, get, put, consume | two crew threads share what is not locked; thirty tools with fall-backs of their own | limits hold per run; a tool that has no data says so and asked all its sources |
| Portfolio (`portfolio_holdings.py`) | JSONL file or table | add, change, delete, import | whole-file load and save; imports row by row | the store is what the answered requests made it |
| Intraday monitor (`monitor_intraday.py`) | a log in BigQuery | check, send, log | check, send and log are apart; fails open; cancelled jobs | one alert per window |
| Telegram sender (`telegram_sender.py`) | chunk, attempt, mode | send, retry, plain text | lost answers to delivered messages | no chunk is skipped |
| Signal weights (`signal_weights_store.py`) | active file and backup | write, roll back | truncating copies, a job that dies | the last good weights survive |
| Schemas and assembly (`schemas.py`, `report_render.py`) | the brief | parse, some thirty repairs, rules | a repair may undo another or take away what a rule counts; services that answer in part | what was repaired holds in the end; a refusal is the writer's fault |
| Gates (`report_html_gates.py`) | the report, the issues | sixty checks, feedback, retries | relaxations by profile, watch, partial news, switches; checks that hide checks | what passes is usable; a writer that obeys passes in time |
| SSE tokens, quote caches, adaptive thresholds | small dictionaries | mint, verify, get, put | little | see `PROJECT.json` |
| Crews and prompts; judge and editor | none of their own | language-model calls, text to text | content | left to tests |
| BigQuery writers, read models, back-test, options, read-only routers, dashboard, PWA, deployment | none, or external | queries, inserts | external services | left to tests |

How they interact. The scheduled job (or `POST /run-crew`, as a subprocess) runs
the pipeline, which runs the graph once per category inside a crew kickoff. The
graph's last node appends intents to the execution-intent log, which the server,
the front end's reviewers and the paper worker (in the server and as a scheduled
script) share. After the pipeline the job writes the tracker, which later jobs
read for their prompt, and the report files, which the API serves. Graph nodes and
price-alert sweeps also put events on the server's in-memory queues.

## 2. The modules

| module | models | theorems in |
|---|---|---|
| `IntentLedger` | what the execution-intent store promises its readers (abstract) | |
| `ExecutionIntents` | the log, POST, PATCH in two halves, the paper tick intent by intent | `ExecutionIntents_proofs` |
| `ReportPipeline` | a run of `run_pipeline_with_retries` and of `__main__` | `ReportPipeline_proofs` |
| `ResearchGraph` | one category of the LangGraph workflow | `ResearchGraph_proofs` |
| `Tracker` | saves and checks over days, on both back ends | `Tracker_proofs` |
| `PriceAlerts` | the alert file, its users and sweeps | `PriceAlerts_proofs` |
| `EventDelivery` | what the war-room stream promises about one event (abstract) | |
| `WarRoomStream` | queues, version, and each connection's generator | `WarRoomStream_proofs` |
| `RunCrew` | the trigger's lock and state, its runs and the scheduled one, the file of positions they share | `Services_proofs` |
| `WebPush` | requests, rate limit and store on both back ends | `Services_proofs` |
| `Portfolio` | crossing changes of the holdings on both back ends | `Services_proofs` |
| `TelegramSender` | one call of `_send_telegram_report` | `Services_proofs` |
| `IntradayMonitor` | jobs that ask, send and log | `Services_proofs` |
| `SignalWeights` | the two files, a writer that may die | `Services_proofs` |
| `ToolSources` | for each tool its sources, and what it answers and keeps of each (data, no actions) | |
| `ToolCalls` | calls of a tool by both crews through the shared cache | `Services_proofs` |
| `ToolLimits` | call cap, streak and daily quota under two threads | `Services_proofs` |
| `ReportGates` | `validate_report` over a report's parts, the feedback and the retries | `Reports_proofs` |
| `BriefSchema` | what may be answered, what the schema makes of it, the business rules (no actions) | |
| `BriefAssembly` | `assemble_daily_brief_report`, repair by repair | `Reports_proofs` |

Each `MC*` module gives the constants small values. Operators named
`X_Mutant_<mistake>` stand next to the operator `X` they get wrong in a plausible
way; they are not part of the specification, and `PROJECT.json` says which run
rejects which.

### ExecutionIntents

`log` is the file. A reader takes the whole file and works on that copy; since
rows are never changed, the copy is a prefix, so a PATCH request (`patch`) and a
tick (`tick`) keep the length they read. `PatchRead` is
`patch_execution_intent_status` up to its early returns, `PatchAppend` its merge
and append, `TickStart` the scan at the head of `run_paper_execution_tick`,
`TickSkip` and `TickSettle` one turn of its loop (the quote is any price),
`PatchLost` and `TickLost` a killed process. `AppendIntents` is the research
graph's append, whose ids are derived from category, asset, direction and rank and
therefore recur. `IsLatest` is "last line per id wins".

The refinement: the status of the last row per id, with the ids ever approved,
implements `IntentLedger`. The ledger is deliberately weak where the code is: a
worker may settle an intent that is no longer approved, because the tick decides
from a snapshot. That is the finding below, and `SettledFromApproval` is what holds
instead: whatever interleaves, a settled row goes back to an approval with the same
prices. The log is one file: the ticks on the server's are the endpoint's, and the script's
when it is started there by hand. The scheduled workflow runs the script on the log of
its own checkout, which is another instance of the module and not a second actor of
this one.

### ReportPipeline

`pc` is the place in `run_pipeline_with_retries` and then in `__main__`; `attempt`,
`step`, `lastErr`, `final`, `checked`, `passed`, `retries` are its locals, with a
report reduced to the number of the kickoff that produced it and a validation to
the report it is of, whether it blocks, and how many warnings it has.
`_run_pipeline_once` is `Outcomes` and `KickoffTime`: two crews of any duration,
the second awaited after the first. The clock advances with kickoffs and back-offs,
and `BudgetOK` asks it where the code does. A kickoff that
worked writes its report to the file of the date the writer gave it (`Accept`), or
fails to and goes on (`unwritten`). `Validate` only sets `passed`; the quality agent and
the decision follow in `Judge`, so that an exception in between (`Abort`) finds the
variables as the code's `finally` finds them. `result` is the validation the job gets,
which is none after an abort. `effects` collects what the job did with which report.
The variable `structural_validation_err` is logged only and left out.

### ResearchGraph

`node` is the node that runs next; a step is a super-step of the executor, `Goto`
the recursion limit. The picker answers with any trades, the reviewer with any
verdict of its schema, a bare `passed=False` and an error included. `round` and
`verdicts` record what the picker and the reviewer said, for the properties. The
nodes that only enrich the data are steps without a choice.

### Tracker

`store` holds the rows. On the file back end a save or check is one rewrite, which a
kill may leave torn (any part of the rows), and a save whose read failed takes the store
to be empty; both are counted in `faults`. On BigQuery a save is a DELETE
(`DeleteOpen`) and an insert that may refuse rows (`InsertRows`), and each closing is
an UPDATE that may fail. A check is two steps: `ScanOpen` takes its rows by the date it
reads first (in BigQuery the date in UTC, which may be the day before), and
`ClosePositions`, after the closes were fetched, counts the days held by the date it
reads then; `NextDay`, the calendar, may come in between. `PreviousRecs` is the choice
`load_previous_recs_block` makes, `PreviousBlock` what the rendering leaves of it: rows
with a known placeholder for an entry, or a move beyond belief for their age, are
`Omitted`. A re-run after a position closed keeps the closed
row and adds a new one of that asset; the code documents the former, so
`OneOpenPerAsset` speaks of open positions.

### PriceAlerts

`file` maps the listed ids to whether `triggered_at` is set. Every change is a load
(`AddLoad`, `DeleteLoad`, `MarkLoad`) and a save of the whole file (`AddSave`,
`DeleteSave`, `MarkSave`) by a process of its own. A sweep (`SweepStart`, then per alert
`Quote`, mark, `Notify`) is the API's check or the scheduled tick. The tick works on
`checkout`, a fresh copy of the repository's file (`Committed`) whose marks nobody
commits; so it neither sees the server's alerts nor remembers its own. `Dies` is a kill
anywhere. `raced` says that some save overwrote a file it had not seen, `overlapped`
that two sweeps of the server ran together: the guarantees are stated for the runs in
which they did not. Without that condition two overlapping sweeps send an alert twice,
and of an alert in the repository's copy every tick notifies anew.

### WarRoomStream and EventDelivery

`queue` is the pair of bounded deques, `version` the counter of bumps, `client` the
locals of each connection's `event_gen`, `log` the mtime of the intent log.
`Following`, `Holding`, `Fingerprinted`, `Snapshot` and `Rest` are the stretches of a
turn between two awaits. `EmitEvent` appends and drops the oldest of a full queue;
a bump may come later than the change it tells of (`unbumped`). `WriteLog` may be of
another process, which bumps nothing. Only alerts are emitted: graph nodes run in
`main.py`'s process, whose queues no connection drains, although
`docs/DASHBOARD_CONTRACT.md:152` and `war_room_stream.py:1` speak of them.
`AlertsDelivered` is a refinement: the fate of each alert implements
`EventDelivery`, an event handed to at most one connection, shown there or lost,
and never coming back.

### The services

`RunCrew`: `PostRun` takes the lock and creates a task, `TaskStarts` sets the state a
turn of the event loop later; in between the answer to a second request names the
job before. `RunStep` is `main.py` as far as it touches the file of positions: it
loads it, closes some and replaces it. `ScheduledRun` knows nothing of the lock and
a subprocess outlives a restarted server, which is where `overlap` comes from.

`WebPush`: `Incr` and `Expire` are two calls, and only who reads 1 sets the expiry; a
call that fails may have been carried out (`RedisFails`), and a restart may come between
the two (`Reboot`). `Portfolio`: as `PriceAlerts` in the file; on BigQuery one statement
per row (`TakeUp`, then `ChangeRow`, or an `InsertRow` each), each followed by a
query that reads the row back: when either fails (`RequestFails`) the answer is an error
and the row may be there (`doubtful`).
`TelegramSender`: an attempt that raised may have been delivered. `IntradayMonitor`:
one job at a time, cancelled anywhere. `SignalWeights`: each copy truncates first.

`ToolSources` gives each tool a chain of steps; a step says which outcomes of its
source end the call, which of these are cached and which carry no marker.
`ToolCalls` runs them against `_CACHE`. The sets `Stubborn`, `Hasty` and `Silent` name
the tools that do not keep a part of `GapsExplained`: that is how the code is, and any
other tool that came to behave so would break the property. A source that fails, is out
of quota or is skipped as degraded is the one outcome `error`. `ToolLimits` is
`_tool_guard_check` and `_consume_source_quota`, read and written apart.

### ReportGates

A report is a record of what the checks can tell apart in its text (`Sound[p]` is
what the templates of profile `p` print of a complete answer); a draft is the parts
in which the writer's answer differs, at most two at first. Every check is an
operator that returns pairs of a check and the part at fault. `FirstDraft` chooses,
`Redraft` puts right what `GateFeedback` named: the most obedient writer. What a
regular expression finds in the rendered text is modelled as it is, with its
accidents: any regime's name anywhere in the text is a regime (`NamesRegime`), an
unpriced trade is found only behind a bullet and a bare symbol, as a writer's own line
may have (`bulleted`) and the templates' bold one has not, and the AI dashboard only
under a heading without its icon (`ai_block1`).

### BriefSchema and BriefAssembly

`Written(d)` is the answer of both desks, sound but for the parts in `d`; a text is the
set of the things in it that some step looks for, a dashboard the sequence of the kinds
of its rows. `Accepted` and `Parsed` are the validators of `schemas.py`, `RuleIssues`
its business rules (`_structured_business_issues`) with the three phases behind their
switches. Where a rule measures a text that a repair rewrites, the model keeps its
length: of a reason (`ReasonLength`: body, regime's name, cited sum) and of the thesis
(`ThesisLength`). `Softened` takes leaning phrases out of two texts and puts in what the
code puts in, the names of regimes included. `BriefAssembly` has one action per group of
repairs between two calls of a service, in the order of `assemble_daily_brief_report`:
`Align`, `Dashboard` (asks for averages), `Clean`, `AnchorIndex` (the index),
`SizePositions`, `BackfillPrices` (quotes), `RepeatHeaders` and `RepeatDisclaimer`
(yesterday's picks, twice), `Build` (prediction markets, the notice, the rules) and
`Render` (the alignment of the regime in the text). `answered` records which service
answered about what. One row per asset is listed, so the rule against two rows in
opposite directions is not exercised.

## 3. The runs

| run | instance | shows |
|---|---|---|
| `intents` | one LONG pipeline intent, one SHORT manual one, one PATCH, two ticks, 4 rows | what a settled row rests on, its prices, refinement of the ledger |
| `intents_one_tick` | two pipeline intents, one tick, 5 rows | one settlement per approval; every standing approval is scanned if ticks keep coming |
| `pipeline` | three attempts of three kickoffs, crews of 1 to 3 units against a time-out of 2, deadline 17, two dates a report may bear, writes that fail, exceptions after the verdict | gate, record, serve, log and retry count; the job ends |
| `research_graph` | two picks of four names, two research rounds, all switches | review, boundedness; the run ends |
| `tracker` | four days, a window of two, three rows, three names of two assets, checks over midnight, one fault of the file | positions, results, and what is shown of them |
| `price_alerts` | two alerts, one of them committed, a user, two API sweeps, a tick on its checkout | no loss, single notification |
| `war_room` | two browsers, a queue of three drained by two, three changes or four alerts, one event a second | order, single receiver, snapshots; refinement of `EventDelivery` |
| `services` | the ten parts below, each by itself | fifteen invariants, and the lock that comes back |
| `intents_stale_settle`, `pipeline_unvalidated`, `graph_degraded`, `tracker_overdue` | as the run of the same module | a sentence of the documents that the code does not keep |

`services` puts ten modules that share no state side by side: the initial state
picks one, and only that one moves, so its states are the sum and not the product.
The instances: two positions, three runs of the job and a restart; two browsers and
three requests on either back end, limit and store of one, time beyond a window and
a key's life; two crossing changes and two ids; two chunks; four hours against a
silence of one; three calls of every tool by two crews; four guarded calls and a
quota of two over midnight; three versions; three drafts for each profile with the
default switches and with all; a brief whose answer and settings differ from the
usual in at most two of some 170 values.

Why the bounds suffice. Every guard compares positions, sets or distances, not
magnitudes: four prices separate stop, entry, target and "between"; a window of two days
has a day before, on and after its edge; two alerts separate "this" and "the other" in a
whole-file save; four rows allow approval, settlement, review and a second settlement;
two ticks (the endpoint's and the script started by hand beside it), and a PATCH beside
them, are all the pairs of actors there are. A queue of three that is emitted to four
times overflows once, and a drain of two leaves one behind; two connections are the two
that can compete for an event. The reviewer's two rounds, the two research rounds, the
three drafts, the four attempts of the sender and the five quality rows are the code's
own constants. The deadline of 17 lets some schedules finish and cuts others off. One
fault of the tracker's file is enough to ask what the rest of the days make of it, and a
check that fetches closes runs over at most one midnight. `price_alerts` stops at a race
(`Unraced`) because its properties say nothing after one; `war_room` takes four changes
only if all are alerts (`FourAlertsOnly`). Browsers and API sweeps are alike, and the
two runs use that symmetry. In the gates and the assembly two deviations are what it
takes for one to hide, cause or undo another; three at once are not tried. The proofs
below drop the bounds for what they cover.

Deadlock is checked in all runs but `pipeline`, `research_graph` and `services`
(and the violations of the first two), where the job, the graph and the bounded
scenarios come to their end. Every passing run visits its whole state
space within these bounds.

What the properties of `services` say, where the sentence is longer than their name:
`GapsExplained`: a tool that says it has no data has just now asked or had to skip each
of its sources, and its answer carries the marker; the tools for which this is not so
are listed in the module. `LimitKept`: an address is refused for good only if the
request that created its counter could not set the expiry. `HoldingsAsAnswered` leaves
out the rows of requests that were answered with an error. `RunawaysStopped`: the cap
counts both crews' calls, and no thread runs one call three times in a row.
`DeliverableIsWhole`: whatever is relaxed, a report without a blocking issue has
recommendations that can be parsed, its profile's trade blocks, its news or a
declaration, every critical source and no tool's name in the text.
`ObedientWriterDelivers`: two retries are enough for a writer that puts right what it is
told, in each profile, with the default switches and with all, but for the one check of
the dashboard's numbers that no full report passes (below). `RepairsHold`: the built
brief has the scorecard's regime, and so have the rows, the budget and the eight texts
aligned at the start; once rendered, every text has; no US position exceeds the single
or the combined cap, a trade card and the line above it agree, and what a service
answered was used. `RefusalsAreTheWriters`: a refused brief has an issue that the answer
had, but for what four repairs cause: generic calendar lines taken out leave fewer than
three under `STRICT_INSTITUTIONAL_PHASE_C_GATE`; a rounded sum that becomes the
dashboard's makes the thesis too long; and a reason becomes too short when its label is
taken off, `risk_off` makes way for a shorter word, or a sum loses its digits.

### What the code does otherwise than its documents say

1. `intents_stale_settle`: an intent rejected while a tick fetches quotes is settled
   all the same (`paper_execution.py:162`).
2. `pipeline_unvalidated`: after a transient error and then a good kickoff, the
   fallback still runs; when it fails, a report that was never validated is returned
   as valid and sent (`main.py:1016`).
3. `graph_degraded`: a run that exhausted its reviews shows the rejected trades in
   the report (`graph/graph_nodes.py:1134`).
4. `tracker_overdue`: a position not closed on its thirtieth day is never looked at
   again (`tracker.py:773`).

Seen on the way and not turned into runs.

- Pipeline: a run that passes with a few warnings returns as valid and is logged with
  a failed gate (`main.py:1168`, `bigquery_writer.py:819`); a run that the quality agent
  aborts after a clean validation is logged with a passed one (`main.py:1037`, `1063`,
  `1168`), so `RunEndTruthful` leaves aborted runs out of that sentence; a report whose
  file could not be written is sent all the same (`main.py:239`); the file is named by
  the date the writer gave the report (`main.py:225`), the link in the push by today's
  (`main.py:150`); the AI section may take
  twice the crew time-out, since the two are awaited one after the other
  (`main.py:771`); each repeated kickoff appends its proposals again.
- Graph: `passed=False` without issues counts as a pass (`graph/graph_crew.py:53`).
- Intents: the scheduled tick works on a checkout whose log is neither the server's nor
  committed (`scripts/commit_state.sh:4-5`), and the endpoint's is off by default
  (`api.py:558`), so an approval may wait for ever: `ApprovalsScanned` promises something
  only while ticks keep coming; a filled intent is never closed, because the tick looks
  only for approved ones; a recurring pipeline id makes an old intent pending again.
- Tracker: a read of the file that fails is an empty store to the save that follows,
  which writes the whole file anew (`state_store.py:55-57`, `tracker.py:725-729`), and a
  malformed line is dropped for good; the query's `CURRENT_DATE()` is the day in UTC and
  the days held are counted by `date.today()` after the closes were fetched
  (`tracker.py:772`, `808`), so a position may expire a day late.
- Alerts: two overlapping sweeps notify Telegram twice (`price_alerts.py:123`). The
  scheduled tick's marks die with its checkout, so of an alert in the repository's copy
  each tick notifies anew, though `push-digest-tick.yml:4` and `price_alerts.py:106` say
  that marking prevents it; the file is ignored by git (`.gitignore:47`), so as it stands
  there is none.
- Stream: node events of the subprocess reach no client; triggers of the scheduled
  tick neither; a change of a gate-failure file or the scratchpad is not in the
  fingerprint (`api.py:426`); with a poll under a second and a small limit, alerts
  can starve the snapshot.
- Web Push: an INCR whose answer is lost, a failed EXPIRE or a restart between the two
  leaves a counter without end, and the address is refused for ever
  (`web_push_store.py:128-135`); a failed HSET is answered with `stored: True`; a
  broadcast takes the first fifty and removes no dead subscription; a failed connection is
  remembered for the life of the process.
- Monitor: the sender swallows failures, so an alert nobody got silences eight hours;
  a silence of half an hour is truncated to none.
- Weights: `rollback_weights` does not look into the backup it restores.
- Portfolio: a failed query after an INSERT or UPDATE is answered 500 with the row stored
  (`portfolio_holdings.py:290-294`, `311-315`), and a client that tries again adds a second.
- Tools: several cache a gap for ten minutes or answer without the marker
  (`Stubborn`, `Silent`), against `docs/CRITICAL_ENV_POLICY.md:23`; the quota is only in
  memory; the cache evicts by expiry, not by use.
- Gates: with `STRICT_INVESTMENT_DASHBOARD_NUMERIC_GATE=1` (`ENV_TEMPLATE.txt:188`) every
  full report is blocked, since the check looks for a heading
  (`report_html_gates.py:616`) that the template prints with an icon
  (`templates/blocks/_ai_section.j2:11`); `ObedientWriterDelivers` excepts that one check.
  The watch conflict, the unpriced trade and the empty invalidation look for colons,
  bullets and words the templates do not print (`validation_rules.py:121`), so an
  unpriced trade of the templates passes; the S&P level and pair-trade gates
  match no blocking prefix; a brief of the partial tier cannot pass the schema, which
  wants three news per desk (`schemas.py:1620`). `adaptive_gate_thresholds.py:7` says
  its bump relaxes repeated picks, and it raises the gap they need.
- Assembly: repairs that alone cause a refusal: `risk_off` renamed `neutral` makes a reason
  of 34 letters one of 33 (`report_render.py:317`, `327`), and `$84,000` made `$84,012.34`
  lengthens a thesis beyond 95 (`report_render.py:757-766`, `schemas.py:1701`); the
  softening of texts under neutral writes `risk_on` into two of them
  (`report_render.py:1283-1287`), which only the last pass over the rendered text takes
  out again; only the AI desk's legs are repaired, so a card and its machine-readable
  row may show different prices; the BTC position is filled and never capped; a single
  US position may take 5% under risk_off though the combined cap is 4%; a target is
  derived only if the stop lacks too; without a scorecard the regime of the text is
  left as it is; a row of a group may stand under another group's title; a declared
  repeat is taken off when the first query for yesterday's picks fails, and the gate's
  own query may succeed; `BRIEF_DYNAMIC_RENDER` with a reordered layout prints the trade
  blocks twice.

## 4. Fairness

- `ExecutionIntents`: weak fairness of a tick that has begun: it is one loop, and every
  quote request has a time-out. None of starting one (the endpoint is off by default, and
  the workflow works on a log of its own), and none for reviewers and requests.
  `ApprovalsScanned` is therefore conditional: if ticks keep being started on this log
  (`TicksKeepComing`), each standing approval is taken up by a scan. Killed ticks are steps
  of the model, so it does not promise that an approval settles.
- `ReportPipeline` and `ResearchGraph`: weak fairness of the next step of one
  sequential program; a kickoff ends because the executor joins its threads and every
  model call has a time-out. The choice among the steps is not fair.
- `RunCrew` (in `services`): weak fairness of the background task, which the event
  loop runs when it is ready, and of each run of `main.py`, which ends by its own
  wall-clock budget. Nobody has to ask for a run.
- All others: none, and no liveness is claimed.

## 5. The proofs

The theorems are of the form `Spec => []P`, `Spec => [][A]_v` or
`Spec => Abstract!Spec`, for every value of the constants that satisfies the
module's named assumption. Where a property is not inductive, the proof module
defines the invariant that is (`...Inv`, `Scan...`, `Control` and the like) and
proves it action by action. TLC has checked these invariants on the runs'
instances as well, with their quantifiers over numbers and events bounded.

| theorem | argument |
|---|---|
| `TypeCorrect` | inductive as it stands, with the lemma that a decision has the shape of a row's price and status |
| `LogIsAppendOnly` | every action appends or leaves the log alone (`StepGrows`) |
| `SettledRestsOnApproval` | needs `ScanApproved`: what a tick still has to do was approved in the prefix it read. The prefix never changes (`PrefixStable`), so the approval is still there when the tick appends |
| `PricesAreSimulated` | a step adds a fresh intent, a merged row or a settlement (`AddedRows`); a merged row has the prices of a row before it, a settlement those it simulates |
| `ApprovalSettledOnce` | assumes `OneTicker`: there is one tick at a time, which the endpoint's lock gives within a server, the workflow's ticks being on another log. `ScanFresh`: what the tick has still to do has not been settled since the approval it read, because only that tick could have |
| `LedgerImplemented` | the status of an id is that of its last row, which exists by the least-number principle; a step changes it for the ids it adds a row of, as the ledger's step does |
| `RetriesAreCounted` | strengthened by where in the loops a kickoff has not been paid for by a retry yet |
| `OnlyCleanIsRecorded` | the effect carries the report, so what matters is that nothing touches the report and its validation from `record` on, and that a clean validation is of the final report when it is made and of none later |
| `SentIsOnDisk`, `StrictGateHolds`, `RunLogIsTruthful` | one invariant `DeliveryInv`: what kind of report is at hand (`Kinds`), that the last report made is on disk unless its own write failed (`OnDisk`), what was decided about it (`Decided`), an abort included, and which channels have had their turn at each place (`InTurn`) |
| `StepsAreBounded` | a measure: super-steps so far are at most what depth, revision and node allow |
| `StoredIntentsWereReviewed` | per node, what the reviewed trades are and which verdicts their round may have |
| `StoredIntentsAreLastPick` | the lists between picker and store carry the round, and the market gate keeps rounds and normalizes names; the gate is a recursive function (`Gating`) about which two lemmas are proved by the least-number principle |
| `OpenOnce` | pending rows differ from each other and from the open rows of their day |
| `ResultsAreKept` | a save keeps what is not open, a check replaces only open rows, a rewrite is whole and on top of all that was there unless it is counted as a fault |
| `TrackerTyped` | with `Control`, what the job's locals are at each of its places, and `SoundInv` |
| `ResultsMeanGains` | `SoundInv`: every row, of the store or of an insert under way, is sound, and a step that closes one compared the price with that row's own stop and target; the days held follow from the date of the scan being today or the day before (`Control`) |
| `PreviousIsComplete` | of the properties alone: the choice prefers an open row, at most one is open per asset and day, and the rendering leaves out none but those its closes rule out |
| `AlertsAreNotLost`, `TriggeredStays`, `AlertsNotifyOnce` | one inductive invariant: a save that did not race wrote on top of what it loaded (`UnracedSave`), and in the absence of overlaps an alert has been notified only if it is marked or gone and no sweep of the server will look at it again; a tick looks at committed alerts only (`Mine`), which the last theorem leaves out |
| `SnapshotsAreCurrent` | `SeenInv`: a connection's fingerprint was taken of the log as it is or was before, and its snapshot not before that fingerprint |
| `QueuesAreRight` | one invariant over each lane: what was shown, is in a hand and is queued follow each other in that order, and what is missing is older than the queue |
| `AlertsAreDelivered` | from the same invariant, the fate of every single event before and after each step (`FateRight`, `BothRight`) |
| `StatusIsTruthful`, `ClosedPositionsStay` | `CrewInv`: the lock is held exactly while a task is on its way (`LockInv`), the runs of one server and, unless overlapped, all runs are apart (`ApartInv`), and what a run has loaded holds no closed position (`RowsInv`) |
| `LimitIsKept` | in memory the hits are the last of the requests let through and none left out counts (`Rest`, about the recursive function `Pruning`); in Redis the counter covers what was granted, and one without an end is about to get it or was recorded as one that could not |
| `AckIsKept` | an acknowledged subscription is in memory or as many newer ones are (`MemoryInv`); every request under way has a stamp of its own, later than the one its browser is stored under (`StampInv`) |
| `HoldingsAreAsAnswered` | `TableInv` (ids are given out once, imports do not share any, rows under way agree with the table, but for the doubtful ones) or `FileInv` (a request that has not been crossed holds the file as it is) |
| `ChunksAreAccounted`, `SilenceIsKept`, `WeightsAreKept` | per place of the program, what it has done so far for the chunk, the event, the version at hand |
| `GapsAreExplained` | a lemma (`ChainsFit`) about each of the thirty chains of sources: its last step ends the call whatever the outcome (asked, failed or skipped), and it keeps and silences gaps only if listed; an answer on its way to the cache, and the entry there, inherit it |
| `RunawaysAreStopped` | `CapInv`: the calls that ran and the threads that are past the counter together are no more than were counted under the cap (cardinalities of `Pending`); `RowInv`: the history ends with as many equal calls as a thread made in a row, so the walk back (`StreakIsLong`) finds them |
| `QuotaIsExact` | while no two calls have met, at most one is between reading and writing, and it holds what the counter is |
| `DeliverableReportsAreWhole` | the issues are those of the draft at hand; a check that a report fails names a part (`FailureIsNamed`), so a report without blocking issues meets what `Structure` and `Readings` ask |
| `ObedientWritersDeliver` | assumes that there are two retries or more, as `MAX_REPORT_RETRIES` gives by default. Every issue that blocks a draft comes with one, perhaps another, that names a part in which the draft is wrong (`BlockedByTheDraft`); so each retry takes a part out of the draft or there is nothing left to mend (`MendingInv`: after n drafts at most 3 - n parts are wrong) |
| `RepairsAreKept` | `BriefInv`: for each place in the assembly, which conjuncts of `RepairsHold` the repairs before it have established (`RegimeAgrees` from `Align` on, `TextsAgree` by `Render`, `CapsKept` from `SizePositions` on, `NoBleed` from `Clean` on, `SummaryAgrees` from `Build` on) and that every answer a service gave so far is used. A lemma per repair says which fields it changes (`But`, `SameWords`), and so that it undoes none of these; the rounding of `Scaled` costs a hundredth at the most |
| `RefusalsAreOwn` | `Keeps`, a part of `BriefInv`: what the repairs leave of the parsed answer (bodies, news, directions, stars, scenarios) or only improve (texts, chances). A rule reads nothing else but the calendar, the thesis and the reasons; the repairs of these that shorten or lengthen are the exceptions, and a lemma per repair says how far each may go; that the calendar keeps its specific lines is proved along `Scrubbing` (`ScrubbedTo`) |

The market gate, the pruning of hits, the calendar's lines and the report of a draft are
written as recursive functions or plain functions and not with `SelectSeq` or folds:
those are opaque to the prover. Where one is left (`RowDirection`, `CollapsedRows`,
`CountMissing`), no property asks for its value. What a recursive function computes is
proved with the set of numbers for which it holds, which contains every number by the
least-number principle (`LeastOf`, from the well-foundedness of `<`).

`Reports_proofs` treats the answers of the two desks field by field: `Deviates` says
that each slip is one of the listed ones and not how many there are, so its invariant
and the lemmas about the repairs do not rest on there being two. `Written`, `Sound` and
`Wrong` are enumerations all the same, and the theorems speak of the values in them.

Only model-checked:

- liveness (`ApprovalsScanned`, `JobEnds`, `GraphEnds`, `LockGivenBack`): it needs
  fairness and ENABLED, which the prover does not do;
- the violations, which are counterexamples.

`AppendOnly` and `RetriesCounted` are proved; the first needs no run, the second is a
part of `RunEndTruthful`.

## 6. Not modelled

The content of reports, prompts and tool results beyond what a check or a repair
looks for; the wording and layout of messages; what a source's reply is parsed into;
the health scores that order sources (any order); BigQuery beyond success, failure
and partial inserts; authentication and the stream's tokens; read-only queries. Of
the assembly: the earnings radar, the round table, the dynamic layout
(`BRIEF_DYNAMIC_RENDER`) and the repairs of the rendered text other than the regime's.
The two desks' language models and the editor, judge and quality agents are any
answer. The back-test, the options analysis and the learning scripts are numerical
code over histories. Appends of JSONL lines are atomic: a torn line makes the whole
file unreadable, which is listed as a hazard without a property. `Tracker` itself has
one job at a time; overlapping jobs are in `RunCrew`.

## 7. Plan

1. The type invariants of the remaining modules as theorems of their own, out of the
   `...Types` conjuncts that the proofs carry already.
2. A shared store module for the load, change and save of a whole file, with
   `PriceAlerts` and `Portfolio` as its instances.
3. Composition of `BriefAssembly` with `ReportGates`: a brief that is built passes the
   checks its repairs are for.
4. Three deviations at once in the first draft and in the answers, as a run of its own.
