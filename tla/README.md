# Verification of MoIP_checker

TLA+ models of MoIP_checker (phase 1), TLC runs that check them on small
instances, and proofs checked by TLAPS. The models are translated from the
Python and shell sources; where the code and a comment or docstring of the
repository disagree, a run shows it (see "Findings").

Line numbers refer to the files named; `ptp_log_reader.py`, `db_writer.py`,
`config_store.py` and `system_monitor.py` are in `frontend/services/`, `ptp.py`,
`config.py` and `system.py` in `frontend/routers/`.

## 1. Inventory

MoIP_checker is a small appliance with two containers. `moip-ptp` runs
linuxptp's `ptp4l` as a PTP slave and appends its output to a log file.
`moip-frontend` is one FastAPI process: it tails that log, decides whether the
clock is locked, keeps a measurement and an event log in SQLite, and serves the
pages and the API that change settings and restart things. The containers share
`config/` (`config.json`, `ptp4l.conf`) and `logs/`; the frontend also reaches
the Docker socket, `/etc/netplan` and `reboot(2)`.

| Component | State it keeps | Operations | Correct when |
|---|---|---|---|
| PTP log reader (`ptp_log_reader.py`) | `_state`, the samples of the second and of the minute, last Sync, the frequency-error and threshold flags, the settings cached in `_cfg` | parse a line of ptp4l, tick per second, tick per minute, `reload_config`, `run` | locked only on a qualifying second; alarms neither missed nor invented; events match the status; each sample in one row |
| Database writer and log API (`db_writer.py`, `models/ptp_log.py`, `GET`/`DELETE /api/ptp/log`) | the job queue, the thread, two tables | put a measurement, an event, a clear; take and commit; read | jobs are atomic and in order; a confirmed clear is final; reads are not torn; nobody waits for ever |
| PTP configuration (`config_store.py`, `POST /api/ptp/config`, `/api/config/import`) | `config.json`, `ptp4l.conf` | save, render, reload, schedule a restart | a save is all or nothing; when all is quiet, everybody goes by `config.json` |
| PTP container (`ptp/entrypoint.sh`, `docker-compose.yml`) | the `ptp4l.conf` ptp4l was started with | check, copy the built-in file, launch | a rendered file is never lost; the newest one ends up running |
| System control (`system.py`) | background tasks of the answers | restart, reboot, shutdown, NICs, IP addresses | what an answer announces is attempted |
| Netplan rewriting (`system.py:107-188`) | files in `/etc/netplan`, the file that disables cloud-init | strip definitions from other files, write the own one | an answered request is the only source for its NICs, for good; what others have is kept |
| System monitor (`system_monitor.py`) | log ring of 500, last traffic counters | append, read the last n, compute rates | what is shown is the end of what was logged; all rates together count the traffic once |
| Process lifecycle (`main.py`) | the reader task | lifespan start, the end of the process | the loops run, and run again after a restart; only real changes are reported, also from lines read again |
| Web pages (`static/*.js`) | form fields | load, save, poll | what is shown is what the server has; what is saved is what was meant |

**How they interact.** Everything in the frontend except the writer thread and
the background tasks runs on one event loop. The reader's handlers also hold one
asyncio lock, but the API's handlers do not: `reload_config` is called from them
directly, between two reader steps and never inside one, since no reader step
awaits while it works. Jobs go to the writer through a `queue.Queue`. `DELETE
/api/ptp/log` is an `async def` that waits on a `threading.Event`, so it holds
the event loop, and with it the reader and every other request, for up to five
seconds. Restarts run after the answer, in one thread per request, one task of
the request after another; they end the process (`os._exit`), the container or
the host. Docker starts both containers again (`restart: unless-stopped`).

**What is hard.** (1) Long sequences of ticks, lines and reloads that several
flags and counters must survive consistently. (2) A loop that is resumed late,
and time compared across a reload. (3) Settings that an import leaves
incomplete or mistyped, which raise in the middle of a step. (4) A queue between
two threads whose consumer may fail or die, and a caller that gives up waiting.
(5) Overlapping changes and restarts in two containers, with the process ending
between any two of their steps. (6) A reader without memory that is shown the end
of the log again after each restart. (7) Several files, each emptied before it is
written, that must agree after a crash or a boot at any point. `PROJECT.json` lists these as hazards, line by
line, with the property that covers each, or why none does yet.

## 2. Modules

| Module | Models | Its state and actions in the code |
|---|---|---|
| `OffsetStats` | the average (floored), maximum and minimum of samples | `_tick_second` 126-134, `_tick_minute` 181-190 |
| `SampleLedger` | abstract: each sample is counted in exactly one row, in order | what `_second_samples`/`_minute_samples` promise |
| `PtpLogReader` | the log reader | one variable per module global of `ptp_log_reader.py`; actions `ParseOffset`, `ParseBestMaster` (`_parse_line`), `tick_second`, `tick_minute`, `reload_config`; `Second` is the passing of time |
| `LogStore` | abstract: a FIFO of jobs that take effect atomically | what `db_writer.py` promises |
| `DbWriter` | the queue, the writer thread, `GET` and `DELETE /api/ptp/log`, crashes | `Take`, `Commit`, `Fail`, `Signal`, `Die` (`_writer_loop`, `_process`); `start`, `enqueue`, `clear_logs`, `ClearDone`, `ClearTimeout`, `ReadMeasurements`, `ReadEvents` |
| `Settings` | the handlers that change settings, `config_store.py`, background tasks, `entrypoint.sh` | a handler is at `free`, `saved` or `rendered`; each request in a slot of `todo`/`phase`; the container is `checking`, `copying`, `launching` or `running` |
| `AtomicConfig` | abstract: a request changes one section of `config.json` at once, or nothing | what `config_store.py` promises |
| `ConfigStore` | `config.json` and its temporary file, access by access | `update_section` (which loads and opens), `DumpTmp`, `Replace` (`save_config`), `SaveRaises`; `Abandon` is the end of the process |
| `Frontend` | extends `ConfigStore` with the process from start to end: `lifespan`, `run()`, the tail process, ptp4l's log, a dashboard on the SSE stream | `AskSave`, `Save`; `lifespan`, `Exit`; `StartTail`, `TailEnds`, `Parse` (`_tail_loop`); `connectPtpStream`, `stream_ptp_status`; `Write` is ptp4l |
| `Netplan` | `_write_netplan` file access by file access, cloud-init and netplan at boot | `step` is what the handler does next; `OpenCloud`/`_disable_cloud_init_networking`, `NothingToRemove`/`LeaveFile`/`OpenFile`/`RewriteFile`/`RewriteFails` (the loop), `OpenOwn`/`WriteOwn`, `Raises`; `NetplanDown`, `NetplanUp`, `HostBoots` |
| `SystemMonitor` | `_log_buffer` and `_prev_counters` | `emit`, `get_recent_logs`, `get_nic_status`; `Carry`, `Unplug`, `Plug` are the NICs |
| `SystemApi` | `routers/system.py` around the two: composes `Netplan` and `SystemMonitor` | `post_config`, `netplan_step`, `netplan_failure` (which also logs), `other_failure`, `get_system_status`, `down` (which also forgets), `up` |
| `NicForm` | the NIC selects of the settings page | `loadAvailableNics`, `loadSystemConfig`, `Choose`, `save_nics`, `Hotplug` |
| `MCPtpLogReader`, `MCSettings`, `MCSystemApi`, `MCNicForm` | constants of the runs | |
| `OffsetStatsProofs`, `PtpLogReaderProofs`, `DbWriterProofs`, `SettingsProofs`, `FrontendProofs`, `SystemApiProofs`, `NicFormProofs` | theorems and proofs | |

`PtpLogReader` refines `SampleLedger` (pending samples are the minute's list
followed by the second's), and `DbWriter` refines `LogStore` (the jobs to do are
the one in hand, until it is committed or given up, followed by the queue).
`ConfigStore` refines `AtomicConfig` in every context that `Frontend` makes of it
(the request's data is pending until the file is replaced).
`Frontend` keeps of `PtpLogReader` only what a restart can confuse, the
grandmaster and its event, and has the lines of the log themselves.

Some definitions are preceded by a *variant*, a form of them with a plausible
mistake. No specification uses a variant: they are there to show that the
property named beside them in `PROJECT.json` notices the mistake.

### Choices of abstraction

*PtpLogReader.* A line is what its regular expression captures. Time is counted
in whole seconds; a loop that sleeps n seconds runs its handler between n and
n + `Lateness` seconds later. `2 ** sync_interval` is rounded down to 0 for
negative exponents, which makes no difference to a comparison of whole seconds
with that value plus three. `_cfg` keeps the four keys the ticks evaluate, in the
order in which `reload_config` assigns and the tick evaluates them, because a
missing key (KeyError) or a mistyped one (TypeError) stops the step there and
what was done before it stays. `last_updated` and wording are left out. `jobs`
is what the last step put on the queue, so that a property can speak of events.
`overslept` is a history variable: one of the ticks that have carried on the present
run of misses came more than three seconds, the slack, after the tick before it,
which happens when the event loop has been held up, as DELETE does. A Sync line
that waits in the pipe meanwhile is parsed after the tick, so that such a tick
may count a miss although ptp4l was not silent.

*DbWriter.* Of a job's payload only its era is kept, the number of DELETEs
answered when it was put; it identifies the call of a clear and orders rows
relative to it. The commit of a job is one step (one SQLite transaction); the
two SELECTs of GET are two steps with the writer thread between them. While GET
reads or DELETE waits no handler runs, since both occupy the event loop.
A job that fails is given up and the thread goes on (`Fail`, `Signal`), but what
`rollback()`, `close()` or `SessionLocal()` raise is caught nowhere and ends the
thread for good: a failing rollback after the event has been set (`Fail` to
`dying`, `Signal` to `dead`), the others without it (`Die`). From then on jobs stay
on the queue until the process is started again.
`applied` and `confirmed` are history variables.

*Settings.* Three keys stand for all: one that is only rendered, one that only
the reader uses, one used by both; and the one NIC that is rendered. Handlers run
one at a time but are split where another thread, the container or the end of the
process can come between. Rendering and reloading raise when a key is missing, and
may raise for want of a file (one of the faults of the bound). An import without
a "ptp" key leaves that section as it is. The entrypoint's `cp` is one step: a
container killed in the middle of it would leave a part of the built-in file,
which every later check would keep. `lost` is a history variable: it is set when, since
the last change of PTP settings that was answered "ok", a step failed or a
process ended before its work was done. `promised` is set by an answer that says
"os_reboot" until the reboot is tried.

*ConfigStore.* Of the sections there are "ptp" and "system", each a value; an import
changes the first, a handler of the system page the second. A file that has been
opened to be written is `Torn` until it has all its data. The temporary file of
an earlier request is never read and forgotten. `Settings` has a save as one
step, which this refinement justifies. A save goes on between steps of the log
reader, although the event loop runs nothing else meanwhile: the two share
only the end of the process.

*Frontend.* A line is a grandmaster named as the best master, or any other line.
Of the status only `gm_id` is kept: every other field is wholly replaced by the
next line or tick, so that what was read before a restart leaves no trace.
`gm_id` is kept as the number of the line it is from, which tells equal ids of
different lines apart. Nothing in the repository rotates the log, so it only
grows. `Complete` is whether `reload_config` finds its keys in `config.json`; when
it does not, `run()` ends at its first statement and nobody awaits its exception.
`changes`, `last_read` and `gapless` are history variables. `changes` is a set of
pairs of lines: a change that tail repeats after a restart is put again, as a row
of its own in the log, and the model does not tell it from its first report.

*Netplan.* A file is a map from NIC to definition, and a definition is a value.
Opening a file to write it empties it, writing fills it at once; a file that is
cut between the two counts as empty. What a power cut takes from the page cache
is left out. An interface listed twice in a request has the later entry. The
process may end before every access, also for a reboot that an earlier request
has scheduled. At boot cloud-init writes its file as it was first, unless the
file that disables it is complete.

*SystemMonitor.* A record is a value; only WARNING and above reach the buffer. A
rate is kept as the bytes it counts, the division by the time since the sample
is left out. psutil makes counters grow across a NIC's absence unless it was
asked in between (its `nowrap`), which is how `total_bytes` starts again at 0.

*SystemApi.* No handler of `system.py` awaits, so none begins before the one at
work has ended; log records of other threads may come at any point of it.

*NicForm.* An answer of the server is used as soon as it is given. A select shows
the first option unless it is told otherwise, as HTML selects do.

## 3. Runs

| Run | Question | Result |
|---|---|---|
| `reader_alarms` | Do the lock, the offset alarm and the frequency error follow the samples, under ticks later than the slack, silence, and reloads? Is a steady clock shown as locked in the end, and does a steady Sync stream end the error? | pass |
| `reader_ledger` | With several samples a second and damaged settings: does each sample go into exactly one row, do the figures and the lock follow the samples, and do events match transitions? | pass |
| `reader_zero_stable` | Is "locked" the AND its comment says, for every `lock_stable_sec` the settings can hold? | violation |
| `writer_clear` | Puts, DELETEs, GETs, failures, timeouts and crashes in every order | pass |
| `writer_timeout` | Does DELETE wait for its clear, as its docstring says? | violation |
| `settings_quiet` | After overlapping changes, restarts and failures, does everybody go by `config.json` once all is quiet? | pass |
| `settings_entrypoint` | Is the built-in `ptp4l.conf` copied only when none has been rendered? | violation |
| `settings_reboot` | Is an answer that names a reboot followed by one? | violation |
| `frontend_life` | Restarts, an incomplete section, the end of tail, lines written meanwhile, a save cut at any access: is each grandmaster change reported, and nothing reported that was none (a true one may be reported again); do reader and page come back; is `config.json` ever torn? | pass |
| `system_api` | Crashes, failures and boots at any access of the netplan files; log and rates meanwhile | pass |
| `system_log` | Does `GET /api/system/log` answer the latest N entries, as its docstring says, for every N? | violation |
| `nic_form` | Does a configured NIC stay a choice while the host does not report it? | violation |

The properties, each stated in words above its definition:

- `SilenceFlaggedInTime`, `FreqErrorNeedsSilence`: a silence of ptp4l is flagged
  within the expected interval, three seconds of slack and three late ticks,
  provided a Sync has been seen since the process began (the age is unknown, and
  no alarm comes, otherwise); and the event is never put before the slack and
  three more seconds of silence, unless one of the ticks that counted was itself
  overslept. Both hold across reloads that change the expected interval in the
  middle.
- `EventsMatchTransitions`: the event log and the status never disagree, also
  when a bad setting stops the tick half-way.
- `LockedOnlyWhenQualified`, `LostOnlyWhenDisqualified`, `SteadyClockLocks`.
- `StatsCoverReading`: the figures shown together are of the same samples.
- `EverySampleRecordedOnce`: refinement of `SampleLedger`.
- `ClearedStaysCleared`: nothing put before a DELETE that was answered with its
  clear committed is in the tables or on its way to them, ever after.
- `ReadNotTorn`: GET does not report measurements that are gone by the time it
  reads the events. It holds because DELETE blocks the event loop; the variant
  that does not block is refused. If an earlier DELETE timed out the property
  is not promised, and does not hold.
- `WriterImplementsStore`, `ClearHandled`, `LoopFreed`.
- `QuietMeansSettled`: ptp4l runs with the `ptp4l.conf` there is, that file is
  rendered from `config.json` (or is the built-in one), and the reader's cache is
  that of `config.json`.
- `PtpCatchesUp`, `RestartingEnds`; and `FlagMeansRestart`: with any number of
  restarts under way the flag is set only while one of them is between setting it
  and taking it back. The converse does not hold (the first to end takes it
  back for all), and nothing in the repository relies on it.
- `EveryChangeHappened`: each GM_ID_CHANGED is about two best-master lines that
  follow one another in ptp4l's log and differ, although each restart reads the
  last lines again. `NoChangeMissed`: and each such change is put, also one that
  happened while the process was down, if the repeated lines reach back to
  the last best-master line read before.
- `SavesAreAtomic`: refinement of `AtomicConfig`; wherever an access fails or the
  process ends, a reader of `config.json` finds the file of before or after.
- `LinesReachStatus` (as long as tail goes on, all lines are read in the end; when
  it ends nothing starts it again, and only the alarm for missing Sync messages
  tells, and that only if this process has seen a Sync before), `ReaderComesBack` (a reader that ended for an incomplete section is
  started by the next restart with a complete one, but not by the repair itself),
  `DashboardFollows`.
- `AnsweredIsOnlySource`: after a request that was answered and has logged no
  failure, netplan merges for each of its NICs exactly what was asked, across
  later restarts and boots and whatever crashes before had left behind.
  The condition on failures is needed: one that is swallowed leaves a second
  definition although the answer says "ok".
- `UnnamedKept`: a NIC that no request has named keeps its definitions in every
  other file whose rewriting was not cut short. The condition is needed: a file is
  emptied before it is written again, and takes all its NICs with it.
- `AnswersAreNewest`: for a positive limit the answer is exactly the latest records,
  as many as asked for or as the buffer keeps. `LatestForEveryLimit` says the
  same of 0 as well, as the docstring does (violated, finding 6). Of negative
  limits nothing is stated: the docstring does not speak of them.
- `TrafficCountedOnce`: pages that ask in any order share one sample, and still
  their rates together count each byte once; of a NIC found away, never twice.
- `ConfiguredStaysChoice` (violated, finding 5).

### Bounds

- `reader_alarms`: two complete sections with different thresholds and Sync
  intervals, one offset that is within a threshold of each section and beyond the
  other, so that a reload alone can turn it; servo states locked and not, two
  grandmasters, one sample per second. Ticks are up to three seconds late, so
  that two of them can be four seconds apart, more than the slack: this is what
  `FreqErrorNeedsSilence` has to except. `MaxAge` 17: with the larger interval
  (1 s), slack 3 and three late ticks the bound of `SilenceFlaggedInTime` is 16,
  so an error flagged too late is still inside the range of the age. The counters
  saturate at 3, the misses that make an error and more than the stable
  seconds asked for; nothing in the code tells larger values apart.
  `LostOnlyWhenDisqualified` is checked here since a reload of a mistyped
  `lock_stable_sec`, as in `reader_ledger`, may stop the tick between count and
  lock, which is not what the property is about.
- `reader_ledger`: two samples per second and minutes of two seconds, so that a
  row counts samples of several seconds, the average lies between different
  extremes, the lock is judged by the last of several samples, and a minute tick
  can fall between sample and second tick; five sections, four of them
  incomplete or mistyped.
- `writer_clear`: a queue of 2, 3 rows, 3 DELETEs: a clear can wait behind a row,
  time out, and be overtaken by a second call with its own clear, and a third be
  confirmed. Failures and the death of the thread are not bounded.
- `settings_quiet`: 3 requests, 2 of which can have tasks running at once, and 1
  fault: enough for a restart of an old change to fall on any step of a new one
  with a failure besides. The patches change a rendered key, a read one and none;
  of the imports one is complete, the others lack what is rendered, what is read,
  or the section.
- `frontend_life`: a log of 4 lines of which tail repeats 2, two grandmasters: a
  change can be read, repeated whole or in half, happen during an absence, and
  be pushed out of the repeated lines. Of the "ptp" sections one is complete and
  one is not, so that a torn or wrongly changed file differs from both; saves and
  exits are not bounded.
- `system_api`: two NICs, cloud-init's file that defines both and another file that
  defines one of them, two requests: the second can meet what a crash of the first
  has left at any access, ask for the same NIC or the other. A ring of 2 and 3
  records, so that it drops one; one NIC and one byte at a time between askers,
  samples, absences and restarts.
- `system_log`: the constants of `system_api`; the limits go from 0 to one more than
  the size of the ring.
- `nic_form`: two NICs of which one may be absent, three selects.

Deadlock is not checked in the runs of `Settings`: when the requests of the
bound are used up and all is quiet, the model stops.

### Fairness

- `PtpLogReader`: weak fairness of time and of the two ticks: both loops are
  `while True` around an `asyncio.sleep`, and catch every exception. Nothing is
  assumed of ptp4l.
- `DbWriter`: weak fairness of the thread's steps (an infinite loop around
  `queue.get` that catches what a job raises; the steps that end the thread are
  not fair, and `ClearHandled` excepts a dead thread by name), of the end of `wait(timeout=5.0)` and
  of a handler that has begun to read. `start` is not fair: `run()` may end
  before it.
- `Settings`: weak fairness of a handler that has begun, of each background
  thread (Docker's client gives up after its timeout) and of the container's
  start. No request and no fault is fair.
- `Frontend`: weak fairness of `lifespan` (Docker's `restart: unless-stopped`), of
  the event loop's steps (`StartTail`, `Parse`, the stream's generator) and of the
  browser's EventSource, which connects again by itself (`dashboard.js:66`).
  Nothing is assumed of ptp4l, and neither an exit nor a request to save is fair; a save that has
  begun ends (`Save`).

### Findings

1. `reader_zero_stable`: with `lock_stable_sec` 0 the counter just reset to 0 is
   enough, and the clock is shown as locked in s0 and outside the threshold.
   `ptp_log_reader.py:145` compares with `>=`; the comment above says the two
   conditions are an AND. The settings page sends 0 for an empty field.
2. `writer_timeout`: `clear_logs` returns after five seconds whether or not the
   clear was done, and after a clear that failed; DELETE then answers "cleared".
   Its docstring says that it waits for the thread to finish.
3. `settings_entrypoint`: between the entrypoint's test for `ptp4l.conf` and its
   copy of the built-in file the frontend can render the file, which is then
   overwritten; ptp4l keeps the built-in settings over later restarts of the
   container, until the next change. The comment says the copy is made only
   if none has been generated.
4. `settings_reboot`: a request with NICs and IP addresses leaves two tasks, of
   which the first ends in `os._exit`; the reboot the answer lists never runs.
5. `nic_form`: `setSelectValueSafe` adds a configured NIC that the host does not
   report, as its comment says; opening the system tab then runs
   `loadAvailableNics`, which empties the select and fills it without that NIC. The
   select shows the first NIC of the list, which the next save stores.
6. `system_log`: `get_recent_logs` takes `[-limit:]`, and `[-0:]` is the whole list:
   `GET /api/system/log?limit=0` answers every record the buffer keeps
   (`system_monitor.py:44`). The docstring of the handler (`system.py:313`) says
   the latest N entries, and the handler takes any integer.

The six violated properties are about these lines only; the passing
properties are stated so that they hold with the code as it is: for instance
`ClearedStaysCleared` speaks of a DELETE whose clear was committed in time, and
`QuietMeansSettled` allows the built-in file.

## 4. Proofs

TLAPS proves the following for every value of the constants that satisfies the
assumptions of the modules (`ConstantsAssumption` in `PtpLogReader`,
`BoundsAssumption` and `NoneAssumption` in `DbWriter`, `SettingsAssumption` in
`Settings`, `ConfigAssumption`, `FrontendAssumption`, `NetplanAssumption`,
`MonitorAssumption`, and `RecordsAssumption` in `SystemApi`); the runs evaluate
these assumptions for their own constants. `SettingsAssumption` says that a
rendered file is never the built-in one: their first lines differ
(`config/ptp4l.conf.template:1`, `ptp/ptp4l.conf.template:1`). Bounds on queues,
requests and faults are constants, so the theorems hold for all of them.

| Theorem | Establishes | Further hypothesis |
|---|---|---|
| `PtpLogReaderProofs!Types` | `TypeOK` | |
| `PtpLogReaderProofs!LockIsQualified` | `LockedOnlyWhenQualified` | `StableSecondsAsked`: every `lock_stable_sec` is at least 1; finding 1 shows what happens without |
| `PtpLogReaderProofs!LossIsEarned` | `LostOnlyWhenDisqualified` | `SameStableSeconds(n)`: every section asks for the same stable seconds, and the model's counter goes that far; raising the number under a held lock does lose it |
| `PtpLogReaderProofs!SilenceIsFlagged` | `SilenceFlaggedInTime` | `WellTyped`: the settings are numbers |
| `PtpLogReaderProofs!FreqErrorIsEarned` | `FreqErrorNeedsSilence` | `WellTyped`; `AgesTold`: the model's age does not saturate too early |
| `PtpLogReaderProofs!EventsAreTransitions` | `EventsMatchTransitions` | |
| `OffsetStatsProofs!StatsAreBounds` | for every non-empty list: least <= floored average <= greatest, and every sample between | |
| `PtpLogReaderProofs!FiguresCoverReading` | `StatsCoverReading` | |
| `PtpLogReaderProofs!LedgerImplemented` | refinement of `SampleLedger` | |
| `DbWriterProofs!Types` | `TypeOK` | |
| `DbWriterProofs!StoreImplemented` | refinement of `LogStore` | |
| `DbWriterProofs!ClearIsFinal` | `ClearedStaysCleared` | |
| `DbWriterProofs!ReadsAreWhole` | `ReadNotTorn` | |
| `DbWriterProofs!AnsweredWhenDone` | `DeleteAnsweredWhenDone` | `ClearsInTime`: no DELETE times out and no clear of a waiting one fails; finding 2 shows what happens without |
| `SettingsProofs!Types` | `TypeOK` | |
| `SettingsProofs!Settled` | `QuietMeansSettled` | |
| `SettingsProofs!FlagIsEarned` | `FlagMeansRestart` | |
| `SettingsProofs!DefaultIsForTheUnrendered` | `DefaultNeverReplacesRendered` | `NoRenderWhileCopying`: no handler renders between the entrypoint's test and its copy; finding 3 |
| `SettingsProofs!ExitForgetsReboot` | a promised reboot disappears from the tasks untried only in a step that ends the process; finding 4 | |
| `FrontendProofs!Types` | `TypeOK` | |
| `FrontendProofs!ChangesHappened` | `EveryChangeHappened` | |
| `FrontendProofs!SavesImplementAtomic` | refinement of `AtomicConfig` | |
| `FrontendProofs!NothingMissed` | `NoChangeMissed` | |
| `SystemApiProofs!Types` | `TypeOK` | |
| `SystemApiProofs!OnlySource` | `AnsweredIsOnlySource` | |
| `SystemApiProofs!UnnamedStays` | `UnnamedKept` | |
| `SystemApiProofs!NewestAnswered` | `AnswersAreNewest` | |
| `SystemApiProofs!TrafficIsCountedOnce` | `TrafficCountedOnce` | |
| `NicFormProofs!ChoiceLostByRefillOnly` | `ConfiguredStaysChoice` | the host lists NICs in some order; `RefilledWhenListed`: the tab is opened only while every configured NIC is reported; finding 5 |

`FreqErrorIsEarned` bounds the lateness of the loop by nothing: however long it is held
up, a false alarm needs a tick that was overslept by more than the slack, and
`overslept` names it.

**What causes the findings.** A violated run shows one way to break what the
repository says. The theorems with a finding in the last column show that there
is no other: each states the violated property of every behaviour that leaves
out the cause the finding names, and nothing else. `LockIsQualified` does it for
finding 1 (a setting of 0), `AnsweredWhenDone` for 2 (the timeout, a clear that
fails), `DefaultIsForTheUnrendered` for 3 (a render inside the window) and
`ChoiceLostByRefillOnly` for 5 (filling again); for 6 it is `NewestAnswered`, whose
limits are those of the violated property without 0. For finding 4 the property is a
liveness one; `ExitForgetsReboot` states its safety part without a hypothesis.

**The inductive invariants.**

- `FiguresInv` (`PtpLogReader`): `StatsCoverReading` speaks of the second that has
  been aggregated; while samples are waiting, the next tick makes it true again
  because the current offset is the last of them. That the figures cover the
  samples is `StatsAreBounds`. Its sum is a fold, a recursive function over sets
  of places, and its extremes are chosen from a set: instead of an induction
  theorem, which would need an operator as a parameter, the proofs take a
  smallest set on which the claim fails (`SmallestSubset`; strict inclusion of
  finite sets is well-founded) and contradict it.
- `DoneInv` (`DbWriter`): the thread signals for the waiting DELETE only when its
  clear is committed. It rests on `ClearInv`, which says that the clear in hand is
  never that of a DELETE yet to come.
- `CopyInv` (`Settings`): while the entrypoint is about to copy there is no file.

- `SilenceCounted` bounds the age of the last Sync by the misses counted so far:
  slack, plus one late tick for each miss and for the tick to come.
  `SilenceFlaggedInTime` alone is not inductive, since it does not say how much
  of the delay has been used. `MissesEarned` is its converse: a miss is only
  counted after a second of silence, unless a Sync came since the last tick or a
  tick of the run was overslept.
- `ClearInv` (`DbWriter`): `confirmed` speaks of the past, so the invariant
  follows the clear of the DELETE that waits. While it waits nothing can be put
  behind its clear (`CallersClearLast`); hence when that clear is committed
  nothing is left in the tables or on the queue (`NothingLeft`), and what is put
  after the answer has a later era. `ClearedStaysCleared` itself does not say
  why the step that raises `confirmed` is safe. The same invariant gives
  `ReadNotTorn`: while GET reads no DELETE waits, so a clear on the queue would be
  older than `confirmed`, and there is none; then the tables only grow
  (`SeenStays`).
- `LockIsHeld`: while the clock is shown as locked the count has not fallen below
  the stable seconds asked for, since a tick that stores a new count also judges
  the lock by it (`JudgedByCount`); a lost lock then means a count begun anew.
- `SettledInv` (`Settings`): `Fresh` and `ReaderFresh` say that the file and the
  cache follow `config.json` except for what the handler at work has yet to do,
  and `OldRunsOnlyUntilRestart` that ptp4l runs with another file than the one
  there is only while a restart is on its way (`RestartComes`: asked for by the
  handler or not yet performed by a task). `RenderedFresh` is needed because a
  handler may find `lost` set and take it back when it answers.
- `GmLineRead` (`Frontend`): the line `gm_id` is from is the last best-master line
  among those this tail has delivered. Then a change that is put is between that
  line and the next such one, which is what `EveryChangeHappened` asks; the
  property says nothing of the next change. `ReadUpTo` adds that from `gapless` to
  the last best-master line read no reading has left a line out, so that a
  restart whose first line is at or before it misses nothing.
- `SourceInv` (`Netplan`): while a request is at work, cloud-init has been off
  since it wrote the disabling file (`CloudStaysOff`), the files the loop has
  passed are silent about the request's NICs unless one was left (`PassedSilent`),
  and so is the one being rewritten, both as it is and as it will be. At the end of
  the loop all files are silent, and `AnsweredHolds` follows; a boot keeps it
  because cloud-init is off.
- `KeptInv`: what has been read of the file being rewritten still has, for NICs
  never named, what the file said at first (the file itself is empty just then).
- `LogInv`: the ring is the last min(n, size) of the n records logged, entry by
  entry; `AnswersAreNewest` follows for every positive limit.
- `RateInv`: counted plus pending is carried as long as no request found the NIC
  away, at most carried afterwards; a NIC without a sample has neither.
- The refinements need only `TypeOK`, and two of them facts about sequences.

**Model-checked only.** All liveness (`SteadyClockLocks`,
`SyncStreamClearsError`, `ClearHandled`, `LoopFreed`, `RestartingEnds`,
`PtpCatchesUp`, `LinesReachStatus`, `ReaderComesBack`, `DashboardFollows`): liveness
under fairness is out of the prover's reach. Every other property of a passing
run has a theorem.

To run: `tlc -config ReaderAlarms.cfg MCPtpLogReader.tla` and so on as listed in
`PROJECT.json` (`Frontend` is its own model); `tlapm PtpLogReaderProofs.tla`.
`reader_alarms`, `reader_ledger`, `settings_quiet`, `frontend_life` and `system_api`
take up to about two minutes with two workers, the others a few seconds.

## 5. What is not modelled

- ptp4l itself, Docker, SQLite, Starlette's background tasks: external; modelled
  by what the code in the repository uses of them (ptp4l reads its file once; a
  commit is atomic; tasks of one answer run in order in a thread).
- `stop()` of the writer: it has no caller.
- CPU, memory, link state, addresses and the NIC list (read from the operating
  system at each request, no state), `disable_ntp_client` (it keeps no state and logs its
  records), formatting, logging, templates, styles, and `node/`, which is a
  placeholder for phase 2.
- The PTP form, the IP panes and the polling of the pages: they show what they were
  last given and send all of it; the last save wins, and nothing in the repository
  promises otherwise.
- Rotation of the log: `tail -F` would follow it, but nothing in the repository
  rotates the file.
- The DNS and NTP of the host, and netplan's own syntax: a definition is a value.
- What a power cut takes from the page cache: the code never calls fsync, so any
  file could be cut, and no property of the files would hold.

## 6. Plan

Done: all modules above with their proofs. Left:

1. The PTP form of the settings page (conversion of rates to log2 intervals, two
   pages loaded earlier), if a property can be stated that the repository
   promises.
2. The same refinement for `render_ptp4l_conf`, which replaces `ptp4l.conf` as
   `save_config` does `config.json` (`Settings` has it as one step).
