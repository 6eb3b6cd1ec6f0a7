# engine_computer in TLA+

TLA+ models of the engine test stand computer: the program that takes commands
from operators over TCP, drives sixteen valves and an igniter through two
LabJacks, samples the sensors, reports to every client and writes a CSV file.
File and line references are to `src/`; the active program is `main.cpp`,
`helpers.cpp` and `helpers.h`.

## 1. The system

### Threads

| Thread | Runs | Created |
|---|---|---|
| main | the sampling loop, `Server::emit` | - |
| I/O | `io_context.run()`: accept, reads, writes, `SocketConn::input`, the abort | main.cpp:223 |
| CSV writer | `run_signal` | main.cpp:224 |
| pool, five | `dispatchValve`, one line each | `poolptr`, main.cpp:36, remade by every abort |
| (signal) | `handlesigint`, on whichever thread takes SIGINT | main.cpp:41 |

### Components, their state, operations and what makes them correct

**Valve tables** (helpers.h). `vlj` and `vljf`, one table kept by hand in both
directions; the `_` in a name marks a normally open valve. Correct when the two
agree and a level is read the way it is written.

**Command scripts** (`dispatchValve`). No state of their own: each line selects
a straight-line program of register writes and `sleepOrAbort` calls. `361`,
`362`, `351`, `411`, `cavv` and `oavv` are accepted and do nothing, though
comments over some of them describe moves. Correct when the writes come in the
order and at the times of the comments, two valves of a switch-over are never
open together, and what a script opens it shuts.

**Dispatch and abort** (`SocketConn::input`, `poolptr`, `abort_flag`,
`abort_cv`). State: the pool, its queue, whether it is stopped, the flag, the
levels on the lines. Operations: post a line, run it, abort. Correct when an
abort always completes, no command of before survives it, none is cut short by
it afterwards, the safe levels are written last, and no valve stays open with
nobody to shut it.

**Outgoing messages** (`send`, `nq`, `dq`, `_write`). State: the posted
functions, `_mlist`, the write under way. Correct when one write is under way
at a time, from a front that does not move, and nothing is lost or doubled.

**Sessions and server** (`_read`, `start`, `accept`, `reg`, `emit`, `stop`).
State: the pending accept, each session's socket, read buffer, pending read and
write, the signal's slots. A session lives as long as a pending operation or a
posted `send` holds a `shared_ptr` to it; its slot holds a `weak_ptr`, and a
posted command keeps the raw `this`. Correct when every client is accepted,
every line it types is taken, and its session is there until then and gone for
good some time after the connection is.

**CSV writer** (`run_signal`, `wstart`, `wstop`). State: `enabled`, the wait on
`suspend_write`, the last timestamp, the row. Correct when recording stops and
resumes as it is switched, no row has the timestamp of the row before it, and a
row is not older than its timestamp.

**Sampling loop** (main.cpp:237-304). State: `State::valves` and the channels
of `State::lj`. Reads DIO_STATE and both streams, stores, emits; it looks at no
error, and a read of DIO_STATE that fails leaves 0. Correct when, after a read
that succeeds, a status message says how the valves stood when they were read,
when it holds the channels of one sample, and each channel is filed under its
own name.

**Setup and shutdown** (`main`, `handlesigint`, `ErrorCheck`). State: where
`main` and the handler are, the two `jthread`s in `threads`, `token`. Correct
when the process ends when it is told to, the streams last.

**Not part of the running program**: `legacy/`, the helpers nobody calls
(`sToMs`, `sleep`), the vendor headers in `lib/` but for `ErrorCheck`.

### How they interact

* clients -> I/O thread: lines; I/O thread -> pool: `boost::asio::post`;
  pool -> LabJack: `LJM_eWriteName`, whose error nobody looks at.
* I/O thread -> pool: `stop`, `abort_flag` and `abort_cv`, `join`, `reset`.
* sampling loop -> pool: `state->lj.ignval`, which the hot fire polls.
* LabJack -> sampling loop -> `State` -> `emit` -> `send` posted to the I/O
  thread -> client.
* pool -> CSV writer: the atomic `enabled` and `suspend_write`.
* sampling loop -> CSV writer: the channels of `State::lj`, without a lock.
* SIGINT, on any thread -> `token` -> sampling loop and CSV writer; `main` ->
  I/O thread: `Server::stop`, posted.

What is hard here: an abort that meets five threads anywhere in a sequence and
commands not yet started; writes that fail unnoticed; sequences next to each
other on the same valves; a notify that may fall between a check and a wait; a
list that a slow client makes grow; bits cut out of a double, or out of the 0 of
a read that failed; sessions that end
under their own commands; rows written while the channels change; joins of
threads that have no reason to end. Each is in
`PROJECT.json` under `hazards` at its line, with the properties about it, or
with the reason there is none yet.

## 2. The modules

| Module | Models | Extends / instantiates |
|---|---|---|
| `Valves` | the tables and what a level means | - |
| `Scripts` | `dispatchValve`: `Program(line)`, and `AbortWrites` | `Valves` |
| `Dispatch` | posting, the pool, the abort, the writes | `Scripts` |
| `DispatchProps` | the properties of `Dispatch`, the inductive invariant | `Dispatch`, `AbortContract` |
| `AbortContract` | abstract: what an abort promises an operator | `Valves` |
| `DispatchProofs` | theorems, the refinement of `AbortContract` among them | `DispatchProps` |
| `Timeline` | one script alone, against the clock | `Scripts` |
| `TimelineProofs` | theorems and their inductive invariant | `Timeline` |
| `Outbox` | the messages to one client | `Mailbox` |
| `Mailbox` | abstract: what a client may rely on | - |
| `OutboxProofs` | theorems, the refinement of `Mailbox` among them | `Outbox` |
| `Recorder` | the CSV writer and its switch | - |
| `RecorderProofs` | theorems | `Recorder` |
| `Telemetry` | decoding and reporting the valves | `Valves` |
| `TelemetryProofs` | theorems | `Telemetry` |
| `Sessions` | connections, their sessions' lives, accept, raw `this` | `Scripts` |
| `SessionsProofs`, `ShutdownProofs` | theorems | `Sessions`, `Shutdown` |
| `Shutdown` | setup, SIGINT, joins, exit | - |
| `Channels` | the tables from analog inputs to columns and names | - |
| `Samples` | the stores of the sampling loop against the writer's rows | `Channels` |
| `SamplesProofs` | theorems | `Samples` |
| `MC...` | instances for TLC | |

A few operators are preceded by one named "Mutant of ...": the same definition
with a plausible slip. Nothing in the specifications uses them. They record for
each property a bug in the code that it catches.

### Correspondence

**Dispatch.** A step of a script is a record; `task[w]` holds the line of
thread `w` and the number of its next step, so every write, sleep and store is
one step and any two threads interleave between them. `Write` is one
`LJM_eWriteName`: the device takes the level or the call fails and nothing
happens (`Put`, with the history variable `missed`). `Sleep` is one
`sleepOrAbort`: it returns because the flag is up, or because the time has
passed, which is possible at any moment, so scripts interleave at all relative
speeds. The flag is stored with `abort_mutex` held (helpers.cpp:347), so the
predicate of `wait_for` cannot miss it. `Heat` is the polling loop. `Terminate`
is the `std::out_of_range` of `vlj.at` leaving a handler of the pool. The abort
is one action per call: `AbortStop` (stop), `AbortRaise`, `AbortJoin` (join and
reset; the threads that still run go on stepping until then), `AbortLower`,
`AbortRenew`, sixteen times `AbortWrite`, `AbortDone`. While it runs the I/O
thread receives nothing. `Sample` lets the igniter be hot or not at any time;
that includes what an unchecked failed stream read leaves behind. Abstracted:
the characters of a line (split at its last `_` when it is chosen) and `cout`.
At the start a line is at level 1 or, for the valves in `FoundOpen`, 0: the
program writes no valve when it starts.

**Timeline.** `Tick` is a tenth of a second, every duration in the scripts is a
whole number of them, and it is the period of the sampling loop, so each tick
may bring a temperature. Any temperature may also be there from the start and
stay: `ignval` can be stale, or what a failed stream read left. The board is as
in `Dispatch`: a line may be found at level 0 (`FoundLow`; the history variable
`found` keeps those that are there still), and a write may be refused (`Put`,
with the history variable `missed`), after which the script goes on. Writes take
no time and nobody aborts. `writes` collects each call of `LJM_eWriteName` with
its time, refused or not; the `Comment...` sets are the comments over the
scripts, written down as such sets.

**Outbox.** `Emit` is the main thread's call of the slot, `Enqueue` the posted
function with `nq` and the first `_write`, `Written` and `WriteFailed` the
handler of `async_write` with both values of `ec`. Messages are numbered.
`_emit_event` and the posting are as atomic as boost makes them.

**Recorder.** `Switch` and `Notify` are two steps because the commands do not
take `writem`; `Check` and `Wait` are two steps because `enabled` is not
protected by it. `Check` is the predicate of `wait` with the mutex held.

**Telemetry.** DIO_STATE is the set of lines that are high; `MantissaBit` is
the bit the double of their sum has at a position, so the window
`substr(18, 16)` is modelled by what it cuts out, whichever line is highest. The
second disjunct of `ReadDIO` is the read that fails: its error is dropped, and
`ljbits` stays the 0 it is made with in every iteration. The history variable
`failed` keeps which it was.

**Sessions.** A client is one connection; `conn` is what its peer and the
network did, `stream` what it has typed and no handler has taken (`_buf` and
the socket together). `ReadLine` is the read handler without an error, `ReadEnd`
the one with: it takes the rest of the buffer for a line. `Reset` may lose any
part of the stream that was not read. An abort in a read handler keeps the I/O
thread (`Polling`) until the pool's threads are idle; its writes are in
`Dispatch`. `Held(c)` is whether a `shared_ptr` to the session exists. `Emit` is
the slot, which locks its `weak_ptr`. `Finish` of a hot fire whose session is
gone may do anything to the process: it follows `_st` of freed memory; the
others have copied what they need. `Accept` terminates the process if the peer
is gone (`remote_endpoint()` throws).

**Samples.** `Store` is one assignment to a member of `lj`, `Column` one read of
one by the writer; they interleave freely, and a read of a double during its
store gives the old or the new value. A value is the input and the iteration it
comes from. `Stamp` reads any time at all (the clock may be set) and lets a row
begin if the unsigned difference from `old_time` is positive; `Column` brings
`old_time` up to date with the last column. The history variable `previous` is
the timestamp of the row before the one in hand, so that `StampsDiffer` compares
two rows and not `old_time` with the time. `Channels` has the tables; `Taken`
composes index and scan list as the loop does.

**Shutdown.** `main` and `handler` are the positions of the two; `on` is the
thread the handler runs on, which does nothing else from then on. `Join` is one
`thread.join()`: it returns when the thread has ended, throws if it joins
itself or what is joined, may throw if two wait for the same. The writer's
thread may end as soon as it is made: `run_signal` returns if its file cannot
be opened. `Exit` is the end
of `exit()`, whose destructors wait for the pool and for the `jthread`s. What a
client does is cut down to coming, going and starting a command, brief or a hot
fire that is cold.

## 3. What the runs check

Bounds are the named constants of each module; nothing else is bounded.

| Run | Instance | Shows |
|---|---|---|
| `sequences` | 2 threads; `403`, `502`, `wstop`, an unknown word | `IInv` (with `TypeOK`), `NoSurvivor`, `NothingLeftOpen`, `OnlyAbortCutsShort`, `NothingStartsInAbort` |
| `faults` | 2 threads, `403a`, up to 2 refused writes standing | `NothingLeftOpen`, `KeepsContract` |
| `live` | 2 threads, `ign` and `502`, with fairness | `AbortCompletes`, `CommandsFinish`, `IgniterLeftOn` |
| `alone` | each of `403`, `403a`, `502`, `ign`, `stop`; V30, V20 and the igniter found at 0 or 1; up to 2 refused writes standing | `OxidizerAsCommented`, `BurnAsCommented`, `NeverBothOpen`, `FireOnlyIgnited` |
| `comments` | `403a`, `502`; no write refused | finds `AsCommented` violated, see below |
| `backlog` | 6 messages | `OutboxInv`, `OneStableWrite`, `EachOnce`, `ServesClient`, `EverythingArrives` |
| `switch` | 2 threads | `RecorderInv`, `OneLateRow`, `MissedOnlyInGap`, `NotifyResumes` |
| `report` | 4 valves, 5 sets of high spare lines, 3 moves, reads that fail | `TelemetryInv`, `TellsWhatWasRead`, `ReportCatchesUp` |
| `service` | 2 clients, 1 thread, with fairness | `SessionsInv`, `GoneOnlyAfterHangUp`, `GoneForGood`, `EverythingTaken`, `EverybodyAccepted`, `SessionsEnd` |
| `rows` | 14 channels, 2 iterations, 2 timestamps | `SamplesInv`, `StampsDiffer`, `ColumnsAsCommented`, `AsConfigured` |
| `signals` | SIGINT on any of four threads, 2 clients | `ShutdownInv`, `StreamsStopLast`, `MainNeverTerminates`, `KeptOnlyByThese` |
| `told` | SIGINT on main or a failed `ErrorCheck`, no client | finds `EndsWhenTold` violated, see below |

Why the bounds are enough:

* *Two threads* give every pair of scripts, one thread past its last sleep
  while the other sleeps, and a thread free while a line waits. The code treats
  its five threads alike, and the safety properties are proved for any number.
* *`QueueBound`* 1 has a line waiting behind two that run when an abort comes.
  The proofs cover any length of the queue, and every line: `stop`, the stubs
  and the orders by hand are in no run of `Dispatch`.
* *`MissBound`* 2 lets a sequence and an abort each be refused, or one of them
  twice. A refused register may be written again and be cleared. In `alone` it
  lets both lines be wrong that a property of two valves, or of a valve and the
  igniter, speaks of; in `comments`, which is about the calls made, it is 0.
* *`FoundLow`*, in `alone` one valve of each exclusive pair and the igniter:
  those whose level at the start can make `NeverBothOpen` or `FireOnlyIgnited`
  false without their exceptions. The proofs cover any lines found low.
* *`HeatBound`* 20: the loop looks at the temperature only, so its length
  shifts nothing after t-0.
* *`EmitBound`* 6 has a front under way, several messages behind it and several
  posted at once.
* *`Moving`, `MoveBound`*: lines 0, 1, 11 and 15, of both kinds, in all 16
  positions, moved between any two steps of the loop.
* *Two clients* have one session end while the other's abort holds up the I/O
  thread or its command waits; one line and a piece each give a line behind an
  abort and a command that outlives its session. *`EmitBound`* 1 has a message
  under way when the connection goes; lists of several are in `backlog`.
* *`IterBound`* 2: a row may hold the channels' first values and those of two
  samples. *`Stamps`* 2: with a clock that may be set, timestamps matter to the
  writer only as equal or different.
* *`ClientBound`* 2: a client leaves while another stays; 0 in the violations,
  where nobody need come for the process to stay.
* Threads are symmetric: they are only compared for equality, and the runs with
  `SYMMETRY` check no liveness.

### Disagreements of the code with its comments

`comments` checks three comments at once, `AsCommented`, and the trace TLC
prints is of one of them, the igniter's five seconds (`HotFireAsCommented`).
Each of the three is wrong by itself: with any one of them alone as the
invariant of the same configuration TLC finds it violated.

* `VariantAsCommented`: `403a` has the comment of `403` word for word, with V30
  open for three seconds and V33 for seven; the code has the two durations
  exchanged (helpers.cpp:203, :208).
* `HotFireAsCommented`: the comment has the igniter ten seconds after V34, the
  code five (helpers.cpp:249). The burn after t-0 agrees with its comment
  (`BurnAsCommented`).
* `IgnitedAt900`: the comments have the mains open at 900 C, the code at 365
  (helpers.cpp:252).

`told` checks `EndsWhenTold`, which fails in two ways:

* `ErrorCheck` "exits the program" (LJM_Utilities.h:123). When starting a stream
  fails it calls `exit()`, which destroys `threads`, which joins the I/O thread
  and the writer; neither has been told to stop.
* The handler on `main` is to kill the threads, disconnect the LabJacks and
  exit. It joins the I/O thread, and what would cancel the pending accept,
  `Server::stop`, is called by `main` behind its loop, to which the handler does
  not return. On another thread the handler and `main` join the same threads and
  the process terminates, or it joins itself and does.

Read while modelling, without a run: the comment over `LJSensors`
(helpers.h:91-98) has other inputs for the sensors of the second LabJack than
the code and the comment over the header of the CSV file (`ColumnsAsCommented`);
the first column is headed "elapsed" and holds the time of the clock, while the
start, read into `utn`, is not used.

### Stopping

`CHECK_DEADLOCK FALSE` is set where the system may stop: in `Dispatch` the
process may terminate, a script alone (`Timeline`) ends, in `Outbox` all
messages have been emitted and delivered, in `Sessions` all clients may have
gone, in `Samples` the iterations are over, and `Shutdown` is about stopping.
`Recorder` and `Telemetry` never stop and are checked for deadlock.

### Fairness

* `Dispatch`: weak fairness of the abort's steps after `AbortStop` and of each
  thread's steps. The operating system schedules threads, `sleepOrAbort`
  returns after its time, an LJM call returns. There is none for `Receive` and
  `AbortStop` (a client need not send) nor for `Sample` (the igniter may stay
  cold): so `CommandsFinish` excludes the hot fire, and `AbortCompletes` does
  not.
* `Outbox`: weak fairness of `Enqueue` (the I/O thread runs) and `Written`, none
  for `Emit`. That `Written` is fair assumes a client that reads: a write to one
  that does not, over a connection that does not fail, completes as little as
  one over a lost connection. `EverythingArrives` is for clients that read, and
  the list of one that does not only grows.
* `Recorder`: the writer and the notifying threads run; a wait need not wake by
  itself.
* `Telemetry`: the sampling loop runs; it waits for no client. Nothing makes the
  LabJack answer, so `ReportCatchesUp` has as its premise that the reads do not
  all fail from some moment on (`ReadsSucceedAgain`).
* `Sessions`: the I/O thread runs the handlers that are due, the pool its
  commands, an abort ends (`AbortCompletes`), a write to a lost connection
  fails. A client need not read, so `Written` has none, and neither has any
  action of a client or of the network. `SessionsEnd` is about emissions that
  end (`EmitBound`): between two of them nothing else holds the session.
* `Shutdown`: the threads run and brief commands end. Clients need not leave, a
  recording need not be switched on, an igniter need not get hot.

## 4. What is proved

All by TLAPS, for every value of the constants that satisfies the assumption in
its module: any clients, any lines, any valves found open and any lines found at
level 0, any refused writes and failing reads, any temperatures, any levels, any
number of messages and iterations, any bounds, any threads (in `Dispatch` and
`Recorder` finitely many and at least one). The named
assumptions, `DispatchAssumption`, `TimelineAssumption` and so on, one for each
module with constants, are the only ones; they say of what set a constant is.

Every invariant and action property that a run checks is proved but for the
liveness properties, and so are both refinements. Each proof has the same
shape: an inductive invariant, `Init` and each action separately, and the
property from it.

**`DispatchProofs`** shows that `IInv` is an inductive invariant. Its parts:

* `TypeOK`, with every `pc` within its program.
* The control of the abort: `StoppedForAbort`, `FlagOnlyForJoin`, `NoSurvivor`.
  The pool is stopped exactly from the abort's first step to the new pool; the
  flag is up only around the join; after the join the old pool is empty. Each
  needs the others: that nothing starts in the meantime comes from the stop,
  and the stop is only undone when the flag is down again.
* `SecuredStays`: what the abort has written stays, because nobody else runs.
* `ShutIsDue`: **every open valve has somebody who is going to shut it**: a
  thread with such a write ahead of it, or the abort. `NothingLeftOpen` speaks
  of quiet states only and is not inductive; `ShutIsDue` is what holds in
  between. It rests on `OpenedIsShut` (in each program an opening write is
  followed by a shutting one to the same valve, unless the line is an order by
  hand to open it) and on `AbortWritesFacts` (the abort writes every valve).
  A thread that is cut short owes its writes to the abort that did it, which is
  why the flag must not be up at any other time.

From it follow `TypeCorrect`, `InvariantCorrect`, `NoSurvivorCorrect`,
`NothingLeftOpenCorrect`, and the action properties `OnlyAbortCutsShortCorrect`
and `NothingStartsInAbortCorrect`. `IgniterLeftOnCorrect` is the counterpart of
`ShutIsDue` for the igniter, which the abort does not write
(`AbortSparesIgniter`): the igniter, once somebody is going to switch it off,
is left on only by the lighting step of the hot fire or by an abort that cuts a
command short. It rests on `LitIsShut`, `OpenedIsShut` for the igniter, whose
one exception is `502`. `ContractCorrect` is the refinement: `Dispatch`
implements `AbortContract`, where the I/O thread's position is the phase and a
non-empty queue or a running thread is `busy`; every step maps to a step of it
or a stutter.

Two theorems give the part of `AbortCompletes` that needs no fairness:
`JoinHindersNobodyCorrect` (while the abort joins the pool, each thread is idle
or can make its next statement at once; the hot fire too, because the flag is up
then) and `JoinShrinksCorrect` (nothing starts, and each step of a thread brings
it nearer to its end). With programs of finite length and threads that are
scheduled the join returns; that last inference is left to TLC.

**`TimelineProofs`** has an inductive invariant of its own, `TimelineInv`:

* `AsWritten`: every line carries the level of the latest write to it before
  `pc`, for any program, but for the lines that are still as they were found low
  and those whose latest write was refused. What is open when is then a question
  about the program alone, which `OxidizerWindows` and `HotFireWindows` answer:
  the steps between which a valve is open. `NeverBothOpen` compares windows.
* `LowByScript`: a line that was not found at level 0 is there only if the
  program has a write before `pc` that drives it there. It holds for refused
  writes too, and that is what `FireOnlyIgnited` needs: a main whose shutting is
  refused stays open beyond its window, but was opened behind the igniter all
  the same (`HotFireOpens`), and no step of `502` de-energises the igniter.
* `OxidizerOnTime`, `BurnOnTime`: the clock is the time at which the next step
  is due, plus what has passed of it. Without the clock the writes could not be
  known to come at the comment's times, and without `slept = 0` between sleeps
  the clock could not.

Hence `Exclusion` (every line, orders by hand and `stop` included, for the run's
five), `Ignited`, `Oxidizes` and `Burns`, for any temperatures, any refused
writes and however long the heat loop takes.

**`OutboxProofs`** proves `OutboxInv` inductive. The hard part is that `nq`
inserts behind the front in descending order, and that a message is in one
place only: `EachOnce` counts, and a count is kept by a removal only if what is
removed is nowhere else, so `NewestFirst` has to say that the front differs
from the rest, and `OnlyEmitted` that a new message is greater than all there
are. `Serves` is the refinement of `Mailbox`: the front under way is what
travels, the rest of the list what waits. `Enqueue` is `Submit`, `Written` is
`Arrive` (the second of a list in descending order is the newest that waits), a
failed write is `Break`, `Emit` a stutter.

**`TelemetryProofs`** proves `TelemetryInv`, hence `TellsWhatWasRead`, for all
levels and all 128 sets of spare lines: `WindowOfLines` says that bits 30 to 45
are lines 0 to 15 when line 22 leads, `FieldOfLine` and `LineOfField` that
`vljf` is the inverse of `vlj`, `DecodesLow` that the 0 of a failed read is
decoded as sixteen low lines.

**`SamplesProofs`** proves `SamplesInv`. A message holds one sample because
every store of an iteration has been made when it is sent; a row is not older
than its timestamp because iterations only grow, which needs the number of the
iteration that was complete when the timestamp was taken (`before`). Two rows
one after the other have different timestamps (`StampsDiffer`) because between
them `old_time` is the timestamp of the first (`LastStampKept`).
`FilledSoFar` ties the writer's position to the length of the row and
`TakenThroughout` every value to the input its place is taken from, from which
`ColumnsAsCommented` and `AsConfigured` follow by the tables alone.

**`RecorderProofs`** proves `RecorderInv` inductive, hence `OneLateRowCorrect`
and `MissedOnlyInGapCorrect`.

**`SessionsProofs`** proves `SessionsInv` inductive. `ReadsOn` is the heart of
it: a started session has a read pending until its stream is at its end,
whatever the abort or the writes do. `NothingStuck` needs to remember that
nothing is sent before a session starts. From `ReadsOn` follows
`GoneOnlyAfterHangUpCorrect`; `GoneForGoodCorrect` is the action property that
only what holds a session can make others hold it.

**`ShutdownProofs`** proves `ShutdownInv` inductive, hence
`StreamsStopLastCorrect` and `MainNeverTerminatesCorrect`. What it has to
remember is the order (`InOrder`): the I/O thread is made before the writer and
joined before it, and while the handler runs on main nobody else makes or joins
one.

Model-checked only: the liveness properties (`AbortCompletes`,
`CommandsFinish`, `EverythingArrives`, `NotifyResumes`, `ReportCatchesUp`,
`EverythingTaken`, `EverybodyAccepted`, `SessionsEnd`, `KeptOnlyByThese`):
fairness and ENABLED are beyond the prover. The two violations are TLC's
counterexamples.

## 5. Limits

* Nothing keeps two sequences apart: while they run together, valves that no
  script has open together can be. `NeverBothOpen` is about one script.
* A script does not notice a refused write. One refused shut leaves both valves
  of a pair open, and a refused write to the igniter lets the hot fire open its
  mains unlit once the temperature on hand, stale or not, is high enough.
  `NeverBothOpen` and `FireOnlyIgnited` say that nothing else does.
* After a failed read of DIO_STATE the clients are told that every line is low:
  normally closed valves open, normally open ones shut. Nothing in the message
  tells it from a true report. `TellsWhatWasRead` says both.
* The order of two commands of one client is not kept by the pool, and no
  property asks for it.
* The abort and the end of a process leave the igniter as it is.
* A process that terminates on an unknown word leaves its valves as they are.
  `Dispatch` has the step; after it nothing happens in the model either.
* `Shutdown` has one SIGINT, and none during `exit()`.
* `Recorder` and `Samples` have the writer with its file open. If the file
  cannot be opened the writer is not there (`Shutdown`), the switch has no
  effect, and there are no rows to speak of.
* `Sessions` has each client connect once. A new connection is a new session
  that shares nothing with the old one.

### Not modelled

* The conversion of volts to units and what a failed stream read leaves in its
  uninitialised array (`Dispatch!Sample` lets the igniter read hot or cold at
  any time), the ranges of the inputs, the padding of the numbers in the JSON,
  `launched`, which nothing sets, and memory that is never freed.
* `sToMs` and `sleep`, which nothing calls.
* `legacy/`, an earlier program that is not built, with the files CMake
  generated for it, and `lib/`: third-party headers. They are most of the
  repository's lines (`lib/LabJackMModbusMap.h` alone has 21411 of about 25600,
  all register constants); the program itself is `main.cpp`, `helpers.cpp` and
  `helpers.h`, 1092 lines, of which the modules cover nearly every one that is
  code.

## 6. Plan

Done: every module of section 2 with its runs, and the proofs of every invariant
and action property.

1. `Sessions` with `Outbox` as its outgoing side instead of a length.
2. The safety half of other liveness properties, as `JoinHindersNobodyCorrect`
   is of `AbortCompletes`: of `EverythingTaken` and of `KeptOnlyByThese`.
