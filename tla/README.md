# riff: models, checks and proofs

riff is a C++ library that monitors the performance of a parallel application.
The application creates a `riff::Application` and brackets every iteration of
its threads with `begin()` and `end()`; another process creates a
`riff::Monitor` and polls it with `getSample()`. The two talk over a nanomsg
`NN_PAIR` socket. The library is `src/include/riff/riff.hpp` (the calls on the
hot path are inline there) and `src/src/riff.cpp`; everything under
`src/src/external` is the vendored nanomsg.

## The system

| Component | State | Operations | Talks to |
|---|---|---|---|
| Sampling of one thread | `ThreadData`: running sample, consolidated sample, timers, `samplingLength`, `currentSample`, `totalTasks`, `consolidate` | `begin()`, `end()`, `updateSamplingLength()` | the support thread, through `consolidate` (an atomic) and `consolidatedSample` (a plain struct) |
| Start notification | `_started`, `_mutex` | part of `begin()`, `notifyStart()` | the monitor (START) |
| Support thread | its loop variables | `applicationSupportThread()` | all `ThreadData`, `_supportStop`, `_phaseId`, `_totalThreads`, the monitor (REQ, RES) |
| Termination | `_supportStop`, `_totalTasks`, `_executionTime` | `terminate()`, destructor | all `ThreadData`, the support thread (flag and join), the monitor (STOP, ack) |
| Phases | `_phaseId`, `_totalThreads` | `setPhaseId()`, `setTotalThreads()` | read by the support thread, without a lock |
| Monitor | last phase, last thread count, summary | `waitStart()`, `getSample()`, destructor | the application |
| Channel | one pipe per side, messages on their way | attach, send, receive, close | both processes |
| Custom values and aggregation | `customFields`, `_aggregator`, `_inconsistentSample` | `storeCustomValue()`, the averages of the support thread | the support thread |
| `ApplicationSample` | the fields of a sample | copy, element-wise operators (not modelled), `operator<<`, `operator>>` | used by all of the above and by the monitor's user |
| Clock and its calibration | none | `getCurrentTimeNs()` | |

What is hard here:

* `begin()` changes the sampling length in the middle of the interval it
  counts with, and the tasks that `end()` skips are recovered by arithmetic.
* A plain struct is handed between threads by one flag, while a third thread
  may set `_supportStop` at any moment.
* Two threads of the application use the same socket (the support thread and
  the one that calls `terminate()`), STOP and a request can cross on the wire,
  and a closing socket takes undelivered messages with it.
* The answer mixes consistent and inconsistent threads: some fields are averaged
  over the former, some summed over all, and a collection that `terminate()`
  cuts short goes through the same arithmetic with fewer samples or none.

What makes each part correct: the sampling loses no task and its timers measure
one thing; START is sent once and first; the support thread never shares a
sample with its writer, never divides by zero, never sends a partial answer and
never throws; `terminate()` returns and both sides learn that the session is
over; the summary is exact; an inconsistent thread neither adds to the averages
nor dilutes them, and a custom value is reported once. `PROJECT.json` lists the hazards behind these at
their lines.

## Modules

**`Sampling`** is one `ThreadData` with its clock. `begin()` is three actions:
`BeginSkip` (the early return), `BeginMeasure` (only starts the timer) and
`BeginUpdate` (closes an interval: idle time, new length, consolidation, corner
cases, both exceptions). `end()` is `EndSkip` and `EndMeasure`. `RequestSample`
and `CollectSample` are the support thread's two accesses to the record, and
`Terminate` is the loop body of `terminate()` for it. The variables have the
names of the fields; `samplingTime` is the configured `samplingLengthMs`, which
no action changes. Doubles are exact: throughput and load are kept as their
numerators over the common denominator `sampleTime`, and the consistency check
compares products. A sample time of 0 behaves as the IEEE division does
(0/0 is not above the threshold, x/0 is). The variables after `thrown` record
history for the properties.

**`PairChannel`** is what a process sees of a nanomsg pair socket: a side has at
most one pipe (`Attach`, as `nn_excl_add`), `Send` and `Receive` block without
one, messages of one direction keep their order, `Close` drops what the closer
has not read, and `DropPipe` (as `nn_excl_rm`) lets the other side lose its pipe
with everything undelivered. Sockets have no timeouts because riff sets none;
an interrupted call (EINTR, which `nn::socket` turns into an exception) is left
out.

**`Riff`** composes the channel with the application threads, the support
thread, the thread that owns the Application and the Monitor. `begin()` is cut
where it touches shared data: `Begin` (to the unprotected test of `_started`),
`Lock`, `notifyStart`, `SetStarted`, `Unlock`, then `StartTimer`, `Update` or
`FindRequest`, `StoreSample`, `LowerFlag`. The support thread is one action per
access (`SupportCheck` to `SendResponse`), and so are `setPhaseId` and
`terminate`. Time is abstracted: the length that `updateSamplingLength()`
computes is any member of `Lengths` (any positive number in the proofs), and a
sample is its number of tasks. A field `threads` of the messages, which the
program does not send, remembers how many samples an answer was made of.

**`ApplicationSample`** has the struct, its construction and copies, and its text
form as a sequence of tokens. `Write` rounds every number to the digits of an integer below
`PrintLimit`, as a stream does (`Printed`, defined up to 10^4 * `PrintLimit`);
`Read` is `operator>>`, which looks for colons and brackets only.

**`Reports`** is what the support thread computes, over the samples of several
threads. What `begin()` measured is any member of `Measured`; its hand-over is
one step (`StoreSample`), because `Riff` has the interleavings inside it. The
support thread collects (`Collect`, thread by thread, cut short when
`_supportStop` is set), completes the answer (`Aggregate`: adjusted throughput,
averages or the inconsistent flag, custom fields with the demo's aggregator or
without one, the two throws) and sends it or not (`Reply`). `storeCustomValue`,
`markInconsistentSamples` and `SetStop` may come at any moment before the stop.
**`MCReports`** gives `Measured` its value.

**`Summary`** is the execution time: `firstBegin` and `lastEnd` of every thread,
and their minimum and maximum in `terminate`. Any call after the first of a
thread may be one that sampling skips.

**`Handover`** and **`Session`** are abstract specifications. `Handover` is one
mailbox per thread: work is put as a whole, only when wanted, and taken once.
`Session` is what the Monitor's user sees, without threads or messages. `Riff`
implements both:

* `Mailbox` maps `wanted` to the flag, and `content` to the consolidated sample
  as soon as the flag is down. Between `StoreSample` and `LowerFlag` the sample
  has left `sample` but still counts as the thread's: the hand-over happens
  when the flag is lowered, and everything else is a stuttering step.
* `MonitorSees` maps the tasks executed to the sum of `done`, the tasks reported
  to the samples received, and the summary to what STOP brought. A monitor that
  has thrown maps to a state `Session` does not have. `Session` demands at least
  one task of each thread in a report, no more reported than executed, and a
  summary equal to the tasks executed.

Both are safety specifications: fairness of the abstract actions would need
ENABLED under the mapping. What must happen is stated directly, by
`TerminateReturns` and `SessionEnds`.

**`Sums`** has the one operator for sums over threads and over messages, which
`Riff` and `Reports` share.

The theorems are in modules of their own. **`SamplingProofs`** and
**`SummaryProofs`** extend the module they are named after. **`RiffProofs`**
(types), **`HandshakeProofs`** (the flag), **`ProtocolProofs`** (the messages)
and **`TasksProofs`** (the accounting) build on each other, over `Riff`.
**`ReportsProofs`** is over `Reports`, and **`SumProofs`** has the lemmas about
sums that the last two cite.

### Assumptions

* Each thread alternates `begin()` and `end()`, as the documentation demands,
  and `terminate()` is called once, after the threads have been joined
  ("when the parallel part of the application terminates").
* `RIFF_DEFAULT_SAMPLING_LENGTH` is 1; in `Riff`, `adjustThroughput` is true
  (defaults).
* The assertions are compiled out: `waitStart()` and the support thread take
  any message. What they assert are properties here (`StartComesFirst`,
  `OnlyRequests`).
* `_started`, `_supportStop`, `_phaseId` and `_totalThreads` are plain variables
  read and written by several threads. Every access is next to a call the
  compiler cannot see through (a lock, `usleep`, a socket call), so a read
  yields the current or an earlier value; the interleavings of separate steps
  cover that.
* `sleep(1)` in `getSample()` is long enough for the ack to be read
  (`DestroyMonitor`). `Destroy = FALSE` also stands for objects built around an
  existing socket, whose destructors leave it open.

## Runs

| Run | Question | Result |
|---|---|---|
| `sampling` | Does adaptive sampling keep its books whatever the timing? Without sampling, are the measured times exact, the FATAL exception unreachable, and load and execution time what the documentation says? | passes |
| `sampling_weights` | The same with `end(id, 2)` | violated: the exception is thrown |
| `sampling_load` | Is the load of a consistent sample within [0, 100]? | violated |
| `riff_safety` | Handshake, message protocol and task accounting in every interleaving; does nobody wait for everybody; is it a mailbox, and a session? | passes |
| `riff_liveness` | Does `terminate()` return and the session end? | passes |
| `reports` | Is what the support thread computes right for every mix of threads, and does it survive a log? | passes |
| `reports_adjust` | Does the support thread go on without the threads that have not stored a sample, as `adjustThroughput` says? | violated |
| `summary` | Does the execution time span all the threads? | passes |
| `summary_documented` | Is it from the first `begin()` to the last `end()`, whatever the threads do? | violated |
| `riff_ack` | Has the monitor received STOP when `terminate()` returns? | violated |
| `riff_phase` | Does a sample pair a phase with its own thread count? | violated |
| `riff_no_tasks` | Is START first, also when nothing was executed? | violated |

Every violated run states something that the repository says of itself; the
findings in `PROJECT.json` quote the line.

* **Weights.** `end()` multiplies the latency by `weight`, but not the elapsed
  time it is compared with.
* **Load.** It is extrapolated from one task in `samplingLength`. The theorem
  `LoadBounded` gives the bound that does hold, 100 + `consistencyThreshold`;
  `LoadDocumented` has the documented one for a session without sampling.
* **Ack.** The support thread answers a request and leaves its loop because
  `_supportStop` was set meanwhile; the monitor sends its next request; and
  `terminate()`, which does not look at the type of what it receives, takes the
  request for the ack. The STOP is then still on its way (`StopNotLost`, a
  theorem), and with `Destroy = FALSE` the monitor gets it (`riff_liveness`);
  when the destructor closes the socket first it need not.
* **Phase.** Two unprotected writes against two unprotected reads.
* **No tasks.** START is only sent by `begin()`.
* **Adjusted throughput.** The documentation of `adjustThroughput` has the support
  thread estimate the threads that have not stored a sample yet, or leave them
  out. `keepWaitingSample()` waits for every one of them, with either value of
  the option, until `_supportStop` is set; and then nothing is sent. So the
  option has no effect on what the monitor gets (`ThroughputOfAllThreads` is a
  theorem for both values), and a thread that has stopped calling `begin()` holds
  up the answer.
* **Execution time.** A thread that has not called `begin()` has `firstBegin = 0`,
  which wins the minimum in `terminate()`: the execution time then starts at the
  clock's origin. This is the trace that the run finds. The documented sentence
  fails at the other end too, when sampling is on, because a skipped `end()` does
  not move `lastEnd`. What does hold is `ExecutionTimeSpansThreads` (`summary`,
  and the theorem `ExecutionTimeCorrect`): once every thread has begun, the time
  is from the first `begin()` to the last measured `end()`; and without sampling,
  for one thread, the documentation is right (`ExecutionTimeSpansCalls` in
  `sampling`, and the theorem `ExecutionTimeDocumented`).

`reports` passes with two observations worth knowing. A custom value that was
not stored since the last sample is reported as 0: the code has a TODO on it,
and `CustomValueNotRepeated` says that it is at least never an old value. And an
aggregator of the user is called with fewer values than threads, or with none,
when `terminate()` interrupts a collection; `AggregatedOverAllThreads` says that
nothing else causes this, and that the result is then never sent.

### Bounds

`MaxTime`, `MaxTasks`, `MaxPhase`, `MaxStores` and `MaxAnswers` are the only
bounds; they stand in guards and nothing else depends on them.

* `sampling`: sampling off (length 1 throughout), or a sampling time of 3, with 8
  instants and 7 tasks. With sampling the mean latency goes through 0 (length 1), 1 (length 3), 2 (length 2) and 3 and more
  (length 1), so the length grows, shrinks, and crosses 1 both ways, with
  requests at every point of an interval.
* `riff_safety`: two threads, lengths 1 and 3, up to 4 iterations each. This is
  enough for a thread to be in the middle of an interval, to have skipped
  tasks, or to have finished, while the other stores a sample; for several
  requests; and for `terminate()` to fall in any point of a collection.
  Deadlock checking is off because a session stops when both sides are done.
* `riff_liveness`: the same with up to 3 iterations, without phases.
* `reports`: two threads, three kinds of measurement (a fast thread, a slow one,
  an inconsistent one), two answers and two stored values, one custom field;
  every mix of consistent and inconsistent threads, interrupted collections
  with 0, 1 and 2 samples, and a second answer after a first occur. The
  measurements are divisible by the numbers of tasks and threads
  (`ExactDivisions`), so integers behave as the doubles do. `PrintLimit = 100`
  instead of 10^6 makes small numbers lose digits in print; the log is written
  with one custom field more than is read. Deadlock checking is off because the run
  ends with the last answer.
* `summary`: three threads and 6 instants, 2 to the millisecond, so that tasks
  of different threads nest, overlap and follow each other and the division
  truncates.
* `reports_adjust` and `summary_documented` use the instances of `reports` and
  `summary`.

### Fairness

`FairSpec` assumes weak fairness of each application thread, of the support
thread, of the owner once it is inside a call and of its decision to call
`terminate()` when the threads are done, of the monitor and of the channel. All
of them are operating system threads (the last is nanomsg's worker), each with
at most one way to block at a time. Weak fairness is enough: only the mutex can
be taken away from a thread that waits for it, and each thread locks it at most
once after `_started` is set, so it is free for good in the end; the loops that
poll a flag are modelled by the step that ends them. Starting a phase (`SetPhaseId`) is never required. That the monitor goes
on calling `getSample()` is part of the assumption and is needed: the join in
`terminate()` waits for a support thread that may be blocked in `recv` until
the next request.

## Theorems

`SamplingProofs`, for every sampling time, `Threshold`, clock and number of
tasks:

* `TypeCorrect`; the strengthening `Counter` keeps `currentSample` below
  `samplingLength`, and a lemma shows that the ceiling of
  `updateSamplingLength()` is positive.
* `TasksReportedOnce` and `TimersAreFresh`, for any weights. The first needs to
  know that the consolidated sample is empty while the flag is up, and while
  nothing is requested (`Ledger`), otherwise storing a sample could overwrite
  one that nobody read; the second needs
  the position of the counter in the interval (`Timers`).
* `TasksCounted` (weight 1), inductive together with the types.
* `BeginNeverThrows` and `TimesAddUp` (weight 1; the second without sampling),
  from `ThrowInv`: an interval is closed only with a task recorded (`Timers`),
  and without sampling the estimate that `begin()` compares is the elapsed time
  (`Exact`).
* `LoadBounded`, from the consistency check and the fact that latency and
  sample time are stored together.
* `LoadDocumented` (weight 1, sampling off): a stored sample's latency and idle
  time add up to the time it covers, by `Exact`.
* `ExecutionTimeDocumented` (sampling off, any weights), from `Spans`: with a
  length of 1 the counter is always 0, so every call leaves its timestamp.

`RiffProofs` and `HandshakeProofs`, for every number of threads and every set of
lengths: `TypeCorrect`, `SamplesAreExclusive`, `SamplesNotEmpty`,
`AnswersComplete`, `SupportNeverThrows`, `HandoverImplemented`. None is inductive
alone. The invariant is `HandshakeInv`:

* `CountingInv`: the counter is within the interval, and a thread that is about
  to close an interval has counted a task;
* `OwnershipInv`: from finding the flag to lowering it, the flag is up, and
  what the thread stores is not empty;
* `ProgressInv`: as long as `_supportStop` is not set, the support thread has
  collected one sample per thread it passed;
* `StoredInv`: a thread that has lowered its flag since it was raised for this
  request has left a sample that is not empty;
* `AnswersInv`: the messages already on their way are complete.

`HandoverImplemented` is the refinement to `Handover`, one lemma per kind of
step. It needs `MailboxInv` besides: whenever the support thread is about to
raise a flag, the mailbox behind it is empty, otherwise the request would be
made with the last sample still in it. That fails only after `_supportStop` is
set, when no flag is raised any more.

`ProtocolProofs`: `QueuesBounded`, `NeverThrows`, `SupportGetsRequests`,
`StartIsFirst`, `NobodyStuck` and `StopReachesMonitor`, in three layers.

* `StartInv`: only the owner of the mutex is between `Lock` and `Unlock`, it
  notifies only what has not been notified, and whoever has executed a task, or
  samples with another length than 1, has seen `_started`. So START is sent
  once.
* `OwnerInv`: the order of `terminate()`. The stop flag is up exactly from the
  join on, the support thread has left its loop before STOP is sent, and the
  threads have finished before all this.
* `ProtocolInv`: for each place where the monitor can be, what can be on its way
  in the two directions. The case that makes it long is a request that crosses
  STOP: it stays in the queue of the application, and `terminate()` takes it for
  the ack.

`NobodyStuck` is the safety half of `SessionEnds`: whenever the support thread or
`terminate()` waits and no message is on its way in either direction, it is the
monitor's turn. Two facts beyond the protocol's types of messages are needed.
A support thread that gave up a request because of `_supportStop` is back at the
loop's test, never in another receive (`Abandoned`); `ProtocolInv` was not strong
enough without it. And a monitor that has acknowledged STOP has left something
for `terminate()` to receive (`AckInv`), which `DestroyMonitor` keeps because one
second is taken to be enough.

`StartIsFirst`, `NobodyStuck` and `StopReachesMonitor` have the premise
`MinTasks > 0`: the run `riff_no_tasks` shows that it is needed, since there
`waitStart()` uses up the STOP.

`TasksProofs`: `NoTaskLost`, `SummaryIsExact` and `SessionImplemented`.

* `CountInv`: what each thread has executed is what it has counted and what it
  has skipped in the current interval, which `terminate()` adds again.
* `TotalInv`: the loop of `terminate()` has summed up the threads it passed, so
  that its result is the sum of the tasks executed (`SumRound`).
* `AnswerInv` and `MessagesInv`: the answer being built has at least one task per
  sample; an answer on its way has at least one task per thread; a STOP on its
  way carries the final sum, and so does the summary of the monitor.
* `BalanceInv`: until `terminate()` starts, the tasks that the threads have
  counted are those in the running and the stored samples, in the answer being
  built, in the queue and at the monitor. Afterwards these, with those of an
  answer that is given up, are at most the tasks executed.

`SessionImplemented` is the refinement to `Session`: the steps of the threads
map to `Execute` or stutter, those of the monitor to a report or the end of the
session by `MessagesInv` and `BalanceInv`, everything else stutters.

`SumProofs`: how a sum changes with one value, one argument, the head of a
sequence. `SumOver` is a fold over a finite set, which takes the elements in the
order of `CHOOSE`. `FoldInduction` is the induction in that order; it is not the
library's (whose theorems take an operator) but follows from the well-foundedness
of the strict subset ordering of a finite set, with the set of the subsets that
satisfy the claim as its parameter. `FoldRemove` then shows that the order does
not matter.

`ReportsProofs`, for every number of threads, of custom fields and every set of
measurements:

* `ReportsTyped` and `AggregatorSeesAllThreads`, from `ShapeInv`: the types, with
  naturals for the integers; `LoopInv`, which says how many samples the loop has
  and that only `terminate()` lets it have fewer than the threads it passed (so
  the error it may throw is never thrown); and `FreshInv`, which says that a
  thread whose flag is down in this round has left a sample with a task, so that
  the mean latency is never divided by 0.
* `AveragesAreMeans`, `FlagIsRight` and `SumsAreComplete`. `TakenInv` relates the
  partial answer to the samples taken: the sums of throughputs and tasks are
  those over all of them, and the sums of loads and mean latencies are `Spread`,
  that is, at least n times one of the reliable values and at most n times
  another, n being the count the code divides by. A new sample keeps this
  (`SpreadAppend`), and the quotient then lies between two of them
  (`SpreadMean`). `AnswerInv` carries the completed answer to the monitor.
  Nothing of this uses `ExactDivisions`.
* `ValuesReportedOnce`, from `FieldsInv`: a custom value of the first thread goes
  from the running sample to the stored one, to the row of the answer and to the
  monitor, and at each place it is newer than all those further on.
* `LogReads`, for a log of any length with any number of further custom fields.
  The loops of `operator>>` and of whoever reads the log are recursive functions.
  What is left of a text after k fields is its `Suffix`, and of a log after k
  samples its `Rest`; both closed forms are shown by induction on k. That
  induction takes a set of numbers instead of an operator, so the provers can
  instantiate it. `Ignore` is where the text matters: the next colon or bracket
  is the one in front of the next field or at the end of the sample, because
  numbers hold neither. How much a number
  loses in print is `PrintedPrecision`: nothing below `PrintLimit`, and at most
  half a unit of the last printed digit above (up to 10^4 * `PrintLimit`).

`SummaryProofs`, for every set of threads: `TypeCorrect` (the unsigned difference
of `terminate()` does not wrap) and `ExecutionTimeCorrect`. The invariant
`SummaryInv` ties each thread's timestamps to the history: a thread that is not
in a task and has begun has a measured end after its begin, and the minimum and
the maximum over the threads are the first call and the last measured end.

The assumptions are `SamplingAssumption`, `RiffAssumption`, `ReportsAssumption`
and `SummaryAssumption` (types of the constants; at least one thread; lengths
are positive, which `Sampling` proves; a measured sample has a task, which
`SamplesNotEmpty` says of `Riff`). The bounds in the guards are arbitrary
numbers in the theorems.

Only model-checked: `TerminateReturns` and `SessionEnds`, because liveness under
fairness needs ENABLED, which is out of the prover's reach. Every invariant and
every refinement that a passing run checks is a theorem.

## Not modelled

* The hardware clock and its calibration (`getticks.h`, `ticksPerNs.cpp`,
  `build_archdata.sh`): one line of assembler or a system call per platform; the
  models take a clock that never goes back and never shows 0.
* The rest of nanomsg: `PairChannel` is what riff sees of it. Reconnection, a
  third socket on the same address, EINTR and the byte streams are left out.
* Misuse: `begin()` twice in a row (its exception leaves a half-updated record),
  `terminate()` in the middle of a task, a configuration changed while threads
  run.
* The second that `getSample()` sleeps after the ack: it is real time, and
  `DestroyMonitor` takes it to be enough. A slower application would lose the
  ack and wait for ever.
* Floating point: rounding, infinities and NaN.
* The arithmetic operators of `ApplicationSample` (`+=`, `-=`, `*=`, `/=` and those
  built on them): the library never calls them, and what matters in them is
  double arithmetic.
* `weight` together with sampling in `Riff`; `Sampling` has it.
* Demo, tests and build files, except the demo's aggregator.

## Plan

1. Done: `Sampling`, `PairChannel`, `Riff` and their theorems.
2. Done: `ApplicationSample`, `Reports`, `Summary` with its theorems, and the
   refinements to `Handover` and `Session`.
3. Done: the proofs of the protocol, of the task accounting, of both refinements
   and of what `Reports` computes.
4. Done: what `operator>>` reads of what `operator<<` has written, the documented
   ranges without sampling, and that neither process waits for the other with
   nothing on its way.
5. Left: liveness as theorems, which needs a prover for ENABLED; a real-time model
   of the second that `getSample()` sleeps; `begin()` twice in a row.
