------------------------------ MODULE Sampling ------------------------------
(***************************************************************************)
(* One application thread's ThreadData record: what riff::Application's    *)
(* begin(), end(), updateSamplingLength() and the per-thread part of       *)
(* terminate() do to it, and what the support thread does to it from       *)
(* outside (it raises the consolidate flag and later takes the             *)
(* consolidated sample away).                                              *)
(*                                                                         *)
(* The thread calls begin() and end() in strict alternation.  Time is a    *)
(* clock in abstract units; samplingLengthMs is samplingTime of them.      *)
(* Doubles are exact here: latencies are integers, throughput and load are *)
(* kept as their numerators (numTasks, latency) over the common            *)
(* denominator sampleTime.                                                 *)
(***************************************************************************)
EXTENDS Integers

CONSTANTS
  SamplingTimes, \* the values _configuration.samplingLengthMs may have; 0
                 \* switches sampling off
  Threshold,     \* _configuration.consistencyThreshold, a percentage
  Weights,       \* the weights the application passes to end()
  MaxTime,       \* bound: last instant of the clock
  MaxTasks       \* bound: tasks after which the application stops

ASSUME SamplingAssumption ==
  /\ SamplingTimes \subseteq Nat
  /\ Threshold \in Nat
  /\ Weights \subseteq Nat \ {0}
  /\ MaxTime \in Nat
  /\ MaxTasks \in Nat

VARIABLES
  samplingTime,        \* _configuration.samplingLengthMs, set before begin()
  now,                 \* getCurrentTimeNs(), never 0
  latency, numTasks,   \* tData.sample
  consolidatedSample,
  consolidate,
  rcvStart, computeStart, idleTime, sampleStartTime,
  firstBegin, lastEnd,
  totalTasks,
  samplingLength, currentSample,
  executionTime,       \* _executionTime of a one-thread application
  \* Where the callers are.
  inTask,              \* the thread is between begin() and end()
  requested,           \* the support thread is waiting for, or has not yet
                       \* taken, the sample it asked for
  terminated,          \* terminate() has run
  thrown,              \* the exception begin() ended with, or "none"
  \* History, which no action reads.
  done,                \* weight of the end() calls made so far
  reported,            \* numTasks of all the samples taken so far
  firstBeginCall, lastBeginCall, lastEndCall  \* times of begin()/end() calls

sampleVars == <<latency, numTasks, idleTime, sampleStartTime>>
lengthVars == <<samplingLength, currentSample>>
timerVars  == <<rcvStart, computeStart, firstBegin, lastEnd>>
supportVars == <<consolidatedSample, consolidate, requested, reported>>
endVars    == <<executionTime, terminated>>
beginHistory == <<firstBeginCall, lastBeginCall>>
endHistory == <<done, lastEndCall>>

vars == <<samplingTime, now, sampleVars, lengthVars, timerVars, supportVars, endVars,
          totalTasks, inTask, thrown, beginHistory, endHistory>>

SampleType ==
  [latency : Nat, numTasks : Nat, sampleTime : Nat, inconsistent : BOOLEAN]

EmptySample ==
  [latency |-> 0, numTasks |-> 0, sampleTime |-> 0, inconsistent |-> FALSE]

\* RIFF_DEFAULT_SAMPLING_LENGTH
DefaultSamplingLength == 1

Init ==
  /\ samplingTime \in SamplingTimes
  /\ now = 1
  /\ latency = 0 /\ numTasks = 0 /\ idleTime = 0 /\ sampleStartTime = 0
  /\ samplingLength = DefaultSamplingLength /\ currentSample = 0
  /\ rcvStart = 0 /\ computeStart = 0 /\ firstBegin = 0 /\ lastEnd = 0
  /\ consolidatedSample = EmptySample /\ consolidate = FALSE
  /\ requested = FALSE /\ reported = 0
  /\ executionTime = 0 /\ terminated = FALSE
  /\ totalTasks = 0 /\ inTask = FALSE /\ thrown = "none"
  /\ firstBeginCall = 0 /\ lastBeginCall = 0
  /\ done = 0 /\ lastEndCall = 0

Tick ==
  /\ now < MaxTime
  /\ now' = now + 1
  /\ UNCHANGED <<samplingTime, sampleVars, lengthVars, timerVars, supportVars,
                 endVars, totalTasks, inTask, thrown, beginHistory, endHistory>>

-----------------------------------------------------------------------------
(* begin() *)

\* Mutant: > for >= in the wrap of the counter.
NextSample_OffByOne ==
  IF currentSample + 1 > samplingLength THEN 0 ELSE currentSample + 1

NextSample ==
  IF currentSample + 1 >= samplingLength THEN 0 ELSE currentSample + 1

\* Mutant: std::ceil dropped.
CeilDiv_Floor(a, b) == a \div b

\* The least n with n * b >= a.
CeilDiv(a, b) == (a + b - 1) \div b

\* tasks # 0; the mean latency is an integer division, as in the code.
updateSamplingLength(tasks, sampleTime) ==
  LET mean == sampleTime \div tasks
  IN  IF mean # 0 THEN CeilDiv(samplingTime, mean) ELSE DefaultSamplingLength

\* Mutant: an estimate above the elapsed time counts as no difference.
absDiff_OneSided(x, y) == IF x > y THEN x - y ELSE 0

absDiff(x, y) == IF x > y THEN x - y ELSE y - x

\* The gap between the elapsed time and latency + idle time is more than
\* Threshold percent of the elapsed time.
Inconsistent(sampleTime, estimated) ==
  absDiff(sampleTime, estimated) * 100 > Threshold * sampleTime

\* Mutant: the first corner case is not handled.
AlignedSample_NoRestart(count, old, new) ==
  IF old > 1 /\ new = 1 THEN 0 ELSE count

\* Mutant: the second corner case is not handled.
AlignedSample_NoStop(count, old, new) ==
  IF old = 1 /\ new > 1 THEN 1 ELSE count

\* currentSample once the length has changed from old to new.
AlignedSample(count, old, new) ==
  IF old = 1 /\ new > 1 THEN 1
  ELSE IF old > 1 /\ new = 1 THEN 0
  ELSE count

CallBegin ==
  /\ ~inTask /\ ~terminated /\ thrown = "none"
  /\ done < MaxTasks
  /\ inTask' = TRUE
  /\ lastBeginCall' = now
  /\ firstBeginCall' = IF firstBeginCall = 0 THEN now ELSE firstBeginCall
  /\ UNCHANGED <<samplingTime, now, endVars, totalTasks, endHistory>>

\* This iteration is not sampled.
BeginSkip ==
  /\ CallBegin
  /\ NextSample > 1
  /\ currentSample' = NextSample
  /\ UNCHANGED <<samplingLength, sampleVars, timerVars, supportVars, thrown>>

\* begin() closes a measured interval: the thread has begun before, and this
\* call follows an end() that recorded a latency.
ClosesInterval ==
  /\ computeStart # 0
  /\ NextSample = 1 \/ samplingLength = 1

\* Mutant: the "only executed once" guards are dropped.
Started_Always(t) == now

Started(t) == IF t = 0 THEN now ELSE t

\* begin() that only starts the latency timer.
BeginMeasure ==
  /\ CallBegin
  /\ NextSample <= 1
  /\ ~ClosesInterval
  /\ currentSample' = NextSample
  /\ firstBegin' = Started(firstBegin)
  /\ sampleStartTime' = Started(sampleStartTime)
  /\ computeStart' = now
  /\ UNCHANGED <<samplingLength, latency, numTasks, idleTime, rcvStart,
                 lastEnd, supportVars, thrown>>

\* Mutant: the idle interval is measured from the wrong timestamp.
NewIdleTime_FromBegin == idleTime + (now - computeStart) * samplingLength

NewIdleTime == idleTime + (now - rcvStart) * samplingLength

NewSamplingLength ==
  IF samplingTime # 0
  THEN updateSamplingLength(numTasks, now - Started(sampleStartTime))
  ELSE samplingLength

\* The end of a begin() that closes an interval and does not throw.
FinishUpdate ==
  /\ samplingLength' = NewSamplingLength
  /\ currentSample' = AlignedSample(NextSample, samplingLength, NewSamplingLength)
  /\ computeStart' = now
  /\ thrown' = "none"

\* The assignments made before an exception leaves begin().
Throw(what) ==
  /\ thrown' = what
  /\ currentSample' = NextSample
  /\ idleTime' = NewIdleTime
  /\ sampleStartTime' = Started(sampleStartTime)
  /\ UNCHANGED <<samplingLength, computeStart, latency, numTasks, consolidate>>

StoreSample ==
  LET sampleTime == now - Started(sampleStartTime)
      gap == Inconsistent(sampleTime, latency + NewIdleTime)
  IN  /\ consolidatedSample' =
           [latency |-> latency, numTasks |-> numTasks,
            sampleTime |-> sampleTime,
            inconsistent |-> gap /\ samplingTime # 0]
      /\ IF gap /\ samplingTime = 0
         THEN Throw("inconsistency")
         ELSE /\ latency' = 0 /\ numTasks' = 0 /\ idleTime' = 0
              /\ sampleStartTime' = now
              /\ consolidate' = FALSE
              /\ FinishUpdate

KeepSample ==
  /\ idleTime' = NewIdleTime
  /\ sampleStartTime' = Started(sampleStartTime)
  /\ FinishUpdate
  /\ UNCHANGED <<latency, numTasks, consolidatedSample, consolidate>>

\* begin() that closes an interval: it adapts the sampling length and, when
\* the support thread asked for it, consolidates the sample.
BeginUpdate ==
  /\ CallBegin
  /\ NextSample <= 1
  /\ ClosesInterval
  /\ firstBegin' = Started(firstBegin)
  /\ UNCHANGED <<rcvStart, lastEnd, requested, reported>>
  /\ IF samplingTime # 0 /\ numTasks = 0
     THEN Throw("noTasks") /\ UNCHANGED consolidatedSample
     ELSE IF consolidate THEN StoreSample ELSE KeepSample

-----------------------------------------------------------------------------
(* end() *)

CallEnd(weight) ==
  /\ inTask /\ thrown = "none"
  /\ inTask' = FALSE
  /\ done' = done + weight
  /\ lastEndCall' = now
  /\ UNCHANGED <<samplingTime, now, beginHistory, supportVars, endVars,
                 lengthVars, thrown>>

EndSkip(weight) ==
  /\ CallEnd(weight)
  /\ currentSample # 0
  /\ UNCHANGED <<sampleVars, timerVars, totalTasks>>

EndMeasure(weight) ==
  /\ CallEnd(weight)
  /\ currentSample = 0
  /\ rcvStart' = now
  /\ latency' = latency + (now - computeStart) * samplingLength * weight
  /\ numTasks' = numTasks + samplingLength * weight
  /\ totalTasks' = totalTasks + samplingLength * weight
  /\ lastEnd' = now
  /\ UNCHANGED <<idleTime, sampleStartTime, computeStart, firstBegin>>

-----------------------------------------------------------------------------
(* The support thread and terminate(), as this record sees them. *)

\* The support thread, serving a request, raises the flag.
RequestSample ==
  /\ ~requested /\ ~terminated
  /\ requested' = TRUE
  /\ consolidate' = TRUE
  /\ UNCHANGED <<samplingTime, now, sampleVars, lengthVars, timerVars, endVars,
                 totalTasks, consolidatedSample, reported, inTask, thrown,
                 beginHistory, endHistory>>

\* Mutant: the consolidated sample is not reset after it was added.
AfterCollect_Kept == consolidatedSample

\* toAdd.consolidatedSample = ApplicationSample()
AfterCollect == EmptySample

\* It finds the flag lowered, adds the sample to the answer and clears it.
CollectSample ==
  /\ requested /\ ~consolidate
  /\ requested' = FALSE
  /\ reported' = reported + consolidatedSample.numTasks
  /\ consolidatedSample' = AfterCollect
  /\ UNCHANGED <<samplingTime, now, sampleVars, lengthVars, timerVars, endVars,
                 totalTasks, consolidate, inTask, thrown, beginHistory,
                 endHistory>>

\* The loop body of terminate() for this thread, called after its last end().
Terminate ==
  /\ ~inTask /\ ~terminated /\ thrown = "none"
  /\ terminated' = TRUE
  /\ totalTasks' = totalTasks + currentSample
  /\ executionTime' = lastEnd - firstBegin
  /\ UNCHANGED <<samplingTime, now, sampleVars, lengthVars, timerVars,
                 supportVars, inTask, thrown, beginHistory, endHistory>>

Next ==
  \/ Tick
  \/ BeginSkip
  \/ BeginMeasure
  \/ BeginUpdate
  \/ \E weight \in Weights : EndSkip(weight)
  \/ \E weight \in Weights : EndMeasure(weight)
  \/ RequestSample
  \/ CollectSample
  \/ Terminate

Spec == Init /\ [][Next]_vars

-----------------------------------------------------------------------------
(* Properties *)

\* Types of the record's fields; the sampling length is never 0, so the
\* counter of begin() has a modulus.
TypeOK ==
  /\ samplingTime \in SamplingTimes
  /\ now \in Nat \ {0}
  /\ latency \in Nat /\ numTasks \in Nat /\ idleTime \in Nat
  /\ sampleStartTime \in 0..now
  /\ samplingLength \in Nat \ {0}
  /\ currentSample \in Nat
  /\ rcvStart \in 0..now /\ computeStart \in 0..now
  /\ firstBegin \in 0..now /\ lastEnd \in 0..now
  /\ consolidatedSample \in SampleType
  /\ consolidate \in BOOLEAN /\ requested \in BOOLEAN /\ reported \in Nat
  /\ executionTime \in Nat /\ terminated \in BOOLEAN
  /\ totalTasks \in Nat /\ inTask \in BOOLEAN
  /\ thrown \in {"none", "noTasks", "inconsistency"}
  /\ done \in Nat
  /\ firstBeginCall \in 0..now
  /\ lastBeginCall \in 0..now /\ lastEndCall \in 0..now

\* Tasks that have ended and that totalTasks does not count yet, from the
\* position of the counter alone.
Uncounted ==
  IF ~inTask THEN currentSample
  ELSE IF currentSample = 0 THEN samplingLength - 1
  ELSE currentSample - 1

\* However often begin() changes the sampling length, totalTasks plus the
\* counter is the number of finished tasks: the correction that terminate()
\* adds ("spurious tasks that I didn't record") is exact.
TaskConservation ==
  thrown = "none" =>
    IF terminated THEN totalTasks = done ELSE totalTasks + Uncounted = done

\* Every task that end() counted is in exactly one place: the running sample,
\* the consolidated one, or an answer.  No request loses a task or reports
\* one twice, whenever the flag is raised or lowered.
ReportConservation ==
  thrown = "none" /\ ~terminated =>
    totalTasks = reported + consolidatedSample.numTasks + numTasks

\* begin() never throws in a program that pairs its calls: when it closes an
\* interval a task has been recorded, and without sampling the measured times
\* add up to the elapsed time ("it is not possible to have inconsistency if
\* sampling is not applied").
NoException == thrown = "none"

\* The timers measure one task and one gap, never several: when end() is
\* about to record, computeStart is the time of the begin() before it, and
\* when the next begin() closes an interval, rcvStart is the time of the
\* end() before it.
TimersFresh ==
  thrown = "none" =>
    /\ inTask /\ currentSample = 0 => computeStart = lastBeginCall
    /\ ~inTask /\ ClosesInterval => rcvStart = lastEndCall /\ numTasks > 0

\* What the consistency check of begin() buys: the load of a sample that is
\* not marked inconsistent exceeds 100% by at most the threshold.
LoadWithinThreshold ==
  ~consolidatedSample.inconsistent /\ thrown = "none" =>
    consolidatedSample.latency * 100 <=
      (100 + Threshold) * consolidatedSample.sampleTime

\* riff.hpp documents loadPercentage as "The percentage ([0, 100]) of time
\* that the node spent in the computation", unreliable only when inconsistent.
LoadInDocumentedRange ==
  ~consolidatedSample.inconsistent =>
    consolidatedSample.latency <= consolidatedSample.sampleTime

\* Without sampling every task is measured and the documented range is kept.
LoadWithoutSampling == samplingTime = 0 => LoadInDocumentedRange

\* riff.hpp documents getExecutionTime as "from the first call of begin() to
\* the last call of end()"; for one thread, without sampling, it is.
ExecutionTimeSpansCalls ==
  samplingTime = 0 /\ terminated => executionTime = lastEndCall - firstBeginCall

\* Without sampling the sum of latency and idle time is the time from the
\* start of the sample to the last timestamp taken.
ExactTiming ==
  samplingTime = 0 /\ thrown = "none" /\ computeStart # 0 =>
    latency + idleTime =
      (IF inTask THEN computeStart ELSE rcvStart) - sampleStartTime
=============================================================================
