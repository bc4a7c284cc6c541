--------------------------- MODULE SamplingProofs ---------------------------
(***************************************************************************)
(* What module Sampling promises for every sampling time, threshold, set   *)
(* of weights, clock bound and number of tasks.                            *)
(***************************************************************************)
EXTENDS Sampling, TLAPS

USE DEF AfterCollect

-----------------------------------------------------------------------------
(* Arithmetic of the operators that begin() and end() use. *)

\* A product of natural numbers is a natural number, and is positive when
\* both factors are.
LEMMA ProductNat ==
  ASSUME NEW a \in Nat, NEW b \in Nat
  PROVE  a * b \in Nat /\ (a > 0 /\ b > 0 => a * b > 0)
  BY SMT

\* An integer division by a positive number stays a natural number, and is
\* positive when the dividend is at least the divisor.
LEMMA DivNat ==
  ASSUME NEW a \in Nat, NEW b \in Nat, b > 0
  PROVE  a \div b \in Nat /\ (a >= b => a \div b > 0)
  BY SMT

\* updateSamplingLength(), with sampling on and at least one task, returns a
\* positive length: the counter of begin() never has modulus 0.
LEMMA UpdatePositive ==
  ASSUME NEW tasks \in Nat, NEW t \in Nat, tasks > 0,
         samplingTime \in Nat, samplingTime > 0
  PROVE  updateSamplingLength(tasks, t) \in Nat \ {0}
<1> DEFINE mean == t \div tasks
<1>1. mean \in Nat
  BY DivNat
<1>2. CASE mean = 0
  BY <1>2 DEF updateSamplingLength, DefaultSamplingLength
<1>3. CASE mean # 0
  <2> DEFINE a == samplingTime + mean - 1
  <2>1. a \in Nat /\ a >= mean
    BY <1>1, <1>3
  <2> HIDE DEF a, mean
  <2>2. a \div mean \in Nat /\ a \div mean > 0
    BY <1>1, <1>3, <2>1, DivNat
  <2>3. QED
    BY <1>3, <2>2 DEF updateSamplingLength, CeilDiv, a, mean
<1>4. QED
  BY <1>2, <1>3

-----------------------------------------------------------------------------
(* Type correctness. *)

\* A record of well-typed fields is a sample.
LEMMA SampleFields ==
  ASSUME NEW l \in Nat, NEW n \in Nat, NEW t \in Nat, NEW i \in BOOLEAN
  PROVE  [latency |-> l, numTasks |-> n, sampleTime |-> t,
          inconsistent |-> i] \in SampleType
  BY DEF SampleType

LEMMA EmptySampleType == EmptySample \in SampleType
  BY SampleFields DEF EmptySample

\* Facts about the counter and the first timestamps that the types rest on:
\* the counter stays below its modulus, the length is still the default one
\* until the first begin() has taken a timestamp, between two tasks lastEnd
\* is at or after firstBegin, and terminate() is called between two tasks.
Counter ==
  /\ currentSample < samplingLength
  /\ firstBegin = 0 => samplingLength = 1 /\ computeStart = 0
  /\ firstBegin <= lastEnd \/ (inTask /\ (currentSample = 0 \/ thrown # "none"))
  /\ terminated => ~inTask

TypeInv == TypeOK /\ Counter

\* A begin() that runs to its update branch leaves well-typed values.
LEMMA UpdateTypes ==
  ASSUME TypeInv, computeStart # 0, samplingTime # 0 => numTasks > 0
  PROVE  /\ NewIdleTime \in Nat
         /\ now - Started(sampleStartTime) \in Nat
         /\ NewSamplingLength \in Nat \ {0}
<1> USE SamplingAssumption DEF TypeInv, TypeOK
<1>1. NewIdleTime \in Nat
  <2>1. (now - rcvStart) * samplingLength \in Nat
    <3> DEFINE d == now - rcvStart
    <3>1. d \in Nat /\ samplingLength \in Nat
      OBVIOUS
    <3> HIDE DEF d
    <3>2. d * samplingLength \in Nat
      BY <3>1, ProductNat
    <3>3. QED
      BY <3>2 DEF d
  <2>2. QED
    BY <2>1 DEF NewIdleTime
<1>2. now - Started(sampleStartTime) \in Nat
  BY DEF Started
<1>3. NewSamplingLength \in Nat \ {0}
  <2>1. CASE samplingTime = 0
    BY <2>1 DEF NewSamplingLength
  <2>2. CASE samplingTime # 0
    BY <2>2, <1>2, UpdatePositive DEF NewSamplingLength
  <2>3. QED
    BY <2>1, <2>2
<1>4. QED
  BY <1>1, <1>2, <1>3

\* The configuration is set once.
LEMMA ConfigurationFixed == [Next]_vars => samplingTime' = samplingTime
  BY DEF Next, Tick, BeginSkip, BeginMeasure, BeginUpdate, CallBegin, EndSkip,
     EndMeasure, CallEnd, RequestSample, CollectSample, Terminate, vars

LEMMA TypeInit == Init => TypeInv
<1> SUFFICES ASSUME Init PROVE TypeInv
  OBVIOUS
<1>1. /\ consolidate \in BOOLEAN /\ requested \in BOOLEAN
      /\ terminated \in BOOLEAN /\ inTask \in BOOLEAN
  BY Zenon DEF Init
<1>2. QED
  BY <1>1, EmptySampleType DEF Init, TypeInv, TypeOK, Counter,
     DefaultSamplingLength

\* The products of end() are natural numbers.
LEMMA EndProducts ==
  ASSUME TypeOK, NEW weight \in Weights
  PROVE  /\ (now - computeStart) * samplingLength * weight \in Nat
         /\ samplingLength * weight \in Nat
         /\ samplingLength * weight > 0
<1> DEFINE d == now - computeStart
<1>1. d \in Nat /\ samplingLength \in Nat /\ samplingLength > 0
      /\ weight \in Nat /\ weight > 0
  BY SamplingAssumption DEF TypeOK
<1> HIDE DEF d
<1>2. d * samplingLength \in Nat
  BY <1>1, ProductNat
<1> DEFINE p == d * samplingLength
<1>3. p \in Nat
  BY <1>2
<1> HIDE DEF p
<1>4. p * weight \in Nat
  BY <1>1, <1>3, ProductNat
<1>5. samplingLength * weight \in Nat /\ samplingLength * weight > 0
  BY <1>1, ProductNat
<1>6. QED
  BY <1>4, <1>5 DEF p, d

LEMMA TypeStep == TypeInv /\ [Next]_vars => TypeInv'
<1> SUFFICES ASSUME TypeInv, [Next]_vars
             PROVE  TypeInv'
  OBVIOUS
<1> USE SamplingAssumption DEF TypeInv
<1>1. CASE Tick
  BY <1>1 DEF Tick, TypeOK, Counter, sampleVars, lengthVars, timerVars,
     supportVars, endVars, beginHistory, endHistory
<1>2. CASE BeginSkip
  BY <1>2 DEF BeginSkip, CallBegin, NextSample, TypeOK, Counter, sampleVars,
     timerVars, supportVars, endVars, endHistory
<1>3. CASE BeginMeasure
  BY <1>3 DEF BeginMeasure, CallBegin, NextSample, ClosesInterval, Started,
     TypeOK, Counter, supportVars, endVars, endHistory
<1>4. CASE BeginUpdate
  <2> USE <1>4
  <2>1. /\ ~inTask /\ inTask' = TRUE /\ computeStart # 0
        /\ ~terminated /\ ~terminated'
        /\ samplingTime' = samplingTime
        /\ now' = now /\ lastEnd' = lastEnd /\ rcvStart' = rcvStart
        /\ firstBegin' = firstBegin
        /\ requested' = requested /\ reported' = reported
        /\ UNCHANGED <<endVars, totalTasks, endHistory>>
        /\ lastBeginCall' \in 0..now /\ firstBeginCall' \in 0..now
    BY DEF BeginUpdate, CallBegin, ClosesInterval, Started, TypeOK, Counter,
       endVars
  <2>2. NextSample \in Nat /\ NextSample < samplingLength
    BY DEF NextSample, TypeOK, Counter
  <2>3. CASE samplingTime # 0 /\ numTasks = 0
    <3>1. NewIdleTime \in Nat
      <4> DEFINE d == now - rcvStart
      <4>1. d \in Nat /\ samplingLength \in Nat
        BY DEF TypeOK
      <4> HIDE DEF d
      <4>2. d * samplingLength \in Nat
        BY <4>1, ProductNat
      <4>3. QED
        BY <4>2 DEF NewIdleTime, TypeOK, d
    <3>2. QED
      BY <2>1, <2>2, <2>3, <3>1 DEF BeginUpdate, Throw, Started, TypeOK,
         Counter, endVars, endHistory
  <2>4. CASE ~(samplingTime # 0 /\ numTasks = 0)
    <3>1. /\ NewIdleTime \in Nat
          /\ now - Started(sampleStartTime) \in Nat
          /\ NewSamplingLength \in Nat \ {0}
      <4>1. samplingTime # 0 => numTasks > 0
        BY <2>4 DEF TypeOK
      <4>2. QED
        BY <4>1, <2>1, UpdateTypes
    <3>2. AlignedSample(NextSample, samplingLength, NewSamplingLength) \in Nat
          /\ AlignedSample(NextSample, samplingLength, NewSamplingLength)
               < NewSamplingLength
      BY <2>2, <3>1 DEF AlignedSample, TypeOK, BeginUpdate
    <3>3. CASE consolidate
      <4>1. StoreSample
        BY <2>4, <3>3 DEF BeginUpdate
      <4>2. consolidatedSample' \in SampleType
        <5> DEFINE t == now - Started(sampleStartTime)
                   i == Inconsistent(t, latency + NewIdleTime) /\ samplingTime # 0
        <5>1. latency \in Nat /\ numTasks \in Nat /\ t \in Nat /\ i \in BOOLEAN
          BY <3>1 DEF TypeOK, Inconsistent
        <5>2. consolidatedSample' = [latency |-> latency, numTasks |-> numTasks,
                                     sampleTime |-> t, inconsistent |-> i]
          BY <4>1 DEF StoreSample
        <5> HIDE DEF t, i
        <5>3. QED
          BY <5>1, <5>2, SampleFields
      <4>3. \/ Throw("inconsistency")
            \/ /\ latency' = 0 /\ numTasks' = 0 /\ idleTime' = 0
               /\ sampleStartTime' = now
               /\ consolidate' = FALSE
               /\ FinishUpdate
        BY <4>1 DEF StoreSample
      <4>4. consolidate' \in BOOLEAN
        BY <4>3, Zenon DEF Throw, TypeOK
      <4>5. QED
        BY <2>1, <2>2, <3>1, <3>2, <4>2, <4>3, <4>4 DEF FinishUpdate, Throw,
           Started, TypeOK, Counter, endVars, endHistory
    <3>4. CASE ~consolidate
      <4>1. KeepSample
        BY <2>4, <3>4 DEF BeginUpdate
      <4>2. QED
        BY <2>1, <2>2, <3>1, <3>2, <4>1 DEF KeepSample, FinishUpdate,
           Started, TypeOK, Counter, endVars, endHistory
    <3>5. QED
      BY <3>3, <3>4
  <2>5. QED
    BY <2>3, <2>4
<1>5. ASSUME NEW weight \in Weights, EndSkip(weight)
      PROVE  TypeInv'
  <2>1. weight \in Nat
    OBVIOUS
  <2>2. inTask' \in BOOLEAN
    BY <1>5, Zenon DEF EndSkip, CallEnd
  <2>3. QED
    BY <1>5, <2>1, <2>2 DEF EndSkip, CallEnd, TypeOK, Counter, sampleVars, timerVars,
       lengthVars, supportVars, endVars, beginHistory
<1>6. ASSUME NEW weight \in Weights, EndMeasure(weight)
      PROVE  TypeInv'
  <2>1. /\ (now - computeStart) * samplingLength * weight \in Nat
        /\ samplingLength * weight \in Nat
    BY EndProducts
  <2> DEFINE l == (now - computeStart) * samplingLength * weight
             n == samplingLength * weight
  <2>2. /\ latency' = latency + l
        /\ numTasks' = numTasks + n
        /\ totalTasks' = totalTasks + n
        /\ done' = done + weight /\ weight \in Nat
    BY <1>6 DEF EndMeasure, CallEnd
  <2>3. l \in Nat /\ n \in Nat
    BY <2>1
  <2> HIDE DEF l, n
  <2>4. /\ latency' \in Nat /\ numTasks' \in Nat /\ totalTasks' \in Nat
        /\ done' \in Nat
    BY <2>2, <2>3 DEF TypeOK
  <2>5. inTask' \in BOOLEAN
    BY <1>6, Zenon DEF EndMeasure, CallEnd
  <2>6. QED
    BY <1>6, <2>4, <2>5 DEF EndMeasure, CallEnd, TypeOK, Counter, lengthVars,
       supportVars, endVars, beginHistory
<1>7. CASE RequestSample
  BY <1>7 DEF RequestSample, TypeOK, Counter, sampleVars, lengthVars,
     timerVars, endVars, beginHistory, endHistory
<1>8. CASE CollectSample
  <2>1. requested' \in BOOLEAN
    BY <1>8, Zenon DEF CollectSample
  <2>2. consolidatedSample.numTasks \in Nat
    BY DEF TypeOK, SampleType
  <2>3. QED
    BY <1>8, <2>1, <2>2, EmptySampleType DEF CollectSample, TypeOK, Counter,
       sampleVars, lengthVars, timerVars, endVars, beginHistory, endHistory
<1>9. CASE Terminate
  BY <1>9 DEF Terminate, TypeOK, Counter, sampleVars, lengthVars, timerVars,
     supportVars, beginHistory, endHistory
<1>10. CASE UNCHANGED vars
  BY <1>10 DEF vars, TypeOK, Counter, sampleVars, lengthVars, timerVars,
     supportVars, endVars, beginHistory, endHistory
<1>11. QED
  BY <1>1, <1>2, <1>3, <1>4, <1>5, <1>6, <1>7, <1>8, <1>9, <1>10 DEF Next

\* The types hold in every reachable state: in particular the sampling length
\* never becomes 0 and terminate() never subtracts a later firstBegin from an
\* earlier lastEnd.
THEOREM TypeCorrect == Spec => []TypeOK
<1>1. Init => TypeInv
  BY TypeInit
<1>2. TypeInv /\ [Next]_vars => TypeInv'
  BY TypeStep
<1>3. TypeInv => TypeOK
  BY DEF TypeInv
<1>4. QED
  BY <1>1, <1>2, <1>3, PTL DEF Spec

-----------------------------------------------------------------------------
(* Counted tasks are reported exactly once. *)

\* The consolidated sample holds tasks only while the support thread's request
\* is answered but not yet collected, so begin() never overwrites one that
\* nobody read.
Ledger ==
  /\ ReportConservation
  /\ thrown = "none" =>
       /\ consolidate => requested
       /\ consolidate \/ ~requested => consolidatedSample.numTasks = 0

LEMMA LedgerStep == TypeInv /\ Ledger /\ [Next]_vars => Ledger'
<1> SUFFICES ASSUME TypeInv, Ledger, [Next]_vars
             PROVE  Ledger'
  OBVIOUS
<1> USE DEF TypeInv, Ledger, ReportConservation
<1>0. consolidatedSample.numTasks \in Nat
  BY DEF TypeOK, SampleType
<1>1. CASE Tick
  BY <1>1 DEF Tick, sampleVars, supportVars, endVars
<1>2. CASE BeginSkip
  BY <1>2 DEF BeginSkip, CallBegin, sampleVars, supportVars, endVars
<1>3. CASE BeginMeasure
  BY <1>3 DEF BeginMeasure, CallBegin, supportVars, endVars
<1>4. CASE BeginUpdate
  <2>1. /\ UNCHANGED <<totalTasks, terminated, requested, reported>>
        /\ thrown = "none"
        /\ \/ Throw("noTasks")
           \/ consolidate /\ StoreSample
           \/ KeepSample
    BY <1>4 DEF BeginUpdate, CallBegin, endVars
  <2>2. CASE thrown' # "none"
    BY <2>2
  <2>3. CASE consolidate /\ StoreSample /\ thrown' = "none"
    <3>1. /\ consolidatedSample'.numTasks = numTasks
          /\ numTasks' = 0 /\ ~consolidate'
      BY <2>3 DEF StoreSample, Throw
    <3>2. QED
      BY <1>0, <2>1, <2>3, <3>1 DEF TypeOK
  <2>4. CASE KeepSample
    BY <2>1, <2>4 DEF KeepSample
  <2>5. QED
    BY <2>1, <2>2, <2>3, <2>4 DEF Throw
<1>5. ASSUME NEW weight \in Weights, EndSkip(weight)
      PROVE  Ledger'
  BY <1>5 DEF EndSkip, CallEnd, sampleVars, supportVars, endVars
<1>6. ASSUME NEW weight \in Weights, EndMeasure(weight)
      PROVE  Ledger'
  <2> DEFINE n == samplingLength * weight
  <2>1. n \in Nat
    BY EndProducts
  <2>2. numTasks' = numTasks + n /\ totalTasks' = totalTasks + n
    BY <1>6 DEF EndMeasure
  <2> HIDE DEF n
  <2>3. QED
    BY <1>0, <1>6, <2>1, <2>2 DEF EndMeasure, CallEnd, supportVars, endVars,
       TypeOK
<1>7. CASE RequestSample
  BY <1>7 DEF RequestSample, sampleVars, endVars
<1>8. CASE CollectSample
  <2>1. consolidatedSample'.numTasks = 0
    BY <1>8 DEF CollectSample, EmptySample
  <2>2. QED
    BY <1>0, <1>8, <2>1 DEF CollectSample, sampleVars, endVars, TypeOK
<1>9. CASE Terminate
  BY <1>9 DEF Terminate, sampleVars, supportVars
<1>10. CASE UNCHANGED vars
  BY <1>10 DEF vars, sampleVars, supportVars, endVars
<1>11. QED
  BY <1>1, <1>2, <1>3, <1>4, <1>5, <1>6, <1>7, <1>8, <1>9, <1>10 DEF Next

\* No interleaving of begin()/end() with the support thread's requests loses a
\* counted task or reports one twice, for all weights and sampling times.
THEOREM TasksReportedOnce == Spec => []ReportConservation
<1>1. Init => TypeInv /\ Ledger
  <2>1. Init => TypeInv
    BY TypeInit
  <2>2. Init => Ledger
    BY DEF Init, Ledger, ReportConservation, EmptySample
  <2>3. QED
    BY <2>1, <2>2
<1>2. (TypeInv /\ Ledger) /\ [Next]_vars => (TypeInv /\ Ledger)'
  BY TypeStep, LedgerStep
<1>3. TypeInv /\ Ledger => ReportConservation
  BY DEF Ledger
<1>4. QED
  BY <1>1, <1>2, <1>3, PTL DEF Spec

-----------------------------------------------------------------------------
(* The timers measure single tasks and gaps. *)

Timers ==
  thrown = "none" =>
    /\ inTask /\ currentSample = 0 => computeStart = lastBeginCall
    /\ ~inTask /\ currentSample = 0 /\ computeStart # 0 =>
         rcvStart = lastEndCall /\ numTasks > 0

\* An interval is closed only right after an end() that recorded.
LEMMA ClosingCount ==
  ASSUME TypeInv, ClosesInterval
  PROVE  currentSample = 0 /\ computeStart # 0
  BY DEF TypeInv, TypeOK, Counter, ClosesInterval, NextSample

LEMMA TimersStep == TypeInv /\ Timers /\ [Next]_vars => Timers'
<1> SUFFICES ASSUME TypeInv, Timers, [Next]_vars
             PROVE  Timers'
  OBVIOUS
<1> USE DEF Timers
<1>1. CASE Tick
  BY <1>1 DEF Tick, sampleVars, lengthVars, timerVars, beginHistory, endHistory
<1>2. CASE BeginSkip
  BY <1>2 DEF BeginSkip, CallBegin, NextSample, TypeInv, TypeOK, timerVars
<1>3. CASE BeginMeasure
  BY <1>3 DEF BeginMeasure, CallBegin
<1>4. CASE BeginUpdate
  <2>1. inTask' /\ lastBeginCall' = now
    BY <1>4 DEF BeginUpdate, CallBegin
  <2>2. thrown' = "none" => computeStart' = now
    BY <1>4 DEF BeginUpdate, CallBegin, StoreSample, KeepSample, FinishUpdate,
       Throw
  <2>3. QED
    BY <2>1, <2>2
<1>5. ASSUME NEW weight \in Weights, EndSkip(weight)
      PROVE  Timers'
  BY <1>5 DEF EndSkip, CallEnd, lengthVars
<1>6. ASSUME NEW weight \in Weights, EndMeasure(weight)
      PROVE  Timers'
  <2> DEFINE n == samplingLength * weight
  <2>1. n \in Nat /\ n > 0
    BY EndProducts DEF TypeInv
  <2>2. numTasks' = numTasks + n
    BY <1>6 DEF EndMeasure
  <2> HIDE DEF n
  <2>3. numTasks' > 0
    BY <2>1, <2>2 DEF TypeInv, TypeOK
  <2>4. QED
    BY <1>6, <2>3 DEF EndMeasure, CallEnd
<1>7. CASE RequestSample
  BY <1>7 DEF RequestSample, sampleVars, lengthVars, timerVars, beginHistory,
     endHistory
<1>8. CASE CollectSample
  BY <1>8 DEF CollectSample, sampleVars, lengthVars, timerVars, beginHistory,
     endHistory
<1>9. CASE Terminate
  BY <1>9 DEF Terminate, sampleVars, lengthVars, timerVars, beginHistory,
     endHistory
<1>10. CASE UNCHANGED vars
  BY <1>10 DEF vars, sampleVars, lengthVars, timerVars, beginHistory,
     endHistory
<1>11. QED
  BY <1>1, <1>2, <1>3, <1>4, <1>5, <1>6, <1>7, <1>8, <1>9, <1>10 DEF Next

LEMMA TimersInvariant == Spec => [](TypeInv /\ Timers)
<1>1. Init => TypeInv /\ Timers
  <2>1. Init => TypeInv
    BY TypeInit
  <2>2. Init => Timers
    BY DEF Init, Timers
  <2>3. QED
    BY <2>1, <2>2
<1>2. (TypeInv /\ Timers) /\ [Next]_vars => (TypeInv /\ Timers)'
  BY TypeStep, TimersStep
<1>3. QED
  BY <1>1, <1>2, PTL DEF Spec

\* Whatever the sampling length has been, a recorded latency is that of one
\* task, a recorded gap that between two consecutive tasks, and a closed
\* interval contains a task.
THEOREM TimersAreFresh == Spec => []TimersFresh
<1>1. TypeInv /\ Timers => TimersFresh
  BY ClosingCount DEF Timers, TimersFresh
<1>2. QED
  BY <1>1, TimersInvariant, PTL

-----------------------------------------------------------------------------
(* The number of tasks is exact when each end() stands for one task. *)

LEMMA TasksStep ==
  ASSUME Weights = {1}
  PROVE  TypeInv /\ TaskConservation /\ [Next]_vars => TaskConservation'
<1> SUFFICES ASSUME TypeInv, TaskConservation, [Next]_vars
             PROVE  TaskConservation'
  OBVIOUS
<1> USE DEF TypeInv, TaskConservation, Uncounted
<1>1. CASE Tick
  BY <1>1 DEF Tick, lengthVars, endVars, endHistory
<1>2. CASE BeginSkip
  BY <1>2 DEF BeginSkip, CallBegin, NextSample, TypeOK, Counter, endVars,
     endHistory
<1>3. CASE BeginMeasure
  BY <1>3 DEF BeginMeasure, CallBegin, NextSample, ClosesInterval, TypeOK,
     Counter, endVars, endHistory
<1>4. CASE BeginUpdate
  <2>1. /\ ~inTask /\ inTask' /\ ~terminated /\ ~terminated' /\ thrown = "none"
        /\ totalTasks' = totalTasks /\ done' = done
        /\ ClosesInterval
    BY <1>4 DEF BeginUpdate, CallBegin, endVars, endHistory
  <2>2. currentSample = 0 /\ totalTasks = done
    BY <2>1, ClosingCount DEF TypeOK
  <2>3. CASE thrown' # "none"
    BY <2>3
  <2>4. CASE thrown' = "none"
    <3>1. FinishUpdate /\ (samplingTime # 0 => numTasks > 0)
      BY <1>4, <2>4 DEF BeginUpdate, StoreSample, KeepSample, Throw, TypeOK
    <3>2. NewSamplingLength \in Nat \ {0}
      BY <2>1, <3>1, UpdateTypes DEF ClosesInterval
    <3>3. \/ currentSample' = 0 /\ samplingLength' = 1
          \/ currentSample' = 1
      BY <2>1, <2>2, <3>1, <3>2 DEF FinishUpdate, AlignedSample, NextSample,
         ClosesInterval, TypeOK
    <3>4. QED
      BY <2>1, <2>2, <3>3 DEF TypeOK
  <2>5. QED
    BY <2>3, <2>4
<1>5. ASSUME NEW weight \in Weights, EndSkip(weight)
      PROVE  TaskConservation'
  BY <1>5 DEF EndSkip, CallEnd, TypeOK, Counter, lengthVars, endVars
<1>6. ASSUME NEW weight \in Weights, EndMeasure(weight)
      PROVE  TaskConservation'
  <2>1. samplingLength * weight = samplingLength /\ weight = 1
    BY DEF TypeOK
  <2>2. totalTasks' = totalTasks + samplingLength /\ done' = done + 1
    BY <1>6, <2>1 DEF EndMeasure, CallEnd
  <2>3. QED
    BY <1>6, <2>2 DEF EndMeasure, CallEnd, TypeOK, Counter, lengthVars, endVars
<1>7. CASE RequestSample
  BY <1>7 DEF RequestSample, lengthVars, endVars, endHistory
<1>8. CASE CollectSample
  BY <1>8 DEF CollectSample, lengthVars, endVars, endHistory
<1>9. CASE Terminate
  BY <1>9 DEF Terminate, lengthVars, endHistory
<1>10. CASE UNCHANGED vars
  BY <1>10 DEF vars, lengthVars, endVars, endHistory
<1>11. QED
  BY <1>1, <1>2, <1>3, <1>4, <1>5, <1>6, <1>7, <1>8, <1>9, <1>10 DEF Next

\* However the adaptive sampling moves the length, totalTasks plus the
\* position of the counter is the number of tasks that ended, so that the
\* total computed by terminate() is exact.
THEOREM TasksCounted ==
  ASSUME Weights = {1}
  PROVE  Spec => []TaskConservation
<1>1. Init => TypeInv /\ TaskConservation
  <2>1. Init => TypeInv
    BY TypeInit
  <2>2. Init => TaskConservation
    BY DEF Init, TaskConservation, Uncounted
  <2>3. QED
    BY <2>1, <2>2
<1>2. (TypeInv /\ TaskConservation) /\ [Next]_vars
        => (TypeInv /\ TaskConservation)'
  BY TypeStep, TasksStep
<1>3. QED
  BY <1>1, <1>2, PTL DEF Spec

-----------------------------------------------------------------------------
(* Exact times without sampling, and no exception. *)

Exact ==
  /\ ExactTiming
  /\ samplingLength = 1
  /\ computeStart = 0 => /\ latency = 0 /\ idleTime = 0
                         /\ sampleStartTime = 0 /\ ~inTask
  /\ computeStart # 0 => sampleStartTime # 0

\* With a length of 1 the estimate that begin() compares with the elapsed time
\* is the elapsed time.
LEMMA EstimateExact ==
  ASSUME TypeInv, Exact, samplingTime = 0, thrown = "none", ~inTask,
         computeStart # 0
  PROVE  /\ latency + NewIdleTime = now - Started(sampleStartTime)
         /\ NewIdleTime = idleTime + (now - rcvStart)
         /\ ~Inconsistent(now - Started(sampleStartTime), latency + NewIdleTime)
<1> USE DEF TypeInv, TypeOK
<1>1. NewIdleTime = idleTime + (now - rcvStart)
  BY DEF NewIdleTime, Exact
<1>2. latency + NewIdleTime = now - Started(sampleStartTime)
  BY <1>1 DEF Exact, ExactTiming, Started
<1>3. ~Inconsistent(now - Started(sampleStartTime), latency + NewIdleTime)
  <2> DEFINE t == now - Started(sampleStartTime)
  <2>1. t \in Nat
    BY DEF Started
  <2> HIDE DEF t
  <2>2. Threshold * t \in Nat
    BY <2>1, ProductNat, SamplingAssumption
  <2>3. absDiff(t, t) = 0
    BY <2>1 DEF absDiff
  <2>4. ~Inconsistent(t, t)
    BY <2>2, <2>3 DEF Inconsistent
  <2>5. QED
    BY <1>2, <2>4 DEF t
<1>4. QED
  BY <1>1, <1>2, <1>3

LEMMA ExactStep ==
  ASSUME Weights = {1}
  PROVE  samplingTime = 0 /\ TypeInv /\ Exact /\ NoException /\ [Next]_vars
           => Exact' /\ NoException'
<1> SUFFICES ASSUME samplingTime = 0, TypeInv, Exact, NoException, [Next]_vars
             PROVE  Exact' /\ NoException'
  OBVIOUS
<1> USE DEF TypeInv, Exact, ExactTiming, NoException
<1>1. CASE Tick
  BY <1>1 DEF Tick, sampleVars, lengthVars, timerVars
<1>2. CASE BeginSkip
  BY <1>2 DEF BeginSkip, NextSample, TypeOK, Counter
<1>3. CASE BeginMeasure
  <2>1. computeStart = 0
    BY <1>3 DEF BeginMeasure, ClosesInterval
  <2>2. /\ latency' = 0 /\ idleTime' = 0 /\ samplingLength' = 1 /\ inTask'
        /\ computeStart' = now /\ thrown' = "none"
        /\ sampleStartTime' = Started(sampleStartTime)
    BY <1>3, <2>1 DEF BeginMeasure, CallBegin
  <2>3. sampleStartTime = 0
    BY <2>1
  <2>4. QED
    BY <2>2, <2>3 DEF Started, TypeOK
<1>4. CASE BeginUpdate
  <2>1. ~inTask /\ inTask' /\ computeStart # 0 /\ now' = now
        /\ UNCHANGED rcvStart
    BY <1>4 DEF BeginUpdate, CallBegin, ClosesInterval
  <2>2. /\ latency + NewIdleTime = now - Started(sampleStartTime)
        /\ ~Inconsistent(now - Started(sampleStartTime), latency + NewIdleTime)
    BY <2>1, EstimateExact
  <2>3. FinishUpdate /\ samplingLength' = 1
    BY <1>4, <2>2 DEF BeginUpdate, StoreSample, KeepSample, FinishUpdate,
       NewSamplingLength
  <2>4. CASE consolidate
    <3>1. latency' = 0 /\ idleTime' = 0 /\ sampleStartTime' = now
      BY <1>4, <2>2, <2>4 DEF BeginUpdate, StoreSample
    <3>2. QED
      BY <2>1, <2>3, <3>1 DEF FinishUpdate, TypeOK
  <2>5. CASE ~consolidate
    <3>1. /\ latency' = latency /\ idleTime' = NewIdleTime
          /\ sampleStartTime' = Started(sampleStartTime)
      BY <1>4, <2>5 DEF BeginUpdate, KeepSample
    <3>2. QED
      BY <2>1, <2>2, <2>3, <3>1 DEF FinishUpdate, Started, TypeOK
  <2>6. QED
    BY <2>4, <2>5
<1>5. ASSUME NEW weight \in Weights, EndSkip(weight)
      PROVE  Exact' /\ NoException'
  BY <1>5 DEF EndSkip, TypeOK, Counter
<1>6. ASSUME NEW weight \in Weights, EndMeasure(weight)
      PROVE  Exact' /\ NoException'
  <2>1. (now - computeStart) * samplingLength * weight = now - computeStart
    BY DEF TypeOK
  <2>2. latency' = latency + (now - computeStart)
    BY <1>6, <2>1 DEF EndMeasure
  <2>3. inTask /\ ~inTask' /\ UNCHANGED thrown /\ UNCHANGED samplingLength
    BY <1>6 DEF EndMeasure, CallEnd, lengthVars
  <2>4. rcvStart' = now /\ UNCHANGED <<idleTime, sampleStartTime, computeStart>>
    BY <1>6 DEF EndMeasure
  <2>5. QED
    BY <2>2, <2>3, <2>4 DEF TypeOK
<1>7. CASE RequestSample
  BY <1>7 DEF RequestSample, sampleVars, lengthVars, timerVars
<1>8. CASE CollectSample
  BY <1>8 DEF CollectSample, sampleVars, lengthVars, timerVars
<1>9. CASE Terminate
  BY <1>9 DEF Terminate, sampleVars, lengthVars, timerVars
<1>10. CASE UNCHANGED vars
  BY <1>10 DEF vars, sampleVars, lengthVars, timerVars
<1>11. QED
  BY <1>1, <1>2, <1>3, <1>4, <1>5, <1>6, <1>7, <1>8, <1>9, <1>10 DEF Next

\* With sampling a begin() that closes an interval finds a recorded task.
LEMMA SamplingStep ==
  samplingTime # 0 /\ TypeInv /\ Timers /\ NoException /\ [Next]_vars
    => NoException'
<1> SUFFICES ASSUME samplingTime # 0, TypeInv, Timers, NoException, [Next]_vars
             PROVE  NoException'
  OBVIOUS
<1> USE DEF NoException
<1>1. CASE BeginUpdate
  <2>1. ~inTask /\ ClosesInterval /\ computeStart # 0
    BY <1>1 DEF BeginUpdate, CallBegin, ClosesInterval
  <2>2. numTasks > 0
    BY <2>1, ClosingCount DEF Timers
  <2>3. QED
    BY <1>1, <2>2 DEF BeginUpdate, StoreSample, KeepSample, FinishUpdate,
       TypeInv, TypeOK
<1>2. CASE ~BeginUpdate
  BY <1>2 DEF Next, Tick, BeginSkip, BeginMeasure, EndSkip, EndMeasure,
     CallEnd, RequestSample, CollectSample, Terminate, vars
<1>3. QED
  BY <1>1, <1>2

\* Without sampling the times are exact; with and without it begin() does not
\* throw.
ThrowInv ==
  /\ TypeInv /\ Timers /\ NoException
  /\ samplingTime = 0 => Exact

LEMMA ThrowInvariant ==
  ASSUME Weights = {1}
  PROVE  Spec => []ThrowInv
<1>1. Init => ThrowInv
  <2>1. Init => TypeInv
    BY TypeInit
  <2>2. Init => Timers /\ NoException
    BY DEF Init, Timers, NoException
  <2>3. Init => Exact
    BY DEF Init, Exact, ExactTiming, DefaultSamplingLength
  <2>4. QED
    BY <2>1, <2>2, <2>3 DEF ThrowInv
<1>2. ThrowInv /\ [Next]_vars => ThrowInv'
  <2> SUFFICES ASSUME ThrowInv, [Next]_vars PROVE ThrowInv'
    OBVIOUS
  <2>1. TypeInv' /\ Timers'
    BY TypeStep, TimersStep DEF ThrowInv
  <2>2. samplingTime' = samplingTime
    BY ConfigurationFixed
  <2>3. CASE samplingTime = 0
    BY <2>1, <2>3, ExactStep DEF ThrowInv
  <2>4. CASE samplingTime # 0
    BY <2>1, <2>2, <2>4, SamplingStep DEF ThrowInv
  <2>5. QED
    BY <2>3, <2>4
<1>3. QED
  BY <1>1, <1>2, PTL DEF Spec

\* Without sampling latency and idle time add up to the elapsed time.
THEOREM TimesAddUp ==
  ASSUME Weights = {1}
  PROVE  Spec => []ExactTiming
<1>1. ThrowInv => ExactTiming
  BY DEF ThrowInv, Exact, ExactTiming
<1>2. QED
  BY <1>1, ThrowInvariant, PTL

\* With weight 1, begin() throws neither of its exceptions in a program that
\* pairs begin() and end(), with sampling and without.
THEOREM BeginNeverThrows ==
  ASSUME Weights = {1}
  PROVE  Spec => []NoException
<1>1. ThrowInv => NoException
  BY DEF ThrowInv
<1>2. QED
  BY <1>1, ThrowInvariant, PTL

-----------------------------------------------------------------------------
(* The load of a consistent sample. *)

\* The consistency check bounds the latency of the sample it lets through.
LEMMA ConsistentLatency ==
  ASSUME NEW t \in Nat, NEW l \in Nat, NEW i \in Nat, ~Inconsistent(t, l + i)
  PROVE  l * 100 <= (100 + Threshold) * t
<1>1. Threshold * t \in Nat
  BY ProductNat, SamplingAssumption
<1>2. (100 + Threshold) * t = 100 * t + Threshold * t
  BY SamplingAssumption
<1> DEFINE p == Threshold * t
<1>3. (l + i - t) * 100 <= p
  BY <1>1, SamplingAssumption DEF Inconsistent, absDiff
<1> HIDE DEF p
<1>4. p \in Nat
  BY <1>1 DEF p
<1>5. l * 100 <= 100 * t + p
  BY <1>3, <1>4
<1>6. QED
  BY <1>2, <1>5 DEF p

LEMMA LoadStep ==
  TypeInv /\ LoadWithinThreshold /\ [Next]_vars => LoadWithinThreshold'
<1> SUFFICES ASSUME TypeInv, LoadWithinThreshold, [Next]_vars
             PROVE  LoadWithinThreshold'
  OBVIOUS
<1>1. CASE consolidatedSample' = consolidatedSample /\ thrown' = thrown
  BY <1>1 DEF LoadWithinThreshold
<1>2. CASE BeginUpdate
  <2>1. CASE consolidatedSample' = consolidatedSample
    <3>1. thrown = "none"
      BY <1>2 DEF BeginUpdate, CallBegin
    <3>2. QED
      BY <2>1, <3>1 DEF LoadWithinThreshold
  <2>2. CASE StoreSample /\ ~(samplingTime # 0 /\ numTasks = 0)
    <3> DEFINE t == now - Started(sampleStartTime)
               gap == Inconsistent(t, latency + NewIdleTime)
    <3>1. /\ consolidatedSample'.latency = latency
          /\ consolidatedSample'.sampleTime = t
          /\ consolidatedSample'.inconsistent = (gap /\ samplingTime # 0)
          /\ gap /\ samplingTime = 0 => thrown' = "inconsistency"
      BY <2>2 DEF StoreSample, Throw
    <3>2. CASE gap
      BY <3>1, <3>2 DEF LoadWithinThreshold
    <3>3. CASE ~gap
      <4>1. latency \in Nat /\ t \in Nat /\ NewIdleTime \in Nat
        <5>1. computeStart # 0 /\ (samplingTime # 0 => numTasks > 0)
          BY <1>2, <2>2 DEF BeginUpdate, ClosesInterval, TypeInv, TypeOK
        <5>2. QED
          BY <5>1, UpdateTypes DEF TypeInv, TypeOK
      <4>2. latency * 100 <= (100 + Threshold) * t
        BY <3>3, <4>1, ConsistentLatency
      <4>3. QED
        BY <3>1, <4>2 DEF LoadWithinThreshold
    <3>4. QED
      BY <3>2, <3>3
  <2>3. QED
    BY <1>2, <2>1, <2>2 DEF BeginUpdate, KeepSample
<1>3. CASE CollectSample
  <2>1. consolidatedSample'.latency = 0 /\ consolidatedSample'.sampleTime = 0
    BY <1>3 DEF CollectSample, EmptySample
  <2>2. QED
    BY <2>1, SamplingAssumption DEF LoadWithinThreshold
<1>4. QED
  BY <1>1, <1>2, <1>3 DEF Next, Tick, BeginSkip, BeginMeasure, EndSkip,
     EndMeasure, CallEnd, RequestSample, Terminate, supportVars, vars

\* A sample that is not marked inconsistent carries a load of at most
\* 100 + Threshold percent.
THEOREM LoadBounded == Spec => []LoadWithinThreshold
<1>1. Init => TypeInv /\ LoadWithinThreshold
  <2>1. Init => TypeInv
    BY TypeInit
  <2>2. Init => LoadWithinThreshold
    BY SamplingAssumption DEF Init, LoadWithinThreshold, EmptySample
  <2>3. QED
    BY <2>1, <2>2
<1>2. (TypeInv /\ LoadWithinThreshold) /\ [Next]_vars
        => (TypeInv /\ LoadWithinThreshold)'
  BY TypeStep, LoadStep
<1>3. QED
  BY <1>1, <1>2, PTL DEF Spec

-----------------------------------------------------------------------------
(* What the documentation says of load and execution time holds without     *)
(* sampling.                                                                *)

\* Latency and idle time of a stored sample add up to the time it covers.
LEMMA RangeStep ==
  ThrowInv /\ LoadWithoutSampling /\ [Next]_vars => LoadWithoutSampling'
<1> SUFFICES ASSUME samplingTime = 0, TypeInv, Exact, NoException,
                    LoadInDocumentedRange, [Next]_vars
             PROVE  LoadInDocumentedRange'
  BY ConfigurationFixed DEF ThrowInv, LoadWithoutSampling
<1>1. CASE consolidatedSample' = consolidatedSample
  BY <1>1 DEF LoadInDocumentedRange
<1>2. CASE BeginUpdate
  <2>1. CASE ~consolidate
    BY <1>1, <1>2, <2>1 DEF BeginUpdate, KeepSample
  <2>2. CASE consolidate
    <3> DEFINE t == now - Started(sampleStartTime)
    <3>1. ~inTask /\ computeStart # 0
      BY <1>2 DEF BeginUpdate, CallBegin, ClosesInterval
    <3>2. latency + NewIdleTime = t
      BY <3>1, EstimateExact DEF NoException
    <3>3. latency \in Nat /\ t \in Nat /\ NewIdleTime \in Nat
      BY <3>1, UpdateTypes DEF TypeInv, TypeOK
    <3>4. consolidatedSample'.latency = latency /\ consolidatedSample'.sampleTime = t
      BY <1>2, <2>2 DEF BeginUpdate, StoreSample
    <3> HIDE DEF t
    <3>5. latency <= t
      BY <3>2, <3>3
    <3>6. QED
      BY <3>4, <3>5 DEF LoadInDocumentedRange
  <2>3. QED
    BY <2>1, <2>2
<1>3. CASE CollectSample
  BY <1>3 DEF CollectSample, EmptySample, LoadInDocumentedRange
<1>4. QED
  BY <1>1, <1>2, <1>3 DEF Next, Tick, BeginSkip, BeginMeasure, EndSkip,
     EndMeasure, CallEnd, RequestSample, Terminate, supportVars, vars

\* riff.hpp's range of loadPercentage, [0, 100]: a sample's latency is at most
\* the time it covers when every task is measured.  With sampling LoadBounded
\* is all that holds.
THEOREM LoadDocumented ==
  ASSUME Weights = {1}
  PROVE  Spec => []LoadWithoutSampling
<1>1. Init => LoadWithoutSampling
  BY DEF Init, LoadWithoutSampling, LoadInDocumentedRange, EmptySample
<1>2. ThrowInv /\ LoadWithoutSampling /\ [Next]_vars => LoadWithoutSampling'
  BY RangeStep
<1>3. QED
  BY <1>1, <1>2, ThrowInvariant, PTL DEF Spec

\* With a length of 1 every call of begin() and end() leaves its time.
Spans ==
  /\ samplingLength = 1
  /\ firstBegin = firstBeginCall /\ lastEnd = lastEndCall
  /\ terminated => ~inTask /\ executionTime = lastEnd - firstBegin

\* Every begin() and end() passes its measuring branch.
LEMMA SpansStep ==
  samplingTime = 0 /\ TypeInv /\ Spans /\ [Next]_vars => Spans'
<1> SUFFICES ASSUME samplingTime = 0, TypeInv, Spans, [Next]_vars PROVE Spans'
  OBVIOUS
<1>0. currentSample = 0 /\ NextSample = 0
  BY DEF TypeInv, TypeOK, Counter, Spans, NextSample
<1>1. CASE BeginSkip
  BY <1>0, <1>1 DEF BeginSkip
<1>2. CASE BeginMeasure
  BY <1>2 DEF BeginMeasure, CallBegin, endVars, endHistory, Started, Spans
<1>3. CASE BeginUpdate
  <2>1. samplingLength' = 1
    BY <1>3 DEF BeginUpdate, StoreSample, KeepSample, Throw, FinishUpdate,
       NewSamplingLength, Spans
  <2>2. firstBegin' = firstBeginCall' /\ UNCHANGED <<lastEnd, lastEndCall, terminated>>
        /\ ~terminated
    BY <1>3 DEF BeginUpdate, CallBegin, endVars, endHistory, Started, Spans
  <2>3. QED
    BY <2>1, <2>2 DEF Spans
<1>4. ASSUME NEW weight \in Weights, EndSkip(weight) PROVE Spans'
  BY <1>0, <1>4 DEF EndSkip
<1>5. ASSUME NEW weight \in Weights, EndMeasure(weight) PROVE Spans'
  BY <1>5 DEF EndMeasure, CallEnd, beginHistory, endVars, lengthVars, Spans
<1>6. CASE Terminate
  BY <1>6 DEF Terminate, lengthVars, timerVars, beginHistory, endHistory, Spans
<1>7. CASE Tick \/ RequestSample \/ CollectSample \/ UNCHANGED vars
  BY <1>7 DEF Tick, RequestSample, CollectSample, vars, lengthVars, timerVars, endVars,
     beginHistory, endHistory, Spans
<1>8. QED
  BY <1>1, <1>2, <1>3, <1>4, <1>5, <1>6, <1>7 DEF Next

\* getExecutionTime() is "from the first call of begin() to the last call of
\* end()" when every task is measured, whatever the weights.
THEOREM ExecutionTimeDocumented == Spec => []ExecutionTimeSpansCalls
<1> DEFINE Inv == TypeInv /\ (samplingTime = 0 => Spans)
<1>1. Init => Inv
  <2>1. Init => TypeInv
    BY TypeInit
  <2>2. Init => Spans
    BY DEF Init, Spans, DefaultSamplingLength
  <2>3. QED
    BY <2>1, <2>2
<1>2. Inv /\ [Next]_vars => Inv'
  BY TypeStep, SpansStep, ConfigurationFixed
<1>3. Inv => ExecutionTimeSpansCalls
  BY DEF Spans, ExecutionTimeSpansCalls
<1>4. QED
  BY <1>1, <1>2, <1>3, PTL DEF Spec
=============================================================================
