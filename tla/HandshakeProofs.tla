--------------------------- MODULE HandshakeProofs ---------------------------
(***************************************************************************)
(* The handshake over the consolidate flags, for every number of threads:  *)
(* the support thread never touches a sample that its thread is writing,   *)
(* never adds an empty one, never throws, and sends no incomplete answer;  *)
(* flag and samples together implement the mailboxes of module Handover.   *)
(***************************************************************************)
EXTENDS RiffProofs

USE DEF FirstCheck, SecondCheck, TasksAfterStore, SupportJoined

\* begin() between its unprotected test of _started and the update.
InBegin == {"lock", "notify", "started", "unlock", "update"}

\* The counter of thread t is within its sampling interval, and a thread that
\* is about to close an interval, or is closing one, has counted tasks.
CountingInv(t) ==
  /\ currentSample[t] < samplingLength[t]
  /\ pc[t] \in {"idle", "finished"} /\ begun[t] /\ currentSample[t] = 0 =>
       numTasks[t] > 0
  /\ pc[t] \in InBegin /\ ClosesInterval(t) => numTasks[t] > 0
  /\ pc[t] \in {"store", "lower"} => ClosesInterval(t)

\* From finding the request to lowering the flag, the sample is t's own.
OwnershipInv(t) ==
  /\ pc[t] = "store" => consolidate[t] /\ numTasks[t] > 0
  /\ pc[t] = "lower" => consolidate[t] /\ consolidatedSample[t] > 0

ThreadInv == \A t \in Threads : CountingInv(t) /\ OwnershipInv(t)

\* What the support thread has collected so far, unless terminate() has
\* interrupted it.
ProgressInv ==
  /\ support.pc # "failed"
  /\ support.pc = "raise" => support.updated = 0
  /\ support.pc \in {"wait", "collect"} =>
       support.updated = support.i \/ supportStop
  /\ support.pc = "collect" => ~consolidate[support.i] \/ supportStop
  /\ support.pc \in {"aggregate", "phase", "threads", "decide"} =>
       support.updated = NumThreads \/ supportStop
  /\ support.pc = "send" => support.updated = NumThreads

\* A thread whose flag the support thread has raised, and that has lowered it
\* again, has left a sample that is not empty.
StoredInv ==
  \A t \in Threads :
    (support.pc = "raise" /\ t < support.i)
      \/ (support.pc \in {"wait", "collect"} /\ t >= support.i)
    => consolidate[t] \/ consolidatedSample[t] > 0

AnswersInv ==
  \A k \in DOMAIN inbox["mon"] :
    inbox["mon"][k].type = "RES" => inbox["mon"][k].threads = NumThreads

HandshakeInv == ThreadInv /\ ProgressInv /\ StoredInv /\ AnswersInv

-----------------------------------------------------------------------------
(* The invariant of the application threads. *)

\* A step leaves alone everything that the invariant says of thread u.
SameCounting(u) ==
  /\ currentSample'[u] = currentSample[u]
  /\ samplingLength'[u] = samplingLength[u]
  /\ begun'[u] = begun[u]
  /\ numTasks'[u] = numTasks[u]
  /\ pc'[u] = pc[u]

SameHandshake(u) ==
  /\ consolidatedSample'[u] = consolidatedSample[u]
  /\ consolidate'[u] = consolidate[u]

LEMMA SameThreadInv ==
  ASSUME NEW u \in Threads, CountingInv(u), OwnershipInv(u),
         SameCounting(u), SameHandshake(u)
  PROVE  CountingInv(u)' /\ OwnershipInv(u)'
  BY DEF CountingInv, OwnershipInv, SameCounting, SameHandshake, ClosesInterval,
     InBegin

\* A step of thread t touches no other thread's fields.
LEMMA OthersUntouched ==
  ASSUME TypeOK, NEW t \in Threads, NEW u \in Threads, u # t, ApplicationThread(t)
  PROVE  SameCounting(u) /\ SameHandshake(u)
<1> USE DEF SameCounting, SameHandshake, samplingVars, handshakeVars, Goto
<1>1. /\ currentSample \in [Threads -> Nat]
      /\ samplingLength \in [Threads -> Nat \ {0}]
      /\ begun \in [Threads -> BOOLEAN]
      /\ numTasks \in [Threads -> Nat]
      /\ consolidatedSample \in [Threads -> Nat]
      /\ consolidate \in [Threads -> BOOLEAN]
  BY DEF TypeOK, SamplingTypes, HandshakeTypes
<1>2. ASSUME NEW label, Goto(t, label)
      PROVE  pc'[u] = pc[u]
  BY <1>2 DEF TypeOK, ThreadTypes
<1>3. ASSUME NEW length, FinishBegin(t, length)
      PROVE  /\ currentSample'[u] = currentSample[u]
             /\ samplingLength'[u] = samplingLength[u]
             /\ begun'[u] = begun[u] /\ pc'[u] = pc[u]
  BY <1>1, <1>2, <1>3 DEF FinishBegin
<1>4. CASE Begin(t)
  BY <1>1, <1>2, <1>4 DEF Begin
<1>5. CASE Lock(t)
  BY <1>2, <1>5 DEF Lock
<1>6. CASE notifyStart(t)
  BY <1>2, <1>6 DEF notifyStart
<1>7. CASE SetStarted(t)
  BY <1>2, <1>7 DEF SetStarted
<1>8. CASE Unlock(t)
  BY <1>2, <1>8 DEF Unlock
<1>9. CASE StartTimer(t)
  BY <1>3, <1>9 DEF StartTimer
<1>10. CASE Update(t)
  BY <1>3, <1>10 DEF Update
<1>11. CASE FindRequest(t)
  BY <1>2, <1>11 DEF FindRequest
<1>12. CASE StoreSample(t)
  BY <1>1, <1>2, <1>12 DEF StoreSample
<1>13. CASE LowerFlag(t)
  BY <1>1, <1>3, <1>13 DEF LowerFlag
<1>14. CASE End(t)
  BY <1>1, <1>2, <1>14 DEF End
<1>15. CASE Finish(t)
  BY <1>2, <1>15 DEF Finish
<1>16. QED
  BY <1>4, <1>5, <1>6, <1>7, <1>8, <1>9, <1>10, <1>11, <1>12, <1>13, <1>14,
     <1>15 DEF ApplicationThread

\* The end of begin() leaves the counter within the new interval.
LEMMA FinishCounting ==
  ASSUME TypeOK, NEW t \in Threads, NEW length \in Nat \ {0},
         FinishBegin(t, length), currentSample[t] < samplingLength[t],
         ClosesInterval(t) \/ length = samplingLength[t]
  PROVE  CountingInv(t)' /\ OwnershipInv(t)'
<1>1. pc'[t] = "task"
  BY DEF FinishBegin, Goto, TypeOK, ThreadTypes
<1>2. currentSample[t] \in Nat /\ samplingLength[t] \in Nat \ {0}
  BY DEF TypeOK, SamplingTypes
<1>3. /\ samplingLength'[t] = length
      /\ currentSample'[t] =
           IF samplingLength[t] = 1 /\ length > 1 THEN 1
           ELSE IF samplingLength[t] > 1 /\ length = 1 THEN 0
           ELSE currentSample[t]
  BY DEF FinishBegin, TypeOK, SamplingTypes
<1>4. currentSample'[t] < samplingLength'[t]
  BY <1>2, <1>3 DEF ClosesInterval
<1>5. QED
  BY <1>1, <1>4 DEF CountingInv, OwnershipInv, InBegin

LEMMA ThreadStepOwn ==
  ASSUME TypeOK, NEW t \in Threads, CountingInv(t), OwnershipInv(t),
         ApplicationThread(t)
  PROVE  CountingInv(t)' /\ OwnershipInv(t)'
<1>1. /\ currentSample \in [Threads -> Nat]
      /\ samplingLength \in [Threads -> Nat \ {0}]
      /\ begun \in [Threads -> BOOLEAN]
      /\ numTasks \in [Threads -> Nat]
      /\ consolidatedSample \in [Threads -> Nat]
      /\ consolidate \in [Threads -> BOOLEAN]
  BY DEF TypeOK, SamplingTypes, HandshakeTypes
<1>2. ASSUME NEW label, Goto(t, label)
      PROVE  pc'[t] = label
  BY <1>2 DEF Goto, TypeOK, ThreadTypes
<1>3. CASE Begin(t)
  <2>1. /\ pc[t] = "idle" /\ currentSample'[t] = NextSample(t)
        /\ UNCHANGED <<samplingLength, begun, numTasks>>
        /\ pc'[t] \in {"task", "update", "lock"}
    BY <1>1, <1>2, <1>3 DEF Begin
  <2>2. NextSample(t) < samplingLength[t]
    BY <1>1 DEF NextSample
  <2>3. begun[t] /\ (NextSample(t) = 1 \/ samplingLength[t] = 1) => numTasks[t] > 0
    BY <1>1, <2>1 DEF NextSample, CountingInv
  <2>4. QED
    BY <2>1, <2>2, <2>3 DEF CountingInv, OwnershipInv, ClosesInterval, InBegin
<1>4. ASSUME NEW label \in InBegin, Goto(t, label), pc[t] \in InBegin,
             UNCHANGED <<samplingVars, handshakeVars>>
      PROVE  CountingInv(t)' /\ OwnershipInv(t)'
  <2>1. pc'[t] \in InBegin
    BY <1>2, <1>4
  <2>2. QED
    BY <1>4, <2>1 DEF CountingInv, OwnershipInv, ClosesInterval, InBegin,
       samplingVars, handshakeVars
<1>5. CASE Lock(t)
  BY <1>4, <1>5 DEF Lock, InBegin
<1>6. CASE notifyStart(t)
  BY <1>4, <1>6 DEF notifyStart, InBegin
<1>7. CASE SetStarted(t)
  BY <1>4, <1>7 DEF SetStarted, InBegin
<1>8. CASE Unlock(t)
  BY <1>4, <1>8 DEF Unlock, InBegin
<1>9. CASE StartTimer(t)
  BY <1>1, <1>9, FinishCounting DEF StartTimer, CountingInv
<1>10. CASE Update(t)
  BY <1>10, FinishCounting, RiffAssumption DEF Update, CountingInv
<1>11. CASE FindRequest(t)
  <2>1. pc'[t] = "store"
    BY <1>2, <1>11 DEF FindRequest
  <2>2. QED
    BY <1>11, <2>1 DEF FindRequest, CountingInv, OwnershipInv, ClosesInterval,
       InBegin, samplingVars, handshakeVars
<1>12. CASE StoreSample(t)
  <2>1. pc'[t] = "lower" /\ consolidatedSample'[t] = numTasks[t]
    BY <1>1, <1>2, <1>12 DEF StoreSample
  <2>2. UNCHANGED <<currentSample, samplingLength, begun, consolidate>>
    BY <1>12 DEF StoreSample
  <2>3. QED
    BY <1>12, <2>1, <2>2 DEF StoreSample, CountingInv, OwnershipInv,
       ClosesInterval, InBegin
<1>13. CASE LowerFlag(t)
  BY <1>13, FinishCounting, RiffAssumption DEF LowerFlag, CountingInv
<1>14. CASE End(t)
  <2>1. pc'[t] = "idle" /\ UNCHANGED <<currentSample, samplingLength, begun>>
    BY <1>2, <1>14 DEF End
  <2>2. currentSample[t] = 0 => numTasks'[t] > 0
    BY <1>1, <1>14 DEF End
  <2>3. QED
    BY <2>1, <2>2 DEF CountingInv, OwnershipInv, InBegin
<1>15. CASE Finish(t)
  <2>1. pc[t] = "idle" /\ pc'[t] = "finished"
    BY <1>2, <1>15 DEF Finish
  <2>2. QED
    BY <1>15, <2>1 DEF Finish, CountingInv, OwnershipInv, InBegin, samplingVars
<1>16. QED
  BY <1>3, <1>5, <1>6, <1>7, <1>8, <1>9, <1>10, <1>11, <1>12, <1>13, <1>14,
     <1>15 DEF ApplicationThread

\* Steps of the support thread never take a sample from a thread that owns it.
LEMMA SupportStepOwn ==
  ASSUME TypeOK, Support, NEW t \in Threads, CountingInv(t), OwnershipInv(t)
  PROVE  CountingInv(t)' /\ OwnershipInv(t)'
<1>1. OtherThanSupport
  BY DEF Support, SupportCheck, SupportReceive, RaiseFlag, EndWait, Collect,
     Aggregate, ReadPhaseId, ReadTotalThreads, Decide, SendResponse
<1>2. SameCounting(t) /\ pc' = pc
  BY <1>1 DEF OtherThanSupport, samplingVars, SameCounting
<1>3. CountingInv(t)'
  BY <1>2 DEF CountingInv, SameCounting, ClosesInterval, InBegin
<1>4. /\ consolidatedSample \in [Threads -> Nat]
      /\ consolidate \in [Threads -> BOOLEAN]
      /\ support.i \in Threads
  BY DEF TypeOK, HandshakeTypes, SupportTypes
<1>5. UNCHANGED handshakeVars => OwnershipInv(t)'
  BY <1>2 DEF OwnershipInv, SameCounting, handshakeVars
<1>6. CASE RaiseFlag
  <2>1. consolidate'[t] = consolidate[t] \/ consolidate'[t] = TRUE
    BY <1>4, <1>6, Zenon DEF RaiseFlag
  <2>2. consolidatedSample' = consolidatedSample
    BY <1>6 DEF RaiseFlag
  <2>3. QED
    BY <1>2, <1>3, <2>1, <2>2 DEF OwnershipInv, SameCounting
<1>7. CASE Collect
  <2>1. consolidate' = consolidate
    BY <1>7 DEF Collect
  <2>2. consolidate[t] => consolidatedSample'[t] = consolidatedSample[t]
    BY <1>4, <1>7 DEF Collect, Collectable
  <2>3. QED
    BY <1>2, <1>3, <2>1, <2>2 DEF OwnershipInv, SameCounting
<1>8. Support => RaiseFlag \/ Collect \/ UNCHANGED handshakeVars
  BY DEF Support, SupportCheck, SupportReceive, EndWait, Aggregate, ReadPhaseId,
     ReadTotalThreads, Decide, SendResponse
<1>9. QED
  BY <1>3, <1>5, <1>6, <1>7, <1>8

LEMMA ThreadInvStep ==
  ASSUME TypeOK, ThreadInv, [Next]_vars
  PROVE  ThreadInv'
<1> SUFFICES ASSUME NEW u \in Threads
             PROVE  CountingInv(u)' /\ OwnershipInv(u)'
  BY DEF ThreadInv
<1>1. CountingInv(u) /\ OwnershipInv(u)
  BY DEF ThreadInv
<1>2. ASSUME NEW t \in Threads, ApplicationThread(t)
      PROVE  CountingInv(u)' /\ OwnershipInv(u)'
  <2>1. CASE u = t
    BY <1>1, <1>2, <2>1, ThreadStepOwn
  <2>2. CASE u # t
    BY <1>1, <1>2, <2>2, OthersUntouched, SameThreadInv
  <2>3. QED
    BY <2>1, <2>2
<1>3. CASE Support
  BY <1>1, <1>3, SupportStepOwn
<1>4. ASSUME UNCHANGED <<currentSample, samplingLength, begun, numTasks,
                         handshakeVars, pc>>
      PROVE  CountingInv(u)' /\ OwnershipInv(u)'
  BY <1>1, <1>4, SameThreadInv DEF SameCounting, SameHandshake, handshakeVars
<1>5. CASE Main
  <2>1. OtherThanMain
    BY <1>5 DEF Main, terminate, SetPhaseId, setTotalThreads, CallTerminate,
       SumTasks, SetStop, JoinSupport, SendStop, ReceiveAck, DestroyApplication
  <2>2. QED
    BY <1>4, <2>1 DEF OtherThanMain
<1>6. CASE Monitor
  <2>1. OtherThanMonitor
    BY <1>6 DEF Monitor, waitStart, RequestSample, ReceiveResponse, SendAck,
       DestroyMonitor
  <2>2. QED
    BY <1>4, <2>1 DEF OtherThanMonitor, samplingVars
<1>7. CASE Channel
  BY <1>4, <1>7 DEF Channel, samplingVars
<1>8. CASE UNCHANGED vars
  BY <1>4, <1>8 DEF vars, samplingVars
<1>9. QED
  BY <1>2, <1>3, <1>5, <1>6, <1>7, <1>8 DEF Next

-----------------------------------------------------------------------------
(* The invariants of the support thread. *)

\* An application thread lowers its flag only over a sample that is not empty.
LEMMA ThreadStepHands ==
  ASSUME TypeOK, ThreadInv, NEW t \in Threads, ApplicationThread(t),
         NEW u \in Threads
  PROVE  /\ consolidate'[u] => consolidate[u]
         /\ consolidate[u] \/ consolidatedSample[u] > 0 =>
              consolidate'[u] \/ consolidatedSample'[u] > 0
<1>1. /\ consolidatedSample \in [Threads -> Nat]
      /\ consolidate \in [Threads -> BOOLEAN]
      /\ OwnershipInv(t)
  BY DEF TypeOK, HandshakeTypes, ThreadInv
<1>2. CASE u # t
  BY <1>2, OthersUntouched DEF SameHandshake
<1>3. CASE StoreSample(t)
  <2>1. /\ consolidate' = consolidate
        /\ consolidatedSample' = [consolidatedSample EXCEPT ![t] = numTasks[t]]
        /\ numTasks[t] > 0
    BY <1>1, <1>3 DEF StoreSample, OwnershipInv
  <2>2. QED
    BY <1>1, <1>2, <2>1
<1>4. CASE LowerFlag(t)
  <2>1. /\ consolidate' = [consolidate EXCEPT ![t] = FALSE]
        /\ consolidatedSample' = consolidatedSample
        /\ consolidatedSample[t] > 0 /\ consolidate[t]
    BY <1>1, <1>4 DEF LowerFlag, OwnershipInv
  <2>2. QED
    BY <1>1, <1>2, <2>1
<1>5. StoreSample(t) \/ LowerFlag(t) \/ UNCHANGED handshakeVars
  BY DEF ApplicationThread, Begin, Lock, notifyStart, SetStarted, Unlock,
     StartTimer, Update, FindRequest, End, Finish
<1>6. QED
  BY <1>3, <1>4, <1>5 DEF handshakeVars

\* Steps of the other processes.
LEMMA ProgressFrame ==
  ASSUME TypeOK, ProgressInv, StoredInv, support' = support,
         supportStop => supportStop',
         \A u \in Threads :
            /\ consolidate'[u] => consolidate[u]
            /\ consolidate[u] \/ consolidatedSample[u] > 0 =>
                 consolidate'[u] \/ consolidatedSample'[u] > 0
  PROVE  ProgressInv' /\ StoredInv'
<1>1. support.i \in Threads
  BY DEF TypeOK, SupportTypes
<1>2. ProgressInv'
  BY <1>1 DEF ProgressInv
<1>3. StoredInv'
  BY DEF StoredInv
<1>4. QED
  BY <1>2, <1>3

\* The loop index and label after a round of a loop over the threads.
LEMMA AdvanceCases ==
  ASSUME SupportTypes, NEW within, NEW after
  PROVE  LET next == Advance(within, after)
         IN  /\ next.updated = support.updated
             /\ \/ next.pc = within /\ next.i = support.i + 1
                \/ /\ next.pc = after /\ next.i = 0
                   /\ support.i + 1 = NumThreads
<1>1. support.i \in Int /\ support.i < NumThreads /\ NumThreads \in Int
  BY RiffAssumption DEF SupportTypes, Threads
<1>2. CASE support.i + 1 < NumThreads
  BY <1>2 DEF Advance, SupportTypes
<1>3. CASE ~(support.i + 1 < NumThreads)
  <2>1. support.i + 1 = NumThreads
    BY <1>1, <1>3
  <2>2. QED
    BY <1>3, <2>1 DEF Advance, SupportTypes
<1>4. QED
  BY <1>2, <1>3

LEMMA ThreadNumber ==
  ASSUME NEW t \in Threads
  PROVE  t \in Nat
  BY RiffAssumption DEF Threads

LEMMA SupportStepProgress ==
  ASSUME TypeOK, ProgressInv, StoredInv, Support
  PROVE  ProgressInv' /\ StoredInv'
<1>1. /\ consolidatedSample \in [Threads -> Nat]
      /\ consolidate \in [Threads -> BOOLEAN]
      /\ SupportTypes
      /\ support.i \in Threads /\ support.updated \in Nat
      /\ Threads \subseteq Nat
  BY RiffAssumption DEF TypeOK, HandshakeTypes, SupportTypes, Threads
<1>2. supportStop' = supportStop
  BY DEF Support, SupportCheck, SupportReceive, RaiseFlag, EndWait, Collect,
     Aggregate, ReadPhaseId, ReadTotalThreads, Decide, SendResponse,
     OtherThanSupport
<1>3. ASSUME NEW label \in {"check", "recv", "exited", "raise"},
             support' = SupportAt(label)
      PROVE  ProgressInv' /\ StoredInv'
  <2>1. support'.pc = label /\ support'.i = 0 /\ support'.updated = 0
    BY <1>3 DEF SupportAt
  <2>2. QED
    BY <1>1, <2>1 DEF ProgressInv, StoredInv
<1>4. CASE SupportCheck
  BY <1>3, <1>4 DEF SupportCheck
<1>5. CASE SupportReceive
  BY <1>3, <1>5 DEF SupportReceive
<1>6. CASE SendResponse
  BY <1>3, <1>6 DEF SendResponse
<1>7. CASE RaiseFlag
  <2>1. /\ support.pc = "raise" /\ support.updated = 0
        /\ support' = Advance("raise", "wait")
        /\ consolidatedSample' = consolidatedSample
        /\ \A u \in Threads : consolidate[u] => consolidate'[u]
        /\ consolidate'[support.i]
    <3>1. /\ support.pc = "raise" /\ support.updated = 0
          /\ support' = Advance("raise", "wait")
          /\ consolidatedSample' = consolidatedSample
      BY <1>7 DEF RaiseFlag, ProgressInv
    <3>2. consolidate' = [consolidate EXCEPT ![support.i] = TRUE]
      BY <1>7 DEF RaiseFlag
    <3>3. QED
      BY <1>1, <3>1, <3>2, Zenon
  <2>2. /\ support'.updated = 0
        /\ \/ support'.pc = "raise" /\ support'.i = support.i + 1
           \/ /\ support'.pc = "wait" /\ support'.i = 0
              /\ support.i + 1 = NumThreads
    BY <1>1, <2>1, AdvanceCases
  <2>3. ProgressInv'
    BY <2>2 DEF ProgressInv
  <2>4. \A u \in Threads : u <= support.i => consolidate'[u] \/ consolidatedSample'[u] > 0
    <3> SUFFICES ASSUME NEW u \in Threads, u <= support.i
                 PROVE  consolidate'[u] \/ consolidatedSample'[u] > 0
      OBVIOUS
    <3>1. CASE u = support.i
      BY <2>1, <3>1
    <3>2. CASE u # support.i
      <4>1. u < support.i
        <5>1. u \in Nat /\ support.i \in Nat
          BY <1>1, ThreadNumber
        <5>2. QED
          BY <3>2, <5>1
      <4>2. consolidate[u] \/ consolidatedSample[u] > 0
        BY <2>1, <4>1 DEF StoredInv
      <4>3. QED
        BY <2>1, <4>2
    <3>3. QED
      BY <3>1, <3>2
  <2>5. \A u \in Threads : support.i + 1 = NumThreads => u <= support.i
    BY RiffAssumption, <1>1 DEF Threads
  <2>6. StoredInv'
    <3> SUFFICES ASSUME NEW u \in Threads,
                        (support'.pc = "raise" /\ u < support'.i)
                          \/ support'.pc \in {"wait", "collect"}
                 PROVE  consolidate'[u] \/ consolidatedSample'[u] > 0
      BY DEF StoredInv
    <3>1. u <= support.i
      <4>1. u \in Nat /\ support.i \in Nat
        BY <1>1, ThreadNumber
      <4>2. CASE support'.pc = "raise"
        <5>1. u < support.i + 1
          BY <2>2, <4>2
        <5>2. QED
          BY <4>1, <5>1
      <4>3. CASE support'.pc # "raise"
        BY <2>2, <2>5, <4>3
      <4>4. QED
        BY <4>2, <4>3
    <3>2. QED
      BY <2>4, <3>1
  <2>7. QED
    BY <2>3, <2>6
<1>8. CASE Collect
  <2>1. support.pc = "collect" /\ consolidate' = consolidate
    BY <1>8 DEF Collect
  <2> DEFINE next == Advance("wait", "aggregate")
  <2>2. /\ next.updated = support.updated
        /\ \/ next.pc = "wait" /\ next.i = support.i + 1
           \/ /\ next.pc = "aggregate" /\ next.i = 0
              /\ support.i + 1 = NumThreads
    BY <1>1, AdvanceCases
  <2>3. next \in [pc : {"raise", "wait", "aggregate"}, i : Threads, updated : Nat,
                  tasks : Nat, phaseId : Nat, totalThreads : Nat]
    BY <1>1, AdvanceTypes
  <2> HIDE DEF next
  <2>4. /\ support'.pc = next.pc /\ support'.i = next.i
        /\ IF consolidate[support.i] THEN support'.updated = next.updated
                                     ELSE support'.updated = next.updated + 1
    BY <1>8, <2>3 DEF Collect, Collectable, next
  <2>5. ProgressInv'
    BY <1>1, <1>2, <2>1, <2>2, <2>4 DEF ProgressInv
  <2>6. \A u \in Threads : u # support.i =>
          consolidatedSample'[u] = consolidatedSample[u]
    BY <1>1, <1>8 DEF Collect
  <2>7. StoredInv'
    <3> SUFFICES ASSUME NEW u \in Threads,
                        support'.pc \in {"raise", "wait", "collect"},
                        support'.pc # "raise" => u >= support'.i
                 PROVE  consolidate'[u] \/ consolidatedSample'[u] > 0
      BY DEF StoredInv
    <3>1. u >= support.i + 1
      BY <2>2, <2>4
    <3>2. u >= support.i /\ u # support.i
      <4>1. u \in Nat /\ support.i \in Nat
        BY <1>1, ThreadNumber
      <4>2. QED
        BY <3>1, <4>1
    <3>3. consolidate[u] \/ consolidatedSample[u] > 0
      BY <2>1, <3>2 DEF StoredInv
    <3>4. QED
      BY <2>1, <2>6, <3>2, <3>3
  <2>8. QED
    BY <2>5, <2>7
<1>9. CASE EndWait
  <2>1. /\ support'.pc = "collect" /\ support'.i = support.i
        /\ support'.updated = support.updated
    BY <1>1, <1>9 DEF EndWait, SupportTypes
  <2>2. support.pc = "wait" /\ (~consolidate[support.i] \/ supportStop)
    BY <1>9 DEF EndWait, keepWaitingSample
  <2>3. consolidate' = consolidate /\ consolidatedSample' = consolidatedSample
    BY <1>9 DEF EndWait, handshakeVars
  <2>4. QED
    BY <1>2, <2>1, <2>2, <2>3 DEF ProgressInv, StoredInv
<1>10. CASE Aggregate
  <2>1. support.pc = "aggregate" /\ (support.updated = NumThreads \/ supportStop)
    BY <1>10 DEF Aggregate, ProgressInv
  <2>2. ~(MissingSamples /\ ~supportStop)
    BY <2>1, RiffAssumption DEF MissingSamples
  <2>3. support' = [support EXCEPT !.pc = "phase"]
    BY <1>10, <2>2 DEF Aggregate
  <2>4. support'.pc = "phase" /\ support'.updated = support.updated
    BY <1>1, <2>3 DEF SupportTypes
  <2>5. QED
    BY <1>2, <2>1, <2>4 DEF ProgressInv, StoredInv
<1>11. CASE ReadPhaseId
  <2>1. /\ support.pc = "phase" /\ support'.pc = "threads"
        /\ support'.updated = support.updated
    BY <1>1, <1>11 DEF ReadPhaseId, SupportTypes
  <2>2. QED
    BY <1>2, <2>1 DEF ProgressInv, StoredInv
<1>12. CASE ReadTotalThreads
  <2>1. /\ support.pc = "threads" /\ support'.pc = "decide"
        /\ support'.updated = support.updated
    BY <1>1, <1>12 DEF ReadTotalThreads, SupportTypes
  <2>2. QED
    BY <1>2, <2>1 DEF ProgressInv, StoredInv
<1>13. CASE Decide
  <2>1. CASE AnswerWanted
    <3>1. /\ support.pc = "decide" /\ support'.pc = "send" /\ ~supportStop
          /\ support'.updated = support.updated
      BY <1>1, <1>13, <2>1 DEF Decide, AnswerWanted, SupportTypes
    <3>2. QED
      BY <3>1 DEF ProgressInv, StoredInv
  <2>2. CASE ~AnswerWanted
    BY <1>3, <1>13, <2>2 DEF Decide
  <2>3. QED
    BY <2>1, <2>2
<1>14. QED
  BY <1>4, <1>5, <1>6, <1>7, <1>8, <1>9, <1>10, <1>11, <1>12, <1>13 DEF Support

LEMMA ProgressStep ==
  ASSUME TypeOK, ThreadInv, ProgressInv, StoredInv, [Next]_vars
  PROVE  ProgressInv' /\ StoredInv'
<1>1. ASSUME NEW t \in Threads, ApplicationThread(t)
      PROVE  ProgressInv' /\ StoredInv'
  <2>1. support' = support /\ supportStop' = supportStop
    BY <1>1 DEF ApplicationThread, Begin, Lock, notifyStart, SetStarted, Unlock,
       StartTimer, Update, FindRequest, StoreSample, LowerFlag, End, Finish,
       FinishBegin, OtherProcesses
  <2>2. QED
    BY <1>1, <2>1, ThreadStepHands, ProgressFrame
<1>2. CASE Support
  BY <1>2, SupportStepProgress
<1>3. ASSUME support' = support, supportStop => supportStop',
             UNCHANGED handshakeVars
      PROVE  ProgressInv' /\ StoredInv'
  <2>1. consolidate' = consolidate /\ consolidatedSample' = consolidatedSample
    BY <1>3 DEF handshakeVars
  <2>2. QED
    BY <1>3, <2>1, ProgressFrame
<1>4. CASE Main
  <2>1. OtherThanMain /\ (supportStop => supportStop')
    BY <1>4 DEF Main, terminate, SetPhaseId, setTotalThreads, CallTerminate,
       SumTasks, SetStop, JoinSupport, SendStop, ReceiveAck, DestroyApplication
  <2>2. QED
    BY <1>3, <2>1 DEF OtherThanMain
<1>5. CASE Monitor
  BY <1>3, <1>5 DEF Monitor, waitStart, RequestSample, ReceiveResponse, SendAck,
     DestroyMonitor, OtherThanMonitor
<1>6. CASE Channel
  BY <1>3, <1>6 DEF Channel
<1>7. CASE UNCHANGED vars
  BY <1>3, <1>7 DEF vars
<1>8. QED
  BY <1>1, <1>2, <1>4, <1>5, <1>6, <1>7 DEF Next

-----------------------------------------------------------------------------
(* The answers on their way to the monitor. *)

LEMMA AnswersSend ==
  ASSUME ChannelTypeOK(Message), AnswersInv, NEW s \in Sides, NEW m \in Message,
         m.type = "RES" => m.threads = NumThreads, Send(s, m)
  PROVE  AnswersInv'
<1> DEFINE old == inbox["mon"]
<1> DEFINE new == inbox'["mon"]
<1>1. inbox \in [Sides -> Seq(Message)] /\ old \in Seq(Message)
  BY DEF ChannelTypeOK, Sides
<1>2. new = old \/ new = Append(old, m)
  BY <1>1 DEF Send, Peer, Sides
<1>3. \A k \in DOMAIN old : old[k].type = "RES" => old[k].threads = NumThreads
  BY DEF AnswersInv
<1> HIDE DEF old, new
<1>4. \A k \in DOMAIN new : new[k] = m \/ (k \in DOMAIN old /\ new[k] = old[k])
  BY <1>1, <1>2
<1>5. \A k \in DOMAIN new : new[k].type = "RES" => new[k].threads = NumThreads
  BY <1>3, <1>4
<1>6. QED
  BY <1>5 DEF AnswersInv, new

\* A receive, a close or a lost pipe leaves the tail, nothing, or everything.
LEMMA AnswersShrink ==
  ASSUME ChannelTypeOK(Message), AnswersInv,
         inbox'["mon"] \in {inbox["mon"], << >>}
           \/ (inbox["mon"] # << >> /\ inbox'["mon"] = Tail(inbox["mon"]))
  PROVE  AnswersInv'
<1> DEFINE old == inbox["mon"]
<1> DEFINE new == inbox'["mon"]
<1>1. old \in Seq(Message)
  BY DEF ChannelTypeOK, Sides
<1>2. \A k \in DOMAIN old : old[k].type = "RES" => old[k].threads = NumThreads
  BY DEF AnswersInv
<1>3. new = old \/ new = << >> \/ (old # << >> /\ new = Tail(old))
  OBVIOUS
<1> HIDE DEF old, new
<1>4. \A k \in DOMAIN new : \E j \in DOMAIN old : new[k] = old[j]
  <2>1. CASE old # << >> /\ new = Tail(old)
    <3>1. \A k \in DOMAIN new : k + 1 \in DOMAIN old /\ new[k] = old[k + 1]
      BY <1>1, <2>1
    <3>2. QED
      BY <3>1
  <2>2. CASE new = << >>
    BY <2>2
  <2>3. CASE new = old
    BY <2>3
  <2>4. QED
    BY <1>3, <2>1, <2>2, <2>3
<1>5. QED
  BY <1>2, <1>4 DEF AnswersInv, new

LEMMA AnswersStep ==
  ASSUME TypeOK, ProgressInv, AnswersInv, [Next]_vars
  PROVE  AnswersInv'
<1>1. ChannelTypeOK(Message) /\ inbox \in [Sides -> Seq(Message)]
      /\ "app" \in Sides /\ "mon" \in Sides
  BY DEF TypeOK, ChannelTypeOK, Sides
<1>2. UNCHANGED channelVars => AnswersInv'
  BY <1>1, AnswersShrink DEF channelVars
<1>3. ASSUME NEW s \in Sides, Receive(s) \/ Close(s) \/ Attach(s) \/ DropPipe(s)
      PROVE  AnswersInv'
  <2>1. inbox'["mon"] \in {inbox["mon"], << >>}
          \/ (inbox["mon"] # << >> /\ inbox'["mon"] = Tail(inbox["mon"]))
    BY <1>1, <1>3 DEF Receive, CanReceive, Close, Attach, DropPipe
  <2>2. QED
    BY <1>1, <2>1, AnswersShrink
<1>4. ASSUME NEW s \in Sides, NEW type \in MessageType, type # "RES",
             NEW a \in Nat, NEW b \in Nat, NEW c \in Nat,
             Send(s, Msg(type, a, 0, b, c))
      PROVE  AnswersInv'
  <2>1. Msg(type, a, 0, b, c) \in Message /\ Msg(type, a, 0, b, c).type = type
    BY MsgType DEF Msg
  <2>2. QED
    BY <1>1, <1>4, <2>1, AnswersSend
<1>5. ASSUME NEW t \in Threads, ApplicationThread(t)
      PROVE  AnswersInv'
  <2>1. CASE notifyStart(t)
    BY <1>1, <1>4, <2>1 DEF notifyStart, MessageType, TypeOK, SharedTypes
  <2>2. ~notifyStart(t) => UNCHANGED channelVars
    BY <1>5 DEF ApplicationThread, Begin, Lock, SetStarted, Unlock, StartTimer,
       Update, FindRequest, StoreSample, LowerFlag, End, Finish, FinishBegin
  <2>3. QED
    BY <1>2, <2>1, <2>2
<1>6. CASE Support
  <2>1. CASE SendResponse
    <3> DEFINE m == Msg("RES", support.tasks, support.updated,
                        support.phaseId, support.totalThreads)
    <3>1. m \in Message
      BY MsgType DEF TypeOK, SupportTypes, MessageType
    <3>2. m.threads = NumThreads
      BY <2>1 DEF SendResponse, ProgressInv, Msg
    <3>3. Send("app", m)
      BY <2>1 DEF SendResponse
    <3> HIDE DEF m
    <3>4. QED
      BY <1>1, <3>1, <3>2, <3>3, AnswersSend
  <2>2. CASE SupportReceive
    BY <1>1, <1>3, <2>2 DEF SupportReceive
  <2>3. SendResponse \/ SupportReceive \/ UNCHANGED channelVars
    BY <1>6 DEF Support, SupportCheck, RaiseFlag, EndWait, Collect, Aggregate,
       ReadPhaseId, ReadTotalThreads, Decide
  <2>4. QED
    BY <1>2, <2>1, <2>2, <2>3
<1>7. CASE Main
  <2>1. CASE SendStop
    BY <1>1, <1>4, <2>1 DEF SendStop, MessageType, TypeOK, MainTypes
  <2>2. CASE ReceiveAck \/ DestroyApplication
    BY <1>1, <1>3, <2>2 DEF ReceiveAck, DestroyApplication
  <2>3. SendStop \/ ReceiveAck \/ DestroyApplication \/ UNCHANGED channelVars
    BY <1>7 DEF Main, terminate, SetPhaseId, setTotalThreads, CallTerminate,
       SumTasks, SetStop, JoinSupport
  <2>4. QED
    BY <1>2, <2>1, <2>2, <2>3
<1>8. CASE Monitor
  <2>1. CASE RequestSample \/ SendAck
    BY <1>1, <1>4, <2>1 DEF RequestSample, SendAck, Plain, MessageType
  <2>2. CASE waitStart \/ ReceiveResponse \/ DestroyMonitor
    BY <1>1, <1>3, <2>2 DEF waitStart, ReceiveResponse, DestroyMonitor
  <2>3. QED
    BY <1>8, <2>1, <2>2 DEF Monitor
<1>9. CASE Channel
  BY <1>3, <1>9 DEF Channel
<1>10. CASE UNCHANGED vars
  BY <1>2, <1>10 DEF vars
<1>11. QED
  BY <1>5, <1>6, <1>7, <1>8, <1>9, <1>10 DEF Next

-----------------------------------------------------------------------------
(* The theorems. *)

LEMMA HandshakeInit == Init => HandshakeInv
<1> SUFFICES ASSUME Init PROVE HandshakeInv
  OBVIOUS
<1>1. ThreadInv
  BY DEF Init, ThreadInv, CountingInv, OwnershipInv, ClosesInterval, InBegin
<1>2. support.pc = "check"
  BY DEF Init, SupportAt
<1>3. ProgressInv /\ StoredInv
  BY <1>2 DEF ProgressInv, StoredInv
<1>4. AnswersInv
  BY DEF Init, ChannelInit, AnswersInv, Sides
<1>5. QED
  BY <1>1, <1>3, <1>4 DEF HandshakeInv

LEMMA Handshake == Spec => [](TypeOK /\ HandshakeInv)
<1>1. TypeOK /\ HandshakeInv /\ [Next]_vars => HandshakeInv'
  BY ThreadInvStep, ProgressStep, AnswersStep DEF HandshakeInv
<1>2. QED
  BY <1>1, HandshakeInit, TypeCorrect, PTL DEF Spec

\* The plain struct consolidatedSample is never read and reset by the support
\* thread while its application thread writes it in begin().
THEOREM SamplesAreExclusive == Spec => []ExclusiveSample
<1>1. TypeOK /\ HandshakeInv => ExclusiveSample
  BY DEF HandshakeInv, ThreadInv, OwnershipInv, ExclusiveSample, Collectable
<1>2. QED
  BY <1>1, Handshake, PTL

\* The support thread never averages an empty sample: no division by zero in
\* the latency of an answer.
THEOREM SamplesNotEmpty == Spec => []CollectedNotEmpty
<1>1. TypeOK /\ HandshakeInv => CollectedNotEmpty
  <2> SUFFICES ASSUME TypeOK, HandshakeInv, support.pc = "collect",
                      ~consolidate[support.i]
               PROVE  consolidatedSample[support.i] > 0
    BY DEF CollectedNotEmpty, Collectable
  <2>1. support.i \in Threads
    BY DEF TypeOK, SupportTypes
  <2>2. support.i \in Nat
    BY <2>1, ThreadNumber
  <2>3. support.i >= support.i
    BY <2>2
  <2>4. QED
    BY <2>1, <2>3 DEF HandshakeInv, StoredInv
<1>2. QED
  BY <1>1, Handshake, PTL

\* Every answer is made of one sample of each thread, also when terminate()
\* interrupts the collection.
THEOREM AnswersComplete == Spec => []CompleteAnswers
<1>1. HandshakeInv => CompleteAnswers
  BY DEF HandshakeInv, ProgressInv, AnswersInv, CompleteAnswers
<1>2. QED
  BY <1>1, Handshake, PTL

\* The support thread never throws "FATAL ERROR: !_supportStop".
THEOREM SupportNeverThrows == Spec => [](support.pc # "failed")
<1>1. HandshakeInv => support.pc # "failed"
  BY DEF HandshakeInv, ProgressInv
<1>2. QED
  BY <1>1, Handshake, PTL

-----------------------------------------------------------------------------
(* The mailboxes are emptied between two requests. *)

EmptyMailbox(t) == ~consolidate[t] /\ consolidatedSample[t] = 0

\* The support thread has asked nothing of t since it last emptied t's mailbox.
NotAsked(t) ==
  /\ support.pc = "raise" => t >= support.i
  /\ support.pc \in {"wait", "collect"} => t < support.i

\* Mailboxes are empty before the flags are raised and after the samples have
\* been collected, unless terminate() has interrupted the collection; nothing
\* is overwritten by StoreSample.
MailboxOf(t) ==
  /\ NotAsked(t) =>
       EmptyMailbox(t) \/ (supportStop /\ support.pc \notin {"recv", "raise"})
  /\ consolidate[t] /\ pc[t] # "lower" => consolidatedSample[t] = 0
  /\ pc[t] = "lower" => numTasks[t] = 0
  /\ samplingLength[t] \in Lengths \cup {1}

MailboxInv == \A t \in Threads : MailboxOf(t)

\* Only three steps of a thread touch what it hands over.
LEMMA ThreadStepQuiet ==
  ASSUME TypeOK, NEW t \in Threads, ApplicationThread(t),
         ~StoreSample(t), ~LowerFlag(t), ~End(t)
  PROVE  /\ pc[t] # "lower" /\ pc'[t] # "lower"
         /\ UNCHANGED <<handshakeVars, numTasks>>
<1>1. ASSUME NEW label, Goto(t, label)
      PROVE  pc'[t] = label
  BY <1>1 DEF Goto, TypeOK, ThreadTypes
<1>2. CASE Begin(t)
  BY <1>1, <1>2 DEF Begin
<1>3. CASE Lock(t)
  BY <1>1, <1>3 DEF Lock, samplingVars
<1>4. CASE notifyStart(t)
  BY <1>1, <1>4 DEF notifyStart, samplingVars
<1>5. CASE SetStarted(t)
  BY <1>1, <1>5 DEF SetStarted, samplingVars
<1>6. CASE Unlock(t)
  BY <1>1, <1>6 DEF Unlock, samplingVars
<1>7. CASE StartTimer(t)
  BY <1>1, <1>7 DEF StartTimer, FinishBegin
<1>8. CASE Update(t)
  BY <1>1, <1>8 DEF Update, FinishBegin
<1>9. CASE FindRequest(t)
  BY <1>1, <1>9 DEF FindRequest, samplingVars
<1>10. CASE Finish(t)
  BY <1>1, <1>10 DEF Finish, samplingVars
<1>11. QED
  BY <1>2, <1>3, <1>4, <1>5, <1>6, <1>7, <1>8, <1>9, <1>10 DEF ApplicationThread

LEMMA ThreadStepLength ==
  ASSUME TypeOK, NEW t \in Threads, ApplicationThread(t),
         samplingLength[t] \in Lengths \cup {1}
  PROVE  samplingLength'[t] \in Lengths \cup {1}
<1>1. samplingLength \in [Threads -> Nat \ {0}]
  BY DEF TypeOK, SamplingTypes
<1>2. ASSUME NEW length, FinishBegin(t, length) PROVE samplingLength'[t] = length
  BY <1>1, <1>2 DEF FinishBegin
<1>3. CASE StartTimer(t)
  BY <1>2, <1>3 DEF StartTimer
<1>4. CASE Update(t) \/ LowerFlag(t)
  BY <1>2, <1>4 DEF Update, LowerFlag
<1>5. StartTimer(t) \/ Update(t) \/ LowerFlag(t) \/ samplingLength' = samplingLength
  BY DEF ApplicationThread, Begin, Lock, notifyStart, SetStarted, Unlock,
     FindRequest, StoreSample, End, Finish, samplingVars
<1>6. QED
  BY <1>3, <1>4, <1>5

LEMMA MailboxThreadStep ==
  ASSUME TypeOK, HandshakeInv, MailboxInv, NEW t \in Threads, ApplicationThread(t)
  PROVE  MailboxInv'
<1> SUFFICES ASSUME NEW u \in Threads, MailboxOf(u)
             PROVE  MailboxOf(u)'
  BY DEF MailboxInv
<1>1. support' = support /\ supportStop' = supportStop
  BY DEF ApplicationThread, Begin, Lock, notifyStart, SetStarted, Unlock,
     StartTimer, Update, FindRequest, StoreSample, LowerFlag, End, Finish,
     FinishBegin, OtherProcesses
<1>2. NotAsked(u)' <=> NotAsked(u)
  BY <1>1 DEF NotAsked
<1>3. CASE u # t
  BY <1>1, <1>2, <1>3, OthersUntouched
     DEF SameCounting, SameHandshake, EmptyMailbox, MailboxOf
<1>4. CASE u = t
  <2>1. samplingLength'[u] \in Lengths \cup {1}
    BY <1>4, ThreadStepLength DEF MailboxOf
  <2>2. /\ consolidatedSample \in [Threads -> Nat]
        /\ consolidate \in [Threads -> BOOLEAN]
        /\ numTasks \in [Threads -> Nat]
        /\ OwnershipInv(t)
    BY DEF TypeOK, HandshakeTypes, SamplingTypes, HandshakeInv, ThreadInv
  <2>3. ASSUME NEW label, Goto(t, label)
        PROVE  pc'[t] = label
    BY <2>3 DEF Goto, TypeOK, ThreadTypes
  <2>4. CASE StoreSample(t)
    <3>1. consolidate[t] /\ pc'[t] = "lower" /\ numTasks'[t] = 0
      BY <2>2, <2>3, <2>4 DEF StoreSample, OwnershipInv
    <3>2. QED
      BY <1>1, <1>2, <1>4, <2>1, <3>1 DEF EmptyMailbox, MailboxOf
  <2>5. CASE LowerFlag(t)
    <3>1. consolidate[t] /\ pc'[t] = "task" /\ ~consolidate'[t]
      BY <2>2, <2>3, <2>5 DEF LowerFlag, FinishBegin, OwnershipInv
    <3>2. QED
      BY <1>1, <1>2, <1>4, <2>1, <3>1 DEF EmptyMailbox, MailboxOf
  <2>6. CASE End(t)
    <3>1. pc[t] = "task" /\ pc'[t] = "idle" /\ UNCHANGED handshakeVars
      BY <2>3, <2>6 DEF End
    <3>2. QED
      BY <1>1, <1>2, <1>4, <2>1, <3>1 DEF EmptyMailbox, MailboxOf, handshakeVars
  <2>7. CASE ~StoreSample(t) /\ ~LowerFlag(t) /\ ~End(t)
    BY <1>1, <1>2, <1>4, <2>1, <2>7, ThreadStepQuiet
       DEF EmptyMailbox, MailboxOf, handshakeVars
  <2>8. QED
    BY <2>4, <2>5, <2>6, <2>7
<1>5. QED
  BY <1>3, <1>4

LEMMA MailboxSupportStep ==
  ASSUME TypeOK, HandshakeInv, MailboxInv, Support
  PROVE  MailboxInv'
<1>1. OtherThanSupport
  BY DEF Support, SupportCheck, SupportReceive, RaiseFlag, EndWait, Collect,
     Aggregate, ReadPhaseId, ReadTotalThreads, Decide, SendResponse
<1>2. UNCHANGED <<supportStop, pc, numTasks, samplingLength>>
  BY <1>1 DEF OtherThanSupport, samplingVars
<1>3. /\ consolidatedSample \in [Threads -> Nat]
      /\ consolidate \in [Threads -> BOOLEAN]
      /\ SupportTypes
      /\ support.i \in Threads /\ support.i \in Nat
  BY ThreadNumber DEF TypeOK, HandshakeTypes, SupportTypes
<1> SUFFICES ASSUME NEW u \in Threads, MailboxOf(u)
             PROVE  MailboxOf(u)'
  BY DEF MailboxInv
<1>4. u \in Nat
  BY ThreadNumber
<1>5. ASSUME UNCHANGED handshakeVars, NotAsked(u)' => NotAsked(u),
             support.pc \in {"recv", "raise"} \/ support'.pc \notin {"recv", "raise"}
               \/ ~supportStop
      PROVE  MailboxOf(u)'
  BY <1>2, <1>5 DEF MailboxOf, EmptyMailbox, handshakeVars
<1>6. ASSUME NEW label \in {"check", "recv", "exited", "raise"},
             support' = SupportAt(label)
      PROVE  support'.pc = label /\ support'.i = 0
  BY <1>6 DEF SupportAt
<1>7. CASE SupportCheck
  BY <1>5, <1>6, <1>7 DEF SupportCheck, NotAsked
<1>8. CASE SupportReceive
  BY <1>5, <1>6, <1>8 DEF SupportReceive, NotAsked
<1>9. CASE SendResponse
  BY <1>5, <1>6, <1>9 DEF SendResponse, NotAsked
<1>10. CASE RaiseFlag
  <2>1. /\ support.pc = "raise"
        /\ support' = Advance("raise", "wait")
        /\ consolidatedSample' = consolidatedSample
        /\ consolidate' = [consolidate EXCEPT ![support.i] = TRUE]
    BY <1>10 DEF RaiseFlag
  <2>2. \/ support'.pc = "raise" /\ support'.i = support.i + 1
        \/ support'.pc = "wait" /\ support'.i = 0
    BY <1>3, <2>1, AdvanceCases
  <2>3. NotAsked(u)' => u >= support.i + 1
    BY <1>4, <2>2 DEF NotAsked
  <2>4. CASE u = support.i
    <3>1. consolidatedSample[u] = 0
      BY <1>3, <2>1, <2>4 DEF MailboxOf, NotAsked, EmptyMailbox
    <3>2. ~NotAsked(u)'
      BY <1>3, <2>3, <2>4
    <3>3. QED
      BY <1>2, <2>1, <3>1, <3>2 DEF MailboxOf
  <2>5. CASE u # support.i
    <3>1. consolidate'[u] = consolidate[u]
      BY <1>3, <2>1, <2>5
    <3>2. NotAsked(u)' => EmptyMailbox(u)
      BY <1>3, <1>4, <2>1, <2>3 DEF MailboxOf, NotAsked
    <3>3. QED
      BY <1>2, <2>1, <3>1, <3>2 DEF MailboxOf, EmptyMailbox
  <2>6. QED
    BY <2>4, <2>5
<1>11. CASE EndWait
  <2>1. support.pc = "wait" /\ support'.pc = "collect" /\ support'.i = support.i
    BY <1>3, <1>11 DEF EndWait, SupportTypes
  <2>2. QED
    BY <1>5, <1>11, <2>1 DEF EndWait, NotAsked
<1>12. CASE Collect
  <2>1. support.pc = "collect" /\ consolidate' = consolidate
    BY <1>12 DEF Collect
  <2>2. /\ \/ support'.pc = "wait" /\ support'.i = support.i + 1
           \/ support'.pc = "aggregate" /\ support'.i = 0 /\ support.i + 1 = NumThreads
        /\ \A w \in Threads : consolidatedSample'[w] = consolidatedSample[w]
                               \/ (w = support.i /\ consolidatedSample'[w] = 0)
        /\ ~consolidate[support.i] => consolidatedSample'[support.i] = 0
    <3> DEFINE next == Advance("wait", "aggregate")
    <3>1. \/ next.pc = "wait" /\ next.i = support.i + 1
          \/ next.pc = "aggregate" /\ next.i = 0 /\ support.i + 1 = NumThreads
      BY <1>3, AdvanceCases
    <3>2. next \in [pc : {"raise", "wait", "aggregate"}, i : Threads, updated : Nat,
                    tasks : Nat, phaseId : Nat, totalThreads : Nat]
      BY <1>3, AdvanceTypes
    <3> HIDE DEF next
    <3>3. support'.pc = next.pc /\ support'.i = next.i
      BY <1>12, <3>2 DEF Collect, next
    <3>4. QED
      BY <1>3, <1>12, <3>1, <3>3 DEF Collect, Collectable
  <2>3. NotAsked(u)' => u <= support.i
    BY <1>3, <1>4, <2>2, RiffAssumption DEF NotAsked, Threads
  <2>4. ~consolidate[support.i] \/ supportStop
    BY <2>1 DEF HandshakeInv, ProgressInv
  <2>5. CASE u = support.i
    BY <1>2, <2>1, <2>2, <2>4, <2>5 DEF MailboxOf, EmptyMailbox
  <2>6. CASE u # support.i
    <3>1. NotAsked(u)' => NotAsked(u)
      BY <1>3, <1>4, <2>1, <2>3, <2>6 DEF NotAsked
    <3>2. consolidatedSample'[u] = consolidatedSample[u]
      BY <2>2, <2>6
    <3>3. support'.pc \notin {"recv", "raise"}
      BY <2>2
    <3>4. QED
      BY <1>2, <2>1, <3>1, <3>2, <3>3 DEF MailboxOf, EmptyMailbox
  <2>7. QED
    BY <2>5, <2>6
<1>13. CASE Aggregate
  <2>1. support.pc = "aggregate" /\ support'.pc \in {"phase", "failed"}
    BY <1>3, <1>13 DEF Aggregate, SupportTypes
  <2>2. QED
    BY <1>5, <1>13, <2>1 DEF Aggregate, NotAsked
<1>14. CASE ReadPhaseId
  <2>1. support.pc = "phase" /\ support'.pc = "threads"
    BY <1>3, <1>14 DEF ReadPhaseId, SupportTypes
  <2>2. QED
    BY <1>5, <1>14, <2>1 DEF ReadPhaseId, NotAsked
<1>15. CASE ReadTotalThreads
  <2>1. support.pc = "threads" /\ support'.pc = "decide"
    BY <1>3, <1>15 DEF ReadTotalThreads, SupportTypes
  <2>2. QED
    BY <1>5, <1>15, <2>1 DEF ReadTotalThreads, NotAsked
<1>16. CASE Decide
  <2>1. support.pc = "decide" /\ support'.pc \in {"send", "check"}
    BY <1>3, <1>6, <1>16 DEF Decide, SupportTypes
  <2>2. QED
    BY <1>5, <1>16, <2>1 DEF Decide, NotAsked
<1>17. QED
  BY <1>7, <1>8, <1>9, <1>10, <1>11, <1>12, <1>13, <1>14, <1>15, <1>16 DEF Support

LEMMA Mailboxes == Spec => []MailboxInv
<1>1. Init => MailboxInv
  <2> SUFFICES ASSUME Init, NEW t \in Threads PROVE MailboxOf(t)
    BY DEF MailboxInv
  <2>1. EmptyMailbox(t) /\ pc[t] = "idle" /\ samplingLength[t] = 1
    BY DEF Init, EmptyMailbox
  <2>2. QED
    BY <2>1 DEF MailboxOf, EmptyMailbox
<1>2. TypeOK /\ HandshakeInv /\ MailboxInv /\ [Next]_vars => MailboxInv'
  <2> SUFFICES ASSUME TypeOK, HandshakeInv, MailboxInv, [Next]_vars
               PROVE  MailboxInv'
    OBVIOUS
  <2>1. ASSUME UNCHANGED <<samplingLength, numTasks, handshakeVars, pc, support>>,
               supportStop => supportStop'
        PROVE  MailboxInv'
    BY <2>1 DEF MailboxInv, MailboxOf, NotAsked, EmptyMailbox, handshakeVars
  <2>2. CASE Main
    <3>1. OtherThanMain /\ (supportStop => supportStop')
      BY <2>2 DEF Main, terminate, SetPhaseId, setTotalThreads, CallTerminate,
         SumTasks, SetStop, JoinSupport, SendStop, ReceiveAck, DestroyApplication
    <3>2. QED
      BY <2>1, <3>1 DEF OtherThanMain
  <2>3. CASE Monitor
    BY <2>1, <2>3 DEF Monitor, waitStart, RequestSample, ReceiveResponse, SendAck,
       DestroyMonitor, OtherThanMonitor, samplingVars
  <2>4. CASE Channel
    BY <2>1, <2>4 DEF Channel, samplingVars
  <2>5. CASE UNCHANGED vars
    BY <2>1, <2>5 DEF vars, samplingVars
  <2>6. QED
    BY <2>2, <2>3, <2>4, <2>5, MailboxThreadStep, MailboxSupportStep DEF Next
<1>3. QED
  BY <1>1, <1>2, Handshake, PTL DEF Spec

-----------------------------------------------------------------------------
(* The mailboxes of module Handover. *)

\* What the refinement mapping of Mailbox gives for running and content.
Running == [t \in Threads |-> IF pc[t] = "lower" THEN consolidatedSample[t]
                              ELSE numTasks[t]]

Content == [t \in Threads |-> IF consolidate[t] THEN 0 ELSE consolidatedSample[t]]

\* A step that leaves alone what is handed over is a stuttering step.
LEMMA MailboxStutter ==
  ASSUME UNCHANGED <<numTasks, handshakeVars>>,
         \A u \in Threads : pc'[u] = "lower" <=> pc[u] = "lower"
  PROVE  UNCHANGED <<Running, consolidate, Content>>
<1>1. UNCHANGED <<consolidatedSample, consolidate>>
  BY DEF handshakeVars
<1>2. Running' = Running
  BY <1>1 DEF Running
<1>3. Content' = Content
  BY <1>1 DEF Content
<1>4. QED
  BY <1>1, <1>2, <1>3

LEMMA HandoverThreadStep ==
  ASSUME TypeOK, HandshakeInv, MailboxInv, NEW t \in Threads, ApplicationThread(t)
  PROVE  \/ Mailbox!Work(t) \/ Mailbox!Put(t)
         \/ UNCHANGED <<Running, consolidate, Content>>
<1>1. /\ consolidatedSample \in [Threads -> Nat]
      /\ consolidate \in [Threads -> BOOLEAN]
      /\ numTasks \in [Threads -> Nat]
      /\ pc \in [Threads -> {"idle", "lock", "notify", "started", "unlock", "update",
                            "store", "lower", "task", "finished"}]
      /\ OwnershipInv(t) /\ MailboxOf(t)
  BY DEF TypeOK, HandshakeTypes, SamplingTypes, ThreadTypes, HandshakeInv,
     ThreadInv, MailboxInv
<1>2. CASE StoreSample(t)
  <2>1. /\ pc[t] = "store" /\ pc' = [pc EXCEPT ![t] = "lower"]
        /\ consolidatedSample' = [consolidatedSample EXCEPT ![t] = numTasks[t]]
        /\ numTasks' = [numTasks EXCEPT ![t] = 0]
        /\ consolidate' = consolidate /\ consolidate[t]
    BY <1>1, <1>2 DEF StoreSample, Goto, OwnershipInv
  <2>2. Running' = Running
    <3>1. ASSUME NEW u \in Threads
          PROVE (IF pc'[u] = "lower" THEN consolidatedSample'[u] ELSE numTasks'[u])
                = IF pc[u] = "lower" THEN consolidatedSample[u] ELSE numTasks[u]
      BY <1>1, <2>1
    <3>2. QED
      BY <3>1 DEF Running
  <2>3. Content' = Content
    <3>1. ASSUME NEW u \in Threads
          PROVE (IF consolidate'[u] THEN 0 ELSE consolidatedSample'[u])
                = IF consolidate[u] THEN 0 ELSE consolidatedSample[u]
      BY <1>1, <2>1
    <3>2. QED
      BY <3>1 DEF Content
  <2>4. QED
    BY <2>1, <2>2, <2>3
<1>3. CASE LowerFlag(t)
  <2>1. /\ pc[t] = "lower" /\ pc' = [pc EXCEPT ![t] = "task"]
        /\ UNCHANGED <<consolidatedSample, numTasks>>
        /\ consolidate' = [consolidate EXCEPT ![t] = FALSE]
        /\ consolidate[t] /\ consolidatedSample[t] > 0 /\ numTasks[t] = 0
    BY <1>1, <1>3 DEF LowerFlag, FinishBegin, Goto, OwnershipInv, MailboxOf
  <2>2. Running' = [Running EXCEPT ![t] = 0]
    <3>1. \A u \in Threads : Running'[u] = IF u = t THEN 0 ELSE Running[u]
      BY <1>1, <2>1 DEF Running
    <3>2. QED
      BY <3>1 DEF Running
  <2>3. Content' = [Content EXCEPT ![t] = Running[t]]
    <3>1. \A u \in Threads : Content'[u] = IF u = t THEN Running[t] ELSE Content[u]
      BY <1>1, <2>1 DEF Running, Content
    <3>2. QED
      BY <3>1 DEF Content
  <2>4. Running[t] > 0
    BY <2>1 DEF Running
  <2>5. Mailbox!Put(t)
    BY <2>1, <2>2, <2>3, <2>4 DEF Mailbox!Put, Running, Content
  <2>6. QED
    BY <2>5
<1>4. CASE End(t)
  <2> DEFINE counted == IF currentSample[t] = 0 THEN samplingLength[t] ELSE 0
  <2>1. /\ pc[t] = "task" /\ pc' = [pc EXCEPT ![t] = "idle"]
        /\ numTasks' = [numTasks EXCEPT ![t] = @ + counted]
        /\ UNCHANGED <<consolidatedSample, consolidate>>
    BY <1>4 DEF End, Goto, handshakeVars
  <2>2. counted = 0 \/ counted \in Lengths \cup {1}
    BY <1>1 DEF MailboxOf
  <2>3. counted \in Nat
    BY DEF TypeOK, SamplingTypes
  <2> HIDE DEF counted
  <2>4. Running' = [Running EXCEPT ![t] = @ + counted]
    <3>1. \A u \in Threads : Running'[u] = IF u = t THEN Running[u] + counted
                                           ELSE Running[u]
      BY <1>1, <2>1, <2>3 DEF Running
    <3>2. QED
      BY <3>1 DEF Running
  <2>5. Content' = Content
    BY <2>1 DEF Content
  <2>6. CASE counted = 0
    <3>1. Running \in [Threads -> Nat]
      BY <1>1 DEF Running
    <3> HIDE DEF Running
    <3>2. Running' = Running
      BY <2>4, <2>6, <3>1
    <3>3. QED
      BY <2>1, <2>5, <3>2
  <2>7. CASE counted \in Lengths \cup {1}
    <3>1. Mailbox!Work(t)
      BY <2>1, <2>4, <2>5, <2>7 DEF Mailbox!Work, Running, Content
    <3>2. QED
      BY <3>1
  <2>8. QED
    BY <2>2, <2>6, <2>7
<1>5. CASE ~StoreSample(t) /\ ~LowerFlag(t) /\ ~End(t)
  <2>1. \A u \in Threads : pc'[u] = "lower" <=> pc[u] = "lower"
    BY <1>5, ThreadStepQuiet, OthersUntouched DEF SameCounting
  <2>2. QED
    BY <1>5, <2>1, ThreadStepQuiet, MailboxStutter
<1>6. QED
  BY <1>2, <1>3, <1>4, <1>5

LEMMA HandoverSupportStep ==
  ASSUME TypeOK, HandshakeInv, MailboxInv, Support
  PROVE  \/ \E t \in Threads : Mailbox!Want(t) \/ Mailbox!Take(t)
         \/ UNCHANGED <<Running, consolidate, Content>>
<1>1. /\ consolidatedSample \in [Threads -> Nat]
      /\ consolidate \in [Threads -> BOOLEAN]
      /\ support.i \in Threads /\ support.i \in Nat
      /\ MailboxOf(support.i)
  BY ThreadNumber DEF TypeOK, HandshakeTypes, SupportTypes, MailboxInv
<1>2. OtherThanSupport
  BY DEF Support, SupportCheck, SupportReceive, RaiseFlag, EndWait, Collect,
     Aggregate, ReadPhaseId, ReadTotalThreads, Decide, SendResponse
<1>3. UNCHANGED <<pc, numTasks>>
  BY <1>2 DEF OtherThanSupport, samplingVars
<1>4. CASE RaiseFlag
  <2> DEFINE i == support.i
  <2>1. /\ consolidate' = [consolidate EXCEPT ![i] = TRUE]
        /\ consolidatedSample' = consolidatedSample
        /\ ~consolidate[i] /\ consolidatedSample[i] = 0
    BY <1>1, <1>4 DEF RaiseFlag, MailboxOf, NotAsked, EmptyMailbox
  <2> HIDE DEF i
  <2>2. i \in Threads
    BY <1>1 DEF i
  <2>3. Running' = Running
    BY <1>3, <2>1 DEF Running
  <2>4. Content' = Content
    <3>1. \A u \in Threads : Content'[u] = Content[u]
      BY <1>1, <2>1, <2>2 DEF Content
    <3>2. QED
      BY <3>1 DEF Content
  <2>5. Content[i] = 0
    BY <2>1, <2>2 DEF Content
  <2>6. Mailbox!Want(i)
    BY <2>1, <2>3, <2>4, <2>5 DEF Mailbox!Want, Running, Content
  <2>7. QED
    BY <2>2, <2>6
<1>5. CASE Collect
  <2>1. CASE consolidate[support.i]
    <3>1. UNCHANGED handshakeVars
      BY <1>5, <2>1 DEF Collect, Collectable, handshakeVars
    <3>2. QED
      BY <1>3, <3>1, MailboxStutter
  <2>2. CASE ~consolidate[support.i]
    <3>1. PICK i \in Threads : i = support.i
      BY <1>1
    <3>2. /\ support.pc = "collect" /\ consolidate' = consolidate
          /\ consolidatedSample' = [consolidatedSample EXCEPT ![i] = 0]
      BY <1>5, <2>2, <3>1 DEF Collect, Collectable
    <3>3. consolidatedSample[i] > 0 /\ ~consolidate[i]
      BY <1>1, <2>2, <3>1, <3>2 DEF HandshakeInv, StoredInv
    <3>4. pc[i] # "lower"
      BY <3>3 DEF HandshakeInv, ThreadInv, OwnershipInv
    <3>5. Running' = Running
      <4>1. \A u \in Threads : Running'[u] = Running[u]
        BY <1>1, <1>3, <3>2, <3>4 DEF Running
      <4>2. QED
        BY <4>1 DEF Running
    <3>6. Content' = [Content EXCEPT ![i] = 0]
      <4>1. \A u \in Threads : Content'[u] = IF u = i THEN 0 ELSE Content[u]
        BY <1>1, <3>2, <3>3 DEF Content
      <4>2. QED
        BY <4>1 DEF Content
    <3>7. Content[i] > 0
      BY <3>3 DEF Content
    <3>8. Mailbox!Take(i)
      BY <3>2, <3>5, <3>6, <3>7 DEF Mailbox!Take, Running, Content
    <3>9. QED
      BY <3>8
  <2>3. QED
    BY <2>1, <2>2
<1>6. RaiseFlag \/ Collect \/ UNCHANGED handshakeVars
  BY DEF Support, SupportCheck, SupportReceive, EndWait, Aggregate, ReadPhaseId,
     ReadTotalThreads, Decide, SendResponse
<1>7. QED
  BY <1>3, <1>4, <1>5, <1>6, MailboxStutter

\* The consolidate flag, the two plain samples and the steps of begin() and of
\* the support thread implement the mailboxes of module Handover: whole samples,
\* handed over when asked for, each taken exactly once.
THEOREM HandoverImplemented == Spec => ImplementsHandover
<1>1. Init => Mailbox!Init
  BY DEF Init, Mailbox!Init
<1>2. TypeOK /\ HandshakeInv /\ MailboxInv /\ [Next]_vars =>
        [Mailbox!Next]_(Mailbox!vars)
  <2> SUFFICES ASSUME TypeOK, HandshakeInv, MailboxInv, [Next]_vars
               PROVE  Mailbox!Next \/ UNCHANGED <<Running, consolidate, Content>>
    BY DEF Mailbox!vars, Running, Content
  <2>1. ASSUME NEW t \in Threads, ApplicationThread(t)
        PROVE  Mailbox!Next \/ UNCHANGED <<Running, consolidate, Content>>
    BY <2>1, HandoverThreadStep DEF Mailbox!Next
  <2>2. CASE Support
    BY <2>2, HandoverSupportStep DEF Mailbox!Next
  <2>3. CASE Main
    <3>1. OtherThanMain
      BY <2>3 DEF Main, terminate, SetPhaseId, setTotalThreads, CallTerminate,
         SumTasks, SetStop, JoinSupport, SendStop, ReceiveAck, DestroyApplication
    <3>2. QED
      BY <3>1, MailboxStutter DEF OtherThanMain
  <2>4. CASE Monitor
    <3>1. OtherThanMonitor
      BY <2>4 DEF Monitor, waitStart, RequestSample, ReceiveResponse, SendAck,
         DestroyMonitor
    <3>2. QED
      BY <3>1, MailboxStutter DEF OtherThanMonitor, samplingVars
  <2>5. CASE Channel
    BY <2>5, MailboxStutter DEF Channel, samplingVars
  <2>6. CASE UNCHANGED vars
    BY <2>6, MailboxStutter DEF vars, samplingVars
  <2>7. QED
    BY <2>1, <2>2, <2>3, <2>4, <2>5, <2>6 DEF Next
<1>3. QED
  BY <1>1, <1>2, Handshake, Mailboxes, PTL DEF Spec, ImplementsHandover, Mailbox!Spec
=============================================================================
