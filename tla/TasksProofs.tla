----------------------------- MODULE TasksProofs -----------------------------
(***************************************************************************)
(* No task is lost, invented or reported twice, for every number of        *)
(* threads: from the iterations that the threads execute, through the      *)
(* samples, answers and messages, to the summary that the monitor gets.    *)
(*                                                                         *)
(* CountInv relates what each thread has executed to what it has counted,  *)
(* TotalInv the sum of terminate() to both, MessagesInv carries it to the  *)
(* monitor, and BalanceInv says where the counted tasks are.  The session  *)
(* of module Session follows from these and from the protocol.             *)
(***************************************************************************)
EXTENDS ProtocolProofs, SumProofs

USE DEF FirstCheck, SecondCheck, TasksAfterStore, SupportJoined

-----------------------------------------------------------------------------
(* Sums over the threads and over the messages. *)

LEMMA ThreadsFinite == IsFiniteSet(Threads)
  BY RiffAssumption, FS_Interval DEF Threads

\* The tasks of the answers in a queue.
Tasks(q) == SumOver([k \in DOMAIN q |-> TasksOf(q[k])])

LEMMA TasksOfNat ==
  ASSUME NEW m \in Message PROVE TasksOf(m) \in Nat
  BY DEF TasksOf, Message

LEMMA TasksNat ==
  ASSUME NEW q \in Seq(Message) PROVE Tasks(q) \in Nat
<1>1. DOMAIN q = 1 .. Len(q) /\ Len(q) \in Nat
  BY LenProperties
<1>2. IsFiniteSet(DOMAIN q)
  BY <1>1, FS_Interval
<1>3. [k \in DOMAIN q |-> TasksOf(q[k])] \in [DOMAIN q -> Nat]
  BY TasksOfNat
<1>4. QED
  BY <1>2, <1>3, SumNat DEF Tasks

LEMMA TasksEmpty == Tasks(<< >>) = 0
<1> DEFINE f == [k \in DOMAIN << >> |-> TasksOf(<< >>[k])]
<1>1. f \in [{} -> Nat]
  OBVIOUS
<1> HIDE DEF f
<1>2. IsFiniteSet({})
  BY FS_EmptySet
<1>3. SumOver(f) = 0
  BY <1>1, <1>2, SumZero
<1>4. QED
  BY <1>3 DEF Tasks, f

LEMMA TasksAppend ==
  ASSUME NEW q \in Seq(Message), NEW m \in Message
  PROVE  Tasks(Append(q, m)) = Tasks(q) + TasksOf(m)
<1> DEFINE n == Len(q)
           r == Append(q, m)
           f == [k \in DOMAIN q |-> TasksOf(q[k])]
           g == [k \in DOMAIN r |-> TasksOf(r[k])]
<1>1. n \in Nat /\ DOMAIN q = 1 .. n
  BY LenProperties
<1>2. /\ r \in Seq(Message) /\ DOMAIN r = 1 .. n + 1
      /\ r[n + 1] = m /\ \A k \in 1 .. n : r[k] = q[k]
  BY <1>1
<1>3. f \in [1 .. n -> Nat]
  BY <1>1, TasksOfNat
<1>4. g \in [1 .. n + 1 -> Nat]
  <2>1. \A k \in DOMAIN r : r[k] \in Message
    BY <1>2
  <2>2. g \in [DOMAIN r -> Nat]
    BY <2>1, TasksOfNat
  <2>3. QED
    BY <1>2, <2>2
<1>5. (\A k \in 1 .. n : f[k] = g[k]) /\ g[n + 1] = TasksOf(m)
  BY <1>1, <1>2
<1> HIDE DEF n, f, g, r
<1>6. SumOver(g) = SumOver(f) + g[n + 1]
  BY <1>1, <1>3, <1>4, <1>5, SumLonger
<1>7. QED
  BY <1>5, <1>6 DEF Tasks, f, g, r

LEMMA TasksTail ==
  ASSUME NEW q \in Seq(Message), q # << >>
  PROVE  Tasks(q) = TasksOf(Head(q)) + Tasks(Tail(q))
<1> DEFINE n == Len(q) - 1
           r == Tail(q)
           f == [k \in DOMAIN q |-> TasksOf(q[k])]
           g == [k \in DOMAIN r |-> TasksOf(r[k])]
<1>1. n \in Nat /\ DOMAIN q = 1 .. n + 1 /\ Head(q) = q[1]
  <2>1. Len(q) \in Nat \ {0} /\ DOMAIN q = 1 .. Len(q)
    BY LenProperties, EmptySeq
  <2>2. QED
    BY <2>1
<1>2. /\ r \in Seq(Message) /\ DOMAIN r = 1 .. n
      /\ \A k \in 1 .. n : r[k] = q[k + 1]
  <2>1. /\ r \in Seq(Message) /\ Len(r) = n
        /\ \A k \in 1 .. Len(r) : r[k] = q[k + 1]
    BY HeadTailProperties
  <2>2. QED
    BY <2>1, LenProperties
<1>3. f \in [1 .. n + 1 -> Nat] /\ g \in [1 .. n -> Nat]
  <2>1. (\A k \in DOMAIN q : q[k] \in Message) /\ (\A k \in DOMAIN r : r[k] \in Message)
    BY <1>2
  <2>2. f \in [DOMAIN q -> Nat] /\ g \in [DOMAIN r -> Nat]
    BY <2>1, TasksOfNat
  <2>3. QED
    BY <1>1, <1>2, <2>2
<1>4. (\A k \in 1 .. n : g[k] = f[k + 1]) /\ f[1] = TasksOf(Head(q))
  <2>1. \A k \in 1 .. n : k + 1 \in DOMAIN q /\ k \in DOMAIN r
    BY <1>1, <1>2
  <2>2. 1 \in DOMAIN q
    BY <1>1
  <2>3. QED
    BY <1>1, <1>2, <2>1, <2>2
<1> HIDE DEF n, f, g, r
<1>5. SumOver(f) = f[1] + SumOver(g)
  BY <1>1, <1>3, <1>4, SumTail
<1>6. QED
  BY <1>4, <1>5 DEF Tasks, f, g, r

LEMMA InFlightIs == InFlightTasks = Tasks(ToMon)
  BY DEF InFlightTasks, Tasks, ToMon

LEMMA SumsNat ==
  ASSUME TypeOK
  PROVE  /\ SumOver(numTasks) \in Nat /\ SumOver(consolidatedSample) \in Nat
         /\ SumOver(totalTasks) \in Nat /\ SumOver(done) \in Nat
         /\ support.tasks \in Nat /\ delivered \in Nat /\ dropped \in Nat
         /\ InFlightTasks \in Nat
<1>1. /\ numTasks \in [Threads -> Nat] /\ consolidatedSample \in [Threads -> Nat]
      /\ totalTasks \in [Threads -> Nat] /\ done \in [Threads -> Nat]
  BY DEF TypeOK, SamplingTypes, HandshakeTypes, HistoryTypes
<1>2. support.tasks \in Nat /\ delivered \in Nat /\ dropped \in Nat
  BY DEF TypeOK, SupportTypes, HistoryTypes
<1>3. InFlightTasks \in Nat
  BY InFlightIs, TasksNat, Boxes
<1>4. QED
  BY <1>1, <1>2, <1>3, SumNat, ThreadsFinite

-----------------------------------------------------------------------------
(* What each thread has executed and counted. *)

\* What a thread that is in a call or a task will have counted when it ends the
\* task, or will have in its counter.
Uncounted(t) ==
  IF currentSample[t] = 0 THEN samplingLength[t] ELSE currentSample[t]

\* The loop of terminate() has added t's counter to its total.
Summed(t) == ~NotTerminating /\ (main.pc = "sum" => t < main.i)

CountOf(t) ==
  /\ Summed(t) => done[t] = totalTasks[t]
  /\ ~Summed(t) /\ pc[t] \in {"idle", "finished"} =>
       done[t] = totalTasks[t] + currentSample[t]
  /\ ~Summed(t) /\ pc[t] \notin {"idle", "finished"} =>
       done[t] + 1 = totalTasks[t] + Uncounted(t)

CountInv == \A t \in Threads : CountOf(t)

\* The end of begin() realigns counter and length.
LEMMA FinishCount ==
  ASSUME TypeOK, NEW t \in Threads, NEW length \in Nat \ {0},
         FinishBegin(t, length), currentSample[t] < samplingLength[t],
         ClosesInterval(t) \/ length = samplingLength[t]
  PROVE  Uncounted(t)' = Uncounted(t) /\ pc'[t] = "task"
<1>1. pc'[t] = "task"
  BY DEF FinishBegin, Goto, TypeOK, ThreadTypes
<1>2. currentSample[t] \in Nat /\ samplingLength[t] \in Nat \ {0}
  BY DEF TypeOK, SamplingTypes
<1>3. /\ samplingLength'[t] = length
      /\ currentSample'[t] =
           IF samplingLength[t] = 1 /\ length > 1 THEN 1
           ELSE IF samplingLength[t] > 1 /\ length = 1 THEN 0
           ELSE currentSample[t]
  BY DEF FinishBegin, TypeOK, SamplingTypes
<1>4. QED
  BY <1>1, <1>2, <1>3 DEF ClosesInterval, Uncounted

LEMMA CountStepOwn ==
  ASSUME TypeOK, NEW t \in Threads, CountingInv(t), CountOf(t), ~Summed(t),
         ~Summed(t)', ApplicationThread(t)
  PROVE  CountOf(t)'
<1>1. /\ currentSample \in [Threads -> Nat]
      /\ samplingLength \in [Threads -> Nat \ {0}]
      /\ totalTasks \in [Threads -> Nat]
      /\ done \in [Threads -> Nat]
      /\ currentSample[t] < samplingLength[t]
  BY DEF TypeOK, SamplingTypes, HistoryTypes, CountingInv
<1>2. ASSUME NEW label, Goto(t, label)
      PROVE  pc'[t] = label
  BY <1>2 DEF Goto, TypeOK, ThreadTypes
<1>3. CASE Begin(t)
  <2>1. /\ pc[t] = "idle" /\ pc'[t] \in {"task", "update", "lock"}
        /\ currentSample'[t] = NextSample(t)
        /\ UNCHANGED <<samplingLength, totalTasks, done>>
    BY <1>1, <1>2, <1>3 DEF Begin, ghostVars
  <2>2. done[t] = totalTasks[t] + currentSample[t]
    BY <2>1 DEF CountOf
  <2>3. done[t] + 1 = totalTasks[t] + Uncounted(t)'
    BY <1>1, <2>1, <2>2 DEF NextSample, Uncounted
  <2>4. QED
    BY <2>1, <2>3 DEF CountOf
<1>4. ASSUME pc[t] \notin {"idle", "finished"}, pc'[t] \notin {"idle", "finished"},
             Uncounted(t)' = Uncounted(t), UNCHANGED <<totalTasks, done>>
      PROVE  CountOf(t)'
  BY <1>4 DEF CountOf
<1>5. CASE Lock(t)
  <2>1. pc[t] = "lock" /\ pc'[t] \in {"unlock", "notify"}
    BY <1>2, <1>5 DEF Lock
  <2>2. QED
    BY <1>4, <1>5, <2>1 DEF Lock, Uncounted, samplingVars, ghostVars
<1>6. CASE notifyStart(t) \/ SetStarted(t) \/ Unlock(t) \/ FindRequest(t)
  <2>1. /\ pc[t] \in {"notify", "started", "unlock", "update"}
        /\ pc'[t] \in {"started", "unlock", "update", "store"}
    BY <1>2, <1>6 DEF notifyStart, SetStarted, Unlock, FindRequest
  <2>2. UNCHANGED <<samplingVars, ghostVars>>
    BY <1>6 DEF notifyStart, SetStarted, Unlock, FindRequest
  <2>3. QED
    BY <1>4, <2>1, <2>2 DEF Uncounted, samplingVars, ghostVars
<1>7. CASE StoreSample(t)
  <2>1. pc[t] = "store" /\ pc'[t] = "lower"
    BY <1>2, <1>7 DEF StoreSample
  <2>2. QED
    BY <1>4, <1>7, <2>1 DEF StoreSample, Uncounted, ghostVars
<1>8. ASSUME NEW length \in Nat \ {0}, FinishBegin(t, length),
             pc[t] \in {"update", "lower"},
             ClosesInterval(t) \/ length = samplingLength[t]
      PROVE  CountOf(t)'
  <2>1. UNCHANGED <<totalTasks, done>>
    BY <1>8 DEF FinishBegin, ghostVars
  <2>2. Uncounted(t)' = Uncounted(t) /\ pc'[t] = "task"
    BY <1>1, <1>8, FinishCount
  <2>3. QED
    BY <1>4, <1>8, <2>1, <2>2
<1>9. CASE StartTimer(t)
  BY <1>1, <1>8, <1>9 DEF StartTimer
<1>10. CASE Update(t)
  BY <1>8, <1>10, RiffAssumption DEF Update
<1>11. CASE LowerFlag(t)
  BY <1>8, <1>11, RiffAssumption DEF LowerFlag, CountingInv
<1>12. CASE End(t)
  <2>1. pc[t] = "task" /\ pc'[t] = "idle" /\ currentSample' = currentSample
    BY <1>2, <1>12 DEF End
  <2>2. /\ done'[t] = done[t] + 1
        /\ totalTasks'[t] = totalTasks[t]
             + (IF currentSample[t] = 0 THEN samplingLength[t] ELSE 0)
    BY <1>1, <1>12 DEF End
  <2>3. done[t] + 1 = totalTasks[t] + Uncounted(t)
    BY <2>1 DEF CountOf
  <2>4. done'[t] = totalTasks'[t] + currentSample'[t]
    BY <1>1, <2>1, <2>2, <2>3 DEF Uncounted
  <2>5. QED
    BY <2>1, <2>4 DEF CountOf
<1>13. CASE Finish(t)
  <2>1. pc[t] = "idle" /\ pc'[t] = "finished"
    BY <1>2, <1>13 DEF Finish
  <2>2. QED
    BY <1>13, <2>1 DEF Finish, CountOf, samplingVars, ghostVars
<1>14. QED
  BY <1>3, <1>5, <1>6, <1>7, <1>9, <1>10, <1>11, <1>12, <1>13 DEF ApplicationThread

\* What terminate() counts for a finished thread is what the thread executed.
LEMMA FinalTasksExact ==
  ASSUME OwnerInv, NEW t \in Threads, CountOf(t), main.pc = "sum", ~(t < main.i)
  PROVE  FinalTasks(t) = done[t]
<1>1. pc[t] = "finished"
  BY DEF OwnerInv, NotTerminating
<1>2. ~Summed(t)
  BY DEF Summed
<1>3. QED
  BY <1>1, <1>2 DEF CountOf, FinalTasks

\* The loop of terminate() runs from thread 0 to the last one.
OwnerIndex == NotTerminating => main.i = 0 /\ main.total = 0

LEMMA CountStep ==
  ASSUME TypeOK, HandshakeInv, OwnerInv, OwnerIndex, CountInv, [Next]_vars
  PROVE  CountInv'
<1> SUFFICES ASSUME NEW u \in Threads, CountOf(u)
             PROVE  CountOf(u)'
  BY DEF CountInv
<1>1. ASSUME NEW t \in Threads, ApplicationThread(t)
      PROVE  CountOf(u)'
  <2>1. NotTerminating /\ main' = main
    BY <1>1, FinishedStops DEF ApplicationThread, Begin, Lock, notifyStart,
       SetStarted, Unlock, StartTimer, Update, FindRequest, StoreSample, LowerFlag,
       End, Finish, FinishBegin, OtherProcesses
  <2>2. ~Summed(u) /\ ~Summed(u)'
    BY <2>1 DEF Summed, NotTerminating
  <2>3. CASE u = t
    BY <1>1, <2>2, <2>3, CountStepOwn DEF HandshakeInv, ThreadInv
  <2>4. CASE u # t
    <3>1. /\ pc'[u] = pc[u] /\ currentSample'[u] = currentSample[u]
          /\ samplingLength'[u] = samplingLength[u]
      BY <1>1, <2>4, OthersUntouched DEF SameCounting
    <3>2. done'[u] = done[u] /\ totalTasks'[u] = totalTasks[u]
      <4>1. /\ totalTasks \in [Threads -> Nat] /\ done \in [Threads -> Nat]
        BY DEF TypeOK, SamplingTypes, HistoryTypes
      <4>2. CASE End(t)
        BY <2>4, <4>1, <4>2 DEF End
      <4>3. CASE ~End(t)
        BY <1>1, <4>3 DEF ApplicationThread, Begin, Lock, notifyStart, SetStarted,
           Unlock, StartTimer, Update, FindRequest, StoreSample, LowerFlag, Finish,
           FinishBegin, samplingVars, ghostVars
      <4>4. QED
        BY <4>2, <4>3
    <3>3. QED
      BY <2>2, <3>1, <3>2 DEF CountOf, Uncounted
  <2>5. QED
    BY <2>3, <2>4
<1>2. ASSUME UNCHANGED <<pc, currentSample, samplingLength, done>>,
             totalTasks'[u] = totalTasks[u], Summed(u)' <=> Summed(u)
      PROVE  CountOf(u)'
  BY <1>2 DEF CountOf, Uncounted
<1>3. ASSUME UNCHANGED <<samplingVars, pc, main, done>>
      PROVE  CountOf(u)'
  BY <1>2, <1>3 DEF Summed, NotTerminating, samplingVars
<1>4. CASE Support
  BY <1>3, <1>4 DEF Support, SupportCheck, SupportReceive, RaiseFlag, EndWait,
     Collect, Aggregate, ReadPhaseId, ReadTotalThreads, Decide, SendResponse,
     OtherThanSupport
<1>5. CASE Monitor
  BY <1>3, <1>5 DEF Monitor, waitStart, RequestSample, ReceiveResponse, SendAck,
     DestroyMonitor, OtherThanMonitor
<1>6. CASE Channel \/ UNCHANGED vars
  BY <1>3, <1>6 DEF Channel, vars, ghostVars
<1>7. CASE Main
  <2>1. /\ UNCHANGED <<pc, currentSample, samplingLength, done>>
        /\ MainTypes /\ u \in Nat /\ main.i \in Nat /\ main.i \in Threads
    BY <1>7, ThreadNumber DEF Main, terminate, SetPhaseId, setTotalThreads,
       CallTerminate, SumTasks, SetStop, JoinSupport, SendStop, ReceiveAck,
       DestroyApplication, OtherThanMain, ghostVars, TypeOK, MainTypes
  <2>2. CASE SetPhaseId \/ setTotalThreads
    <3>1. ~Summed(u) /\ ~Summed(u)' /\ totalTasks' = totalTasks
      BY <2>1, <2>2 DEF SetPhaseId, setTotalThreads, Summed, NotTerminating, MainTypes
    <3>2. QED
      BY <1>2, <2>1, <3>1
  <2>3. CASE CallTerminate
    <3>1. main.pc = "run" /\ main'.pc = "sum" /\ main'.i = main.i
          /\ totalTasks' = totalTasks
      BY <2>1, <2>3 DEF CallTerminate, MainTypes
    <3>2. main.i = 0
      BY <3>1 DEF OwnerIndex, NotTerminating
    <3>3. ~Summed(u) /\ ~Summed(u)'
      BY <2>1, <3>1, <3>2 DEF Summed, NotTerminating
    <3>4. QED
      BY <1>2, <2>1, <3>1, <3>3
  <2>4. CASE SumTasks
    <3>1. /\ main.pc = "sum"
          /\ totalTasks' = [totalTasks EXCEPT ![main.i] = FinalTasks(main.i)]
          /\ \/ main'.pc = "sum" /\ main'.i = main.i + 1
             \/ main'.pc = "setStop" /\ main.i + 1 >= NumThreads
      BY <2>1, <2>4, RiffAssumption DEF SumTasks, MainTypes
    <3>2. Summed(u) <=> u < main.i
      BY <3>1 DEF Summed, NotTerminating
    <3>3. Summed(u)' <=> u <= main.i
      <4>1. u < NumThreads
        BY RiffAssumption DEF Threads
      <4>2. QED
        BY <2>1, <3>1, <4>1, RiffAssumption DEF Summed, NotTerminating
    <3>4. CASE u = main.i
      <4>1. FinalTasks(u) = done[u]
        BY <2>1, <3>1, <3>4, FinalTasksExact
      <4>2. totalTasks'[u] = done[u]
        BY <3>1, <3>4, <4>1 DEF TypeOK, SamplingTypes
      <4>3. QED
        BY <2>1, <3>3, <3>4, <4>2 DEF CountOf
    <3>5. CASE u # main.i
      <4>1. totalTasks'[u] = totalTasks[u]
        BY <3>1, <3>5 DEF TypeOK, SamplingTypes
      <4>2. Summed(u)' <=> Summed(u)
        BY <2>1, <3>2, <3>3, <3>5
      <4>3. QED
        BY <1>2, <2>1, <4>1, <4>2
    <3>6. QED
      BY <3>4, <3>5
  <2>5. CASE SetStop \/ JoinSupport \/ SendStop \/ ReceiveAck \/ DestroyApplication
    <3>1. /\ main.pc \in {"setStop", "join", "stop", "ack", "returned"}
          /\ main'.pc \in {"join", "stop", "ack", "returned", "destroyed"}
          /\ totalTasks' = totalTasks
      BY <2>1, <2>5 DEF SetStop, JoinSupport, SendStop, ReceiveAck, DestroyApplication,
         MainTypes
    <3>2. Summed(u) /\ Summed(u)'
      BY <3>1 DEF Summed, NotTerminating
    <3>3. QED
      BY <1>2, <2>1, <3>1, <3>2
  <2>6. QED
    BY <1>7, <2>2, <2>3, <2>4, <2>5 DEF Main, terminate
<1>8. QED
  BY <1>1, <1>4, <1>5, <1>6, <1>7 DEF Next

-----------------------------------------------------------------------------
(* The sum of terminate(). *)

\* The tasks of the threads that the loop of terminate() has gone over.
SoFar == [t \in Threads |-> IF t < main.i THEN done[t] ELSE 0]

TotalInv ==
  /\ OwnerIndex
  /\ main.pc = "sum" => main.total = SumOver(SoFar)
  /\ ~NotTerminating /\ main.pc # "sum" => main.total = SumOver(done)

\* One round of the loop adds what the next thread has executed.
LEMMA SumRound ==
  ASSUME TypeOK, OwnerInv, CountInv, main.pc = "sum"
  PROVE  main.i \in Threads /\ SumOver(SoFar) \in Nat
         /\ SumOver([t \in Threads |-> IF t <= main.i THEN done[t] ELSE 0])
              = SumOver(SoFar) + FinalTasks(main.i)
<1> DEFINE x == main.i
           f == SoFar
           g == [t \in Threads |-> IF t <= x THEN done[t] ELSE 0]
<1>1. x \in Threads /\ x \in Nat /\ \A t \in Threads : t \in Nat
  BY ThreadNumber DEF TypeOK, MainTypes
<1>2. FinalTasks(x) = done[x] /\ done[x] \in Nat
  BY <1>1, FinalTasksExact DEF CountInv, TypeOK, HistoryTypes
<1>3. f \in [Threads -> Nat] /\ g \in [Threads -> Nat]
  BY DEF SoFar, TypeOK, HistoryTypes
<1>4. \A t \in Threads : t # x => f[t] = g[t]
  BY <1>1 DEF SoFar
<1>5. f[x] = 0 /\ g[x] = done[x]
  BY <1>1 DEF SoFar
<1> HIDE DEF f, g, x
<1>6. SumOver(g) = SumOver(f) - f[x] + g[x] /\ SumOver(f) \in Nat
  BY <1>1, <1>3, <1>4, ThreadsFinite, SumExcept, SumNat
<1>7. SumOver(g) = SumOver(f) + FinalTasks(x)
  BY <1>2, <1>5, <1>6
<1>8. QED
  BY <1>1, <1>6, <1>7 DEF f, g, x

LEMMA TotalStep ==
  ASSUME TypeOK, OwnerInv, CountInv, TotalInv, [Next]_vars
  PROVE  TotalInv'
<1>1. ASSUME UNCHANGED <<main, done>>
      PROVE  TotalInv'
  BY <1>1 DEF TotalInv, OwnerIndex, NotTerminating, SoFar
<1>2. ASSUME NEW t \in Threads, ApplicationThread(t)
      PROVE  TotalInv'
  <2>1. NotTerminating /\ main' = main
    BY <1>2, FinishedStops DEF ApplicationThread, Begin, Lock, notifyStart,
       SetStarted, Unlock, StartTimer, Update, FindRequest, StoreSample, LowerFlag,
       End, Finish, FinishBegin, OtherProcesses
  <2>2. QED
    BY <2>1 DEF TotalInv, OwnerIndex, NotTerminating
<1>3. CASE Support
  BY <1>1, <1>3 DEF Support, SupportCheck, SupportReceive, RaiseFlag, EndWait,
     Collect, Aggregate, ReadPhaseId, ReadTotalThreads, Decide, SendResponse,
     OtherThanSupport
<1>4. CASE Monitor
  BY <1>1, <1>4 DEF Monitor, waitStart, RequestSample, ReceiveResponse, SendAck,
     DestroyMonitor, OtherThanMonitor
<1>5. CASE Channel \/ UNCHANGED vars
  BY <1>1, <1>5 DEF Channel, vars, ghostVars
<1>6. CASE Main
  <2>1. done' = done /\ MainTypes
    BY <1>6 DEF Main, terminate, SetPhaseId, setTotalThreads, CallTerminate,
       SumTasks, SetStop, JoinSupport, SendStop, ReceiveAck, DestroyApplication,
       OtherThanMain, ghostVars, TypeOK
  <2>2. CASE SetPhaseId \/ setTotalThreads
    <3>1. /\ main.pc \in {"run", "setTotalThreads"}
          /\ main'.pc \in {"run", "setTotalThreads"}
          /\ main'.i = main.i /\ main'.total = main.total
      BY <2>1, <2>2 DEF SetPhaseId, setTotalThreads, MainTypes
    <3>2. QED
      BY <3>1 DEF TotalInv, OwnerIndex, NotTerminating
  <2>3. CASE CallTerminate
    <3>1. /\ main.pc = "run" /\ main'.pc = "sum"
          /\ main'.i = main.i /\ main'.total = main.total
      BY <2>1, <2>3 DEF CallTerminate, MainTypes
    <3>2. main'.i = 0 /\ main'.total = 0
      BY <3>1 DEF TotalInv, OwnerIndex, NotTerminating
    <3> DEFINE f == SoFar'
    <3>3. f \in [Threads -> Nat] /\ \A t \in Threads : f[t] = 0
      <4>1. \A t \in Threads : ~(t < 0)
        BY ThreadNumber
      <4>2. f = [t \in Threads |-> IF t < 0 THEN done'[t] ELSE 0]
        BY <3>2 DEF SoFar
      <4>3. f = [t \in Threads |-> 0]
        BY <4>1, <4>2
      <4>4. QED
        BY <4>3
    <3> HIDE DEF f
    <3>4. SumOver(f) = 0
      BY <3>3, SumZero, ThreadsFinite
    <3>5. QED
      BY <3>1, <3>2, <3>4 DEF TotalInv, OwnerIndex, NotTerminating, f
  <2>4. CASE SumTasks
    <3> DEFINE g == [t \in Threads |-> IF t <= main.i THEN done[t] ELSE 0]
    <3>1. /\ main.pc = "sum" /\ main'.total = main.total + FinalTasks(main.i)
          /\ \/ main'.pc = "sum" /\ main'.i = main.i + 1
             \/ main'.pc = "setStop" /\ main.i + 1 >= NumThreads
      <4>1. /\ main.pc = "sum"
            /\ \/ main'.pc = "sum" /\ main'.i = main.i + 1
               \/ main'.pc = "setStop" /\ main.i + 1 >= NumThreads
        <5>1. main.i \in Nat
          BY <2>1, ThreadNumber DEF MainTypes
        <5>2. QED
          BY <2>1, <2>4, <5>1, RiffAssumption DEF SumTasks, MainTypes
      <4>2. main'.total = main.total + FinalTasks(main.i)
        BY <2>1, <2>4 DEF SumTasks, MainTypes
      <4>3. QED
        BY <4>1, <4>2
    <3>2. main.i \in Threads /\ SumOver(g) = main'.total
      BY <3>1, SumRound DEF TotalInv
    <3>3. CASE main'.pc = "sum"
      <4>1. \A t \in Threads : t < main.i + 1 <=> t <= main.i
        BY <3>2, ThreadNumber
      <4>2. SoFar' = g
        BY <2>1, <3>1, <3>3, <4>1 DEF SoFar
      <4>3. QED
        BY <3>2, <3>3, <4>2 DEF TotalInv, OwnerIndex, NotTerminating
    <3>4. CASE main'.pc = "setStop"
      <4>1. \A t \in Threads : t <= main.i
        BY <3>1, <3>2, <3>4, RiffAssumption DEF Threads
      <4>2. g = done'
        BY <2>1, <4>1 DEF TypeOK, HistoryTypes
      <4>3. QED
        BY <3>2, <3>4, <4>2 DEF TotalInv, OwnerIndex, NotTerminating
    <3>5. QED
      BY <3>1, <3>3, <3>4
  <2>5. CASE SetStop \/ JoinSupport \/ SendStop \/ ReceiveAck \/ DestroyApplication
    <3>1. /\ main.pc \in {"setStop", "join", "stop", "ack", "returned"}
          /\ main'.pc \in {"join", "stop", "ack", "returned", "destroyed"}
          /\ main'.total = main.total
      BY <2>1, <2>5 DEF SetStop, JoinSupport, SendStop, ReceiveAck, DestroyApplication,
         MainTypes
    <3>2. QED
      BY <2>1, <3>1 DEF TotalInv, OwnerIndex, NotTerminating
  <2>6. QED
    BY <1>6, <2>2, <2>3, <2>4, <2>5 DEF Main, terminate
<1>7. QED
  BY <1>2, <1>3, <1>4, <1>5, <1>6 DEF Next

LEMMA Totals == Spec => [](CountInv /\ TotalInv)
<1>1. Init => CountInv /\ TotalInv
  BY DEF Init, CountInv, CountOf, Summed, NotTerminating, TotalInv, OwnerIndex
<1>2. TotalInv => OwnerIndex
  BY DEF TotalInv
<1>3. QED
  BY <1>1, <1>2, CountStep, TotalStep, Protocol, PTL DEF Spec

-----------------------------------------------------------------------------
(* What the messages to the monitor carry. *)

\* The messages that are sent to the monitor.
StartMessage == Msg("START", 0, 0, phaseId, totalThreads)

Answer == Msg("RES", support.tasks, support.updated, support.phaseId,
              support.totalThreads)

StopMessage == Msg("STOP", main.total, 0, 0, 0)

LEMMA Sent ==
  ASSUME TypeOK
  PROVE  /\ StartMessage \in Message /\ StartMessage.type = "START"
         /\ Answer \in Message /\ Answer.type = "RES"
         /\ Answer.tasks = support.tasks
         /\ StopMessage \in Message /\ StopMessage.type = "STOP"
         /\ StopMessage.tasks = main.total
<1>1. StartMessage \in Message
  BY MsgType DEF StartMessage, TypeOK, SharedTypes, MessageType
<1>2. Answer \in Message
  BY MsgType DEF Answer, TypeOK, SupportTypes, MessageType
<1>3. StopMessage \in Message
  BY MsgType DEF StopMessage, TypeOK, MainTypes, MessageType
<1>4. QED
  BY <1>1, <1>2, <1>3 DEF StartMessage, Answer, StopMessage, Msg

\* The only ways in which the queue of the monitor changes.
LEMMA ToMonMoves ==
  ASSUME TypeOK, OwnerInv, ProtocolInv
  PROVE  /\ \A t \in Threads : ApplicationThread(t) =>
              ToMon' = ToMon \/ ToMon' = Append(ToMon, StartMessage)
         /\ Support =>
              ToMon' = ToMon \/ (SendResponse /\ ToMon' = Append(ToMon, Answer))
         /\ Main => ToMon' = ToMon \/ (SendStop /\ ToMon' = Append(ToMon, StopMessage))
         /\ Monitor =>
              \/ ToMon' = ToMon /\ ~waitStart /\ ~ReceiveResponse
              \/ /\ waitStart \/ ReceiveResponse
                 /\ ToMon # << >> /\ ToMon' = Tail(ToMon)
         /\ Channel => ToMon' = ToMon \/ (ToMon' = << >> /\ main.pc = "destroyed")
         /\ UNCHANGED vars => ToMon' = ToMon
<1>1. closed["mon"] => StopSent
  BY DEF OwnerInv, ProtocolInv, AtEnd
<1>2. UNCHANGED channelVars => ToMon' = ToMon
  BY DEF channelVars, ToMon
<1>3. ASSUME NEW t \in Threads, ApplicationThread(t)
      PROVE  ToMon' = ToMon \/ ToMon' = Append(ToMon, StartMessage)
  <2>1. CASE notifyStart(t)
    <3>1. ~closed["mon"]
      BY <1>1, <1>3, FinishedStops DEF NotTerminating, StopSent
    <3>2. Send("app", StartMessage)
      BY <2>1 DEF notifyStart, StartMessage
    <3>3. QED
      BY <2>1, <3>1, <3>2, SendToMon
  <2>2. ~notifyStart(t) => UNCHANGED channelVars
    BY <1>3 DEF ApplicationThread, Begin, Lock, SetStarted, Unlock, StartTimer,
       Update, FindRequest, StoreSample, LowerFlag, End, Finish, FinishBegin
  <2>3. QED
    BY <1>2, <2>1, <2>2
<1>4. ASSUME Support
      PROVE  ToMon' = ToMon \/ (SendResponse /\ ToMon' = Append(ToMon, Answer))
  <2>1. CASE SendResponse
    <3>1. support.pc = "send" /\ Send("app", Answer)
      BY <2>1 DEF SendResponse, Answer
    <3>2. ~closed["mon"]
      BY <1>1, <3>1 DEF OwnerInv
    <3>3. QED
      BY <2>1, <3>1, <3>2, SendToMon
  <2>2. CASE SupportReceive
    BY <2>2, ReceiveByApp DEF SupportReceive
  <2>3. SendResponse \/ SupportReceive \/ UNCHANGED channelVars
    BY <1>4 DEF Support, SupportCheck, RaiseFlag, EndWait, Collect, Aggregate,
       ReadPhaseId, ReadTotalThreads, Decide
  <2>4. QED
    BY <1>2, <2>1, <2>2, <2>3
<1>5. ASSUME Main
      PROVE  ToMon' = ToMon \/ (SendStop /\ ToMon' = Append(ToMon, StopMessage))
  <2>1. CASE SendStop
    <3>1. main.pc = "stop" /\ Send("app", StopMessage)
      BY <2>1 DEF SendStop, StopMessage
    <3>2. ~closed["mon"]
      BY <1>1, <3>1 DEF StopSent
    <3>3. QED
      BY <2>1, <3>1, <3>2, SendToMon
  <2>2. CASE ReceiveAck
    BY <2>2, ReceiveByApp DEF ReceiveAck
  <2>3. CASE DestroyApplication
    BY <2>3, Boxes DEF DestroyApplication, Close, ToMon
  <2>4. SendStop \/ ReceiveAck \/ DestroyApplication \/ UNCHANGED channelVars
    BY <1>5 DEF Main, terminate, SetPhaseId, setTotalThreads, CallTerminate,
       SumTasks, SetStop, JoinSupport
  <2>5. QED
    BY <1>2, <2>1, <2>2, <2>3, <2>4
<1>6. ASSUME Monitor
      PROVE  \/ ToMon' = ToMon /\ ~waitStart /\ ~ReceiveResponse
             \/ /\ waitStart \/ ReceiveResponse
                /\ ToMon # << >> /\ ToMon' = Tail(ToMon)
  <2>1. CASE waitStart \/ ReceiveResponse
    BY <2>1, ReceiveByMon DEF waitStart, ReceiveResponse
  <2>2. CASE RequestSample \/ SendAck
    BY <2>2, SendToApp DEF RequestSample, SendAck, waitStart, ReceiveResponse
  <2>3. CASE DestroyMonitor
    <3>1. ToMon = << >>
      BY <2>3 DEF DestroyMonitor, ProtocolInv, AtEnd
    <3>2. ToMon' = << >>
      BY <2>3, Boxes DEF DestroyMonitor, Close, ToMon
    <3>3. QED
      BY <2>3, <3>1, <3>2 DEF DestroyMonitor, waitStart, ReceiveResponse
  <2>4. QED
    BY <1>6, <2>1, <2>2, <2>3 DEF Monitor
<1>7. ASSUME Channel
      PROVE  ToMon' = ToMon \/ (ToMon' = << >> /\ main.pc = "destroyed")
  <2>1. CASE DropPipe("mon")
    BY <2>1, Boxes DEF DropPipe, ToMon, OwnerInv
  <2>2. CASE DropPipe("app")
    BY <2>2, Boxes DEF DropPipe, ToMon
  <2>3. DropPipe("mon") \/ DropPipe("app") \/ inbox' = inbox
    BY <1>7 DEF Channel, Attach, Sides
  <2>4. QED
    BY <2>1, <2>2, <2>3 DEF ToMon
<1>8. UNCHANGED vars => ToMon' = ToMon
  BY <1>2 DEF vars
<1>9. QED
  BY <1>3, <1>4, <1>5, <1>6, <1>7, <1>8

\* The total of terminate() does not change once STOP has been sent.
LEMMA StopStays ==
  ASSUME TypeOK, OwnerInv, StopSent, [Next]_vars
  PROVE  StopSent' /\ main'.total = main.total
<1>1. CASE main' = main
  BY <1>1 DEF StopSent
<1>2. CASE Main
  <2>1. ReceiveAck \/ DestroyApplication
    BY <1>2 DEF Main, terminate, SetPhaseId, setTotalThreads, CallTerminate,
       SumTasks, SetStop, JoinSupport, SendStop, StopSent
  <2>2. QED
    BY <2>1 DEF ReceiveAck, DestroyApplication, StopSent, TypeOK, MainTypes
<1>3. main' = main \/ Main
  BY DEF Next, ApplicationThread, Begin, Lock, notifyStart, SetStarted, Unlock,
     StartTimer, Update, FindRequest, StoreSample, LowerFlag, End, Finish,
     FinishBegin, OtherProcesses, Support, SupportCheck, SupportReceive, RaiseFlag,
     EndWait, Collect, Aggregate, ReadPhaseId, ReadTotalThreads, Decide,
     SendResponse, OtherThanSupport, Monitor, waitStart, RequestSample,
     ReceiveResponse, SendAck, DestroyMonitor, OtherThanMonitor, Channel, vars
<1>4. QED
  BY <1>1, <1>2, <1>3

\* The answer being built holds at least one task for each sample in it, and
\* none is discarded before terminate().
AnswerInv ==
  /\ support.pc \in {"check", "recv", "raise", "exited"} => support.tasks = 0
  /\ support.updated <= support.tasks
  /\ ~supportStop => dropped = 0

\* An answer reports a task of each thread, STOP the total of terminate().
MessageInv(m, stopSent, total) ==
  /\ m.type = "RES" => m.tasks >= NumThreads
  /\ m.type = "STOP" => stopSent /\ m.tasks = total

MessagesInv ==
  /\ \A k \in DOMAIN ToMon : MessageInv(ToMon[k], StopSent, main.total)
  /\ mon.pc \in {"ack", "ended", "destroyed"} => mon.total = main.total

LEMMA AdvanceTasks ==
  ASSUME SupportTypes, NEW within, NEW after
  PROVE  Advance(within, after).tasks = support.tasks
  BY DEF Advance, SupportTypes

LEMMA AnswerStep ==
  ASSUME TypeOK, HandshakeInv, AnswerInv, [Next]_vars
  PROVE  AnswerInv'
<1>1. SupportTypes
  BY DEF TypeOK
<1>2. ASSUME UNCHANGED <<support, dropped>>, supportStop => supportStop'
      PROVE  AnswerInv'
  BY <1>2 DEF AnswerInv
<1>3. CASE Support
  <2>1. UNCHANGED supportStop
    BY <1>3 DEF Support, SupportCheck, SupportReceive, RaiseFlag, EndWait, Collect,
       Aggregate, ReadPhaseId, ReadTotalThreads, Decide, SendResponse,
       OtherThanSupport
  <2>2. ASSUME NEW label, support' = SupportAt(label), UNCHANGED dropped
        PROVE  AnswerInv'
    BY <2>1, <2>2 DEF AnswerInv, SupportAt
  <2>3. CASE SupportCheck \/ SupportReceive \/ SendResponse
    BY <2>2, <2>3 DEF SupportCheck, SupportReceive, SendResponse
  <2>4. CASE RaiseFlag
    <3>1. support'.tasks = support.tasks /\ support'.updated = support.updated
      BY <1>1, <2>4, AdvanceTasks, AdvanceCases DEF RaiseFlag
    <3>2. support.tasks = 0 /\ dropped' = dropped
      BY <2>4 DEF RaiseFlag, AnswerInv
    <3>3. QED
      BY <2>1, <3>1, <3>2 DEF AnswerInv
  <2>5. CASE EndWait \/ Aggregate \/ ReadPhaseId \/ ReadTotalThreads
    <3>1. /\ support'.tasks = support.tasks /\ support'.updated = support.updated
          /\ support'.pc \in {"collect", "failed", "phase", "threads", "decide"}
          /\ dropped' = dropped
      BY <1>1, <2>5 DEF EndWait, Aggregate, ReadPhaseId, ReadTotalThreads,
         SupportTypes
    <3>2. QED
      BY <2>1, <3>1 DEF AnswerInv
  <2>6. CASE Collect
    <3> DEFINE next == Advance("wait", "aggregate")
    <3>1. /\ next.pc \in {"wait", "aggregate"} /\ next.tasks = support.tasks
          /\ next.updated = support.updated
      BY <1>1, AdvanceCases, AdvanceTasks
    <3>2. next \in [pc : {"raise", "wait", "aggregate"}, i : Threads, updated : Nat,
                    tasks : Nat, phaseId : Nat, totalThreads : Nat]
      BY <1>1, AdvanceTypes
    <3>3. dropped' = dropped
      BY <2>6 DEF Collect
    <3> HIDE DEF next
    <3>4. CASE Collectable(support.i)
      <4>1. support' = [next EXCEPT !.updated = @ + 1,
                          !.tasks = @ + consolidatedSample[support.i]]
        BY <2>6, <3>4 DEF Collect, next
      <4>2. /\ support'.pc = next.pc /\ support'.updated = next.updated + 1
            /\ support'.tasks = next.tasks + consolidatedSample[support.i]
        BY <3>2, <4>1
      <4>3. consolidatedSample[support.i] > 0 /\ consolidatedSample[support.i] \in Nat
        <5>1. support.i \in Threads /\ support.i \in Nat
          BY <1>1, ThreadNumber DEF SupportTypes
        <5>2. support.i >= support.i
          BY <5>1
        <5>3. QED
          BY <2>6, <3>4, <5>1, <5>2 DEF HandshakeInv, StoredInv, Collect, Collectable,
             TypeOK, HandshakeTypes
      <4>4. support'.updated <= support'.tasks
        BY <3>1, <3>2, <4>2, <4>3 DEF AnswerInv
      <4>5. QED
        BY <2>1, <3>1, <3>3, <4>2, <4>4 DEF AnswerInv
    <3>5. CASE ~Collectable(support.i)
      <4>1. support' = next
        BY <2>6, <3>5 DEF Collect, next
      <4>2. QED
        BY <2>1, <3>1, <3>3, <4>1 DEF AnswerInv
    <3>6. QED
      BY <3>4, <3>5
  <2>7. CASE Decide
    <3>1. CASE supportStop
      <4>1. support' = SupportAt("check") /\ supportStop'
        BY <2>1, <2>7, <3>1 DEF Decide, AnswerWanted
      <4>2. QED
        BY <4>1 DEF AnswerInv, SupportAt
    <3>2. CASE ~supportStop
      <4>1. /\ support'.tasks = support.tasks /\ support'.updated = support.updated
            /\ support'.pc = "send" /\ dropped' = dropped
        BY <1>1, <2>7, <3>2 DEF Decide, AnswerWanted, SupportTypes
      <4>2. QED
        BY <2>1, <4>1 DEF AnswerInv
    <3>3. QED
      BY <3>1, <3>2
  <2>8. QED
    BY <1>3, <2>3, <2>4, <2>5, <2>6, <2>7 DEF Support
<1>4. CASE Main
  BY <1>2, <1>4 DEF Main, terminate, SetPhaseId, setTotalThreads, CallTerminate,
     SumTasks, SetStop, JoinSupport, SendStop, ReceiveAck, DestroyApplication,
     OtherThanMain, ghostVars
<1>5. CASE \E t \in Threads : ApplicationThread(t)
  BY <1>2, <1>5 DEF ApplicationThread, Begin, Lock, notifyStart, SetStarted, Unlock,
     StartTimer, Update, FindRequest, StoreSample, LowerFlag, End, Finish,
     FinishBegin, OtherProcesses, ghostVars
<1>6. CASE Monitor
  BY <1>2, <1>6 DEF Monitor, waitStart, RequestSample, ReceiveResponse, SendAck,
     DestroyMonitor, OtherThanMonitor
<1>7. CASE Channel \/ UNCHANGED vars
  BY <1>2, <1>7 DEF Channel, vars, ghostVars
<1>8. QED
  BY <1>3, <1>4, <1>5, <1>6, <1>7 DEF Next

LEMMA MessagesStep ==
  ASSUME TypeOK, HandshakeInv, OwnerInv, ProtocolInv, AnswerInv, MessagesInv,
         [Next]_vars
  PROVE  MessagesInv'
<1>1. ASSUME NEW m, MessageInv(m, StopSent, main.total)
      PROVE  MessageInv(m, StopSent', main'.total)
  BY <1>1, StopStays DEF MessageInv
<1>2. ToMon \in Seq(Message)
  BY Boxes
<1>3. ASSUME NEW m \in Message, MessageInv(m, StopSent', main'.total),
             ToMon' = Append(ToMon, m)
      PROVE  \A k \in DOMAIN ToMon' : MessageInv(ToMon'[k], StopSent', main'.total)
  <2>1. \A k \in DOMAIN ToMon' :
          ToMon'[k] = m \/ (k \in DOMAIN ToMon /\ ToMon'[k] = ToMon[k])
    BY <1>2, <1>3
  <2>2. QED
    BY <1>1, <1>3, <2>1 DEF MessagesInv
<1>4. \A k \in DOMAIN ToMon' : MessageInv(ToMon'[k], StopSent', main'.total)
  <2>1. CASE ToMon' = ToMon
    BY <1>1, <2>1 DEF MessagesInv
  <2>2. CASE ToMon' = << >>
    BY <2>2
  <2>3. CASE ToMon # << >> /\ ToMon' = Tail(ToMon)
    <3>1. \A k \in DOMAIN ToMon' : k + 1 \in DOMAIN ToMon /\ ToMon'[k] = ToMon[k + 1]
      BY <1>2, <2>3
    <3>2. QED
      BY <1>1, <3>1 DEF MessagesInv
  <2>4. CASE ToMon' = Append(ToMon, StartMessage)
    <3>1. MessageInv(StartMessage, StopSent', main'.total)
      <4> DEFINE m == StartMessage
      <4>1. m.type = "START"
        BY Sent
      <4>2. QED
        BY <4>1 DEF MessageInv
    <3>2. QED
      BY <1>3, <2>4, <3>1, Sent
  <2>5. CASE SendResponse /\ ToMon' = Append(ToMon, Answer)
    <3>1. support.updated = NumThreads
      BY <2>5 DEF SendResponse, HandshakeInv, ProgressInv
    <3>2. MessageInv(Answer, StopSent, main.total)
      BY <3>1, Sent, RiffAssumption DEF MessageInv, AnswerInv, TypeOK, SupportTypes
    <3>3. QED
      BY <1>1, <1>3, <2>5, <3>2, Sent
  <2>6. CASE SendStop /\ ToMon' = Append(ToMon, StopMessage)
    <3>1. main'.pc = "ack" /\ main'.total = main.total
      BY <2>6 DEF SendStop, TypeOK, MainTypes
    <3> DEFINE m == StopMessage
    <3>2. m \in Message /\ m.type = "STOP" /\ m.tasks = main.total
      BY Sent
    <3> HIDE DEF m
    <3>3. MessageInv(m, StopSent', main'.total)
      BY <3>1, <3>2 DEF MessageInv, StopSent
    <3>4. QED
      BY <1>3, <2>6, <3>2, <3>3 DEF m
  <2>7. QED
    BY <2>1, <2>2, <2>3, <2>4, <2>5, <2>6, ToMonMoves DEF Next
<1>5. mon'.pc \in {"ack", "ended", "destroyed"} => mon'.total = main'.total
  <2>1. CASE mon.pc \in {"ack", "ended", "destroyed"}
    <3>1. StopSent
      BY <2>1 DEF ProtocolInv, AtAck, AtEnd
    <3>2. mon'.total = mon.total
      <4>1. mon' = mon \/ SendAck \/ DestroyMonitor
        BY <2>1 DEF Next, ApplicationThread, Begin, Lock, notifyStart, SetStarted,
           Unlock, StartTimer, Update, FindRequest, StoreSample, LowerFlag, End,
           Finish, FinishBegin, OtherProcesses, Support, SupportCheck,
           SupportReceive, RaiseFlag, EndWait, Collect, Aggregate, ReadPhaseId,
           ReadTotalThreads, Decide, SendResponse, OtherThanSupport, Monitor,
           waitStart, RequestSample, ReceiveResponse, Channel, vars, Main, terminate,
           SetPhaseId, setTotalThreads, CallTerminate, SumTasks, SetStop,
           JoinSupport, SendStop, ReceiveAck, DestroyApplication, OtherThanMain
      <4>2. QED
        BY <4>1 DEF SendAck, DestroyMonitor, TypeOK, MonitorTypes
    <3>3. QED
      BY <2>1, <3>1, <3>2, StopStays DEF MessagesInv
  <2>2. CASE ReceiveResponse
    <3> DEFINE m == Head(ToMon)
    <3>1. ToMon # << >>
      BY <2>2, ReceiveByMon DEF ReceiveResponse
    <3>2. MessageInv(m, StopSent, main.total)
      <4>1. 1 \in DOMAIN ToMon /\ m = ToMon[1]
        BY <1>2, <3>1
      <4>2. QED
        BY <4>1 DEF MessagesInv
    <3>3. main' = main
      BY <2>2 DEF ReceiveResponse, OtherThanMonitor
    <3>4. mon'.pc \in {"ack", "ended", "destroyed"} =>
            m.type = "STOP" /\ mon'.total = m.tasks
      BY <2>2 DEF ReceiveResponse, ToMon, TypeOK, MonitorTypes
    <3>5. QED
      BY <3>2, <3>3, <3>4 DEF MessageInv
  <2>3. CASE mon.pc \notin {"ack", "ended", "destroyed"} /\ ~ReceiveResponse
    <3>1. mon'.pc = mon.pc \/ waitStart \/ RequestSample
      BY <2>3 DEF Next, ApplicationThread, Begin, Lock, notifyStart, SetStarted,
         Unlock, StartTimer, Update, FindRequest, StoreSample, LowerFlag, End,
         Finish, FinishBegin, OtherProcesses, Support, SupportCheck,
         SupportReceive, RaiseFlag, EndWait, Collect, Aggregate, ReadPhaseId,
         ReadTotalThreads, Decide, SendResponse, OtherThanSupport, Monitor,
         SendAck, DestroyMonitor, Channel, vars, Main, terminate,
         SetPhaseId, setTotalThreads, CallTerminate, SumTasks, SetStop,
         JoinSupport, SendStop, ReceiveAck, DestroyApplication, OtherThanMain
    <3>2. QED
      BY <2>3, <3>1 DEF waitStart, RequestSample, TypeOK, MonitorTypes
  <2>4. QED
    BY <2>1, <2>2, <2>3
<1>6. QED
  BY <1>4, <1>5 DEF MessagesInv

LEMMA Carried == Spec => [](AnswerInv /\ MessagesInv)
<1>1. Init => AnswerInv /\ MessagesInv
  BY DEF Init, AnswerInv, MessagesInv, SupportAt, ChannelInit, Sides, ToMon
<1>2. QED
  BY <1>1, AnswerStep, MessagesStep, Protocol, PTL DEF Spec

-----------------------------------------------------------------------------
(* Where the counted tasks are. *)

Collected ==
  SumOver(numTasks) + SumOver(consolidatedSample) + support.tasks
    + Tasks(ToMon) + delivered + dropped

BalanceInv ==
  /\ NotTerminating => SumOver(totalTasks) = Collected
  /\ ~NotTerminating => Collected <= SumOver(done)

\* A step that changes one thread's entry of a function from Threads to Nat.
LEMMA SumUpdate ==
  ASSUME NEW f \in [Threads -> Nat], NEW t \in Threads, NEW n \in Nat
  PROVE  SumOver([f EXCEPT ![t] = n]) = SumOver(f) - f[t] + n
<1> DEFINE g == [f EXCEPT ![t] = n]
<1>1. g \in [Threads -> Nat] /\ g[t] = n /\ \A u \in Threads \ {t} : f[u] = g[u]
  OBVIOUS
<1> HIDE DEF g
<1>2. SumOver(g) = SumOver(f) - f[t] + g[t]
  BY <1>1, ThreadsFinite, SumExcept
<1>3. QED
  BY <1>1, <1>2 DEF g

LEMMA PartsNat ==
  ASSUME TypeOK
  PROVE  /\ SumOver(numTasks) \in Nat /\ SumOver(consolidatedSample) \in Nat
         /\ SumOver(totalTasks) \in Nat /\ SumOver(done) \in Nat
         /\ support.tasks \in Nat /\ delivered \in Nat /\ dropped \in Nat
         /\ Tasks(ToMon) \in Nat
         /\ Collected \in Nat
  BY SumsNat, InFlightIs DEF Collected

\* A step of an application thread moves its sample to its mailbox, or counts
\* new tasks.
LEMMA BalanceThread ==
  ASSUME TypeOK, OwnerInv, ProtocolInv, MailboxInv, HandshakeInv,
         NEW t \in Threads, ApplicationThread(t)
  PROVE  \E c \in Nat : /\ SumOver(totalTasks)' = SumOver(totalTasks) + c
                        /\ Collected' = Collected + c
<1>1. UNCHANGED <<support, delivered, dropped>>
  BY DEF ApplicationThread, Begin, Lock, notifyStart, SetStarted, Unlock, StartTimer,
     Update, FindRequest, StoreSample, LowerFlag, End, Finish, FinishBegin,
     OtherProcesses, ghostVars
<1>2. Tasks(ToMon') = Tasks(ToMon)
  <2>1. Tasks(Append(ToMon, StartMessage)) = Tasks(ToMon) + TasksOf(StartMessage)
    BY Boxes, Sent, TasksAppend
  <2>2. TasksOf(StartMessage) = 0
    BY Sent DEF TasksOf
  <2>3. ToMon' = ToMon \/ ToMon' = Append(ToMon, StartMessage)
    BY ToMonMoves
  <2>4. Tasks(ToMon) \in Nat
    BY PartsNat
  <2>5. Tasks(Append(ToMon, StartMessage)) = Tasks(ToMon)
    BY <2>1, <2>2, <2>4
  <2>6. QED
    BY <2>3, <2>5, Zenon
<1>3. /\ numTasks \in [Threads -> Nat] /\ totalTasks \in [Threads -> Nat]
      /\ consolidatedSample \in [Threads -> Nat]
      /\ samplingLength \in [Threads -> Nat \ {0}]
  BY DEF TypeOK, SamplingTypes, HandshakeTypes
<1>4. ASSUME NEW c \in Nat, NEW d \in Nat,
             SumOver(totalTasks)' = SumOver(totalTasks) + c,
             SumOver(numTasks)' = SumOver(numTasks) + c - d,
             SumOver(consolidatedSample)' = SumOver(consolidatedSample) + d
      PROVE  \E e \in Nat : /\ SumOver(totalTasks)' = SumOver(totalTasks) + e
                            /\ Collected' = Collected + e
  <2>1. Collected' = Collected + c
    BY <1>1, <1>2, <1>4, PartsNat DEF Collected
  <2>2. QED
    BY <1>4, <2>1
<1>5. CASE End(t)
  <2> DEFINE c == IF currentSample[t] = 0 THEN samplingLength[t] ELSE 0
  <2>1. /\ numTasks' = [numTasks EXCEPT ![t] = numTasks[t] + c]
        /\ totalTasks' = [totalTasks EXCEPT ![t] = totalTasks[t] + c]
        /\ consolidatedSample' = consolidatedSample
    BY <1>5 DEF End, handshakeVars
  <2>2. c \in Nat /\ numTasks[t] \in Nat /\ totalTasks[t] \in Nat
    BY <1>3
  <2> HIDE DEF c
  <2>3. /\ SumOver(numTasks)' = SumOver(numTasks) - numTasks[t] + (numTasks[t] + c)
        /\ SumOver(totalTasks)' =
             SumOver(totalTasks) - totalTasks[t] + (totalTasks[t] + c)
    <3>1. numTasks[t] + c \in Nat /\ totalTasks[t] + c \in Nat
      BY <2>2
    <3>2. QED
      BY <1>3, <2>1, <3>1, SumUpdate
  <2>4. /\ SumOver(numTasks)' = SumOver(numTasks) + c - 0
        /\ SumOver(totalTasks)' = SumOver(totalTasks) + c
        /\ SumOver(consolidatedSample)' = SumOver(consolidatedSample) + 0
    BY <2>1, <2>2, <2>3, PartsNat
  <2>5. 0 \in Nat
    OBVIOUS
  <2>6. QED
    BY <1>4, <2>2, <2>4, <2>5
<1>6. CASE StoreSample(t)
  <2> DEFINE d == numTasks[t]
  <2>1. /\ numTasks' = [numTasks EXCEPT ![t] = 0]
        /\ consolidatedSample' = [consolidatedSample EXCEPT ![t] = d]
        /\ totalTasks' = totalTasks
    BY <1>6 DEF StoreSample
  <2>2. consolidatedSample[t] = 0
    BY <1>6 DEF StoreSample, HandshakeInv, ThreadInv, OwnershipInv, MailboxInv,
       MailboxOf
  <2>3. d \in Nat /\ 0 \in Nat
    BY <1>3
  <2>4. /\ SumOver(numTasks)' = SumOver(numTasks) - d + 0
        /\ SumOver(consolidatedSample)' = SumOver(consolidatedSample) - 0 + d
    BY <1>3, <2>1, <2>2, <2>3, SumUpdate
  <2> HIDE DEF d
  <2>5. /\ SumOver(numTasks)' = SumOver(numTasks) + 0 - d
        /\ SumOver(totalTasks)' = SumOver(totalTasks) + 0
        /\ SumOver(consolidatedSample)' = SumOver(consolidatedSample) + d
    BY <2>1, <2>3, <2>4, PartsNat
  <2>6. QED
    BY <1>4, <2>3, <2>5
<1>7. CASE ~End(t) /\ ~StoreSample(t)
  <2>1. UNCHANGED <<numTasks, consolidatedSample, totalTasks>>
    BY <1>7 DEF ApplicationThread, Begin, Lock, notifyStart, SetStarted, Unlock,
       StartTimer, Update, FindRequest, LowerFlag, Finish, FinishBegin, samplingVars,
       handshakeVars
  <2>2. /\ SumOver(numTasks)' = SumOver(numTasks) + 0 - 0
        /\ SumOver(totalTasks)' = SumOver(totalTasks) + 0
        /\ SumOver(consolidatedSample)' = SumOver(consolidatedSample) + 0
    BY <2>1, PartsNat
  <2>3. 0 \in Nat
    OBVIOUS
  <2>4. QED
    BY <1>4, <2>2, <2>3
<1>8. QED
  BY <1>5, <1>6, <1>7

\* The support thread moves tasks from the mailboxes to the answer, and the
\* answer to the queue or, after terminate() was called, nowhere.
LEMMA BalanceSupport ==
  ASSUME TypeOK, OwnerInv, ProtocolInv, AnswerInv, Support
  PROVE  Collected' = Collected /\ UNCHANGED <<main, done, totalTasks>>
<1>1. UNCHANGED <<main, done, totalTasks, numTasks, delivered>> /\ SupportTypes
  BY DEF Support, SupportCheck, SupportReceive, RaiseFlag, EndWait, Collect,
     Aggregate, ReadPhaseId, ReadTotalThreads, Decide, SendResponse, OtherThanSupport,
     samplingVars, TypeOK
<1>2. ASSUME UNCHANGED <<consolidatedSample, dropped>>, ToMon' = ToMon,
             support'.tasks = support.tasks
      PROVE  Collected' = Collected
  BY <1>1, <1>2 DEF Collected
<1>3. ~SendResponse => ToMon' = ToMon
  BY ToMonMoves
<1>4. CASE SupportCheck \/ SupportReceive
  <2>1. support.tasks = 0 /\ support'.tasks = 0
    BY <1>4 DEF SupportCheck, SupportReceive, AnswerInv, SupportAt
  <2>2. ~SendResponse
    BY <1>4 DEF SupportCheck, SupportReceive, SendResponse
  <2>3. QED
    BY <1>1, <1>2, <1>3, <1>4, <2>1, <2>2 DEF SupportCheck, SupportReceive,
       handshakeVars
<1>5. CASE RaiseFlag
  <2>1. support'.tasks = support.tasks
    BY <1>1, <1>5, AdvanceTasks DEF RaiseFlag
  <2>2. QED
    BY <1>1, <1>2, <1>3, <1>5, <2>1 DEF RaiseFlag, SendResponse
<1>6. CASE EndWait \/ Aggregate \/ ReadPhaseId \/ ReadTotalThreads
  <2>1. support'.tasks = support.tasks
    BY <1>1, <1>6 DEF EndWait, Aggregate, ReadPhaseId, ReadTotalThreads, SupportTypes
  <2>2. QED
    BY <1>1, <1>2, <1>3, <1>6, <2>1 DEF EndWait, Aggregate, ReadPhaseId,
       ReadTotalThreads, SendResponse, handshakeVars
<1>7. CASE Collect
  <2> DEFINE next == Advance("wait", "aggregate")
  <2>1. next.tasks = support.tasks
    BY <1>1, AdvanceTasks
  <2>2. next \in [pc : {"raise", "wait", "aggregate"}, i : Threads, updated : Nat,
                  tasks : Nat, phaseId : Nat, totalThreads : Nat]
    BY <1>1, AdvanceTypes
  <2>3. dropped' = dropped /\ ToMon' = ToMon
    BY <1>3, <1>7 DEF Collect, SendResponse
  <2> HIDE DEF next
  <2>4. CASE Collectable(support.i)
    <3> DEFINE n == consolidatedSample[support.i]
    <3>1. /\ support' = [next EXCEPT !.updated = @ + 1, !.tasks = @ + n]
          /\ consolidatedSample' = [consolidatedSample EXCEPT ![support.i] = 0]
      BY <1>7, <2>4 DEF Collect, next
    <3>2. support.i \in Threads /\ consolidatedSample \in [Threads -> Nat] /\ 0 \in Nat
      BY <1>1 DEF SupportTypes, TypeOK, HandshakeTypes
    <3>3. SumOver(consolidatedSample)' = SumOver(consolidatedSample) - n + 0
      BY <3>1, <3>2, SumUpdate
    <3>4. n \in Nat
      BY <3>2
    <3> HIDE DEF n
    <3>5. support'.tasks = support.tasks + n
      BY <2>1, <2>2, <3>1
    <3>6. QED
      BY <1>1, <2>3, <3>3, <3>4, <3>5, PartsNat DEF Collected
  <2>5. CASE ~Collectable(support.i)
    <3>1. support' = next /\ UNCHANGED consolidatedSample
      BY <1>7, <2>5 DEF Collect, next
    <3>2. QED
      BY <1>1, <1>2, <2>1, <2>3, <3>1
  <2>6. QED
    BY <2>4, <2>5
<1>8. CASE Decide
  <2>1. ToMon' = ToMon /\ consolidatedSample' = consolidatedSample
    BY <1>3, <1>8 DEF Decide, SendResponse, handshakeVars
  <2>2. \/ support'.tasks = support.tasks /\ dropped' = dropped
        \/ support'.tasks = 0 /\ dropped' = dropped + support.tasks
    BY <1>1, <1>8 DEF Decide, SupportAt, SupportTypes
  <2>3. QED
    BY <1>1, <2>1, <2>2, PartsNat DEF Collected
<1>9. CASE SendResponse
  <2>1. /\ support'.tasks = 0 /\ dropped' = dropped
        /\ consolidatedSample' = consolidatedSample
    BY <1>9 DEF SendResponse, SupportAt, handshakeVars
  <2>2. ToMon' = Append(ToMon, Answer)
    <3>1. support.pc = "send" /\ Send("app", Answer)
      BY <1>9 DEF SendResponse, Answer
    <3>2. ~closed["mon"]
      BY <3>1 DEF OwnerInv, ProtocolInv, AtEnd
    <3>3. QED
      BY <3>1, <3>2, SendToMon
  <2>3. Tasks(ToMon') = Tasks(ToMon) + TasksOf(Answer)
    BY <2>2, Boxes, Sent, TasksAppend
  <2>4. TasksOf(Answer) = support.tasks
    BY Sent DEF TasksOf
  <2>5. QED
    BY <1>1, <2>1, <2>3, <2>4, PartsNat DEF Collected
<1>10. QED
  BY <1>1, <1>4, <1>5, <1>6, <1>7, <1>8, <1>9 DEF Support

\* What the monitor takes from its queue it has received.
LEMMA BalanceMonitor ==
  ASSUME TypeOK, OwnerInv, ProtocolInv, Monitor
  PROVE  Collected' = Collected /\ UNCHANGED <<main, done, totalTasks>>
<1>1. UNCHANGED <<main, done, totalTasks, numTasks, consolidatedSample, support, dropped>>
  BY DEF Monitor, waitStart, RequestSample, ReceiveResponse, SendAck, DestroyMonitor,
     OtherThanMonitor, samplingVars, handshakeVars
<1>2. ToMon # << >> => /\ Tasks(ToMon) = TasksOf(Head(ToMon)) + Tasks(Tail(ToMon))
                       /\ Tasks(Tail(ToMon)) \in Nat
                       /\ TasksOf(Head(ToMon)) \in Nat
  <2> SUFFICES ASSUME ToMon # << >>
               PROVE  /\ Tasks(ToMon) = TasksOf(Head(ToMon)) + Tasks(Tail(ToMon))
                      /\ Tasks(Tail(ToMon)) \in Nat
                      /\ TasksOf(Head(ToMon)) \in Nat
    OBVIOUS
  <2>1. Head(ToMon) \in Message /\ Tail(ToMon) \in Seq(Message)
    BY Boxes, HeadTailProperties
  <2>2. QED
    BY <2>1, Boxes, TasksTail, TasksNat, TasksOfNat
<1>3. CASE waitStart
  <2>1. ToMon # << >> /\ ToMon' = Tail(ToMon) /\ delivered' = delivered
    BY <1>3, ReceiveByMon DEF waitStart
  <2>2. Head(ToMon).type \in {"START", "STOP"}
    <3>1. (\E b : Two(ToMon, "START", b)) \/ One(ToMon, "START") \/ One(ToMon, "STOP")
      BY <1>3, <2>1 DEF waitStart, ProtocolInv, AtWaitStart, ThenStop, OnlyStop
    <3>2. QED
      BY <3>1, Boxes, TakeOne
  <2>3. TasksOf(Head(ToMon)) = 0
    BY <2>2 DEF TasksOf
  <2>4. Tasks(ToMon') = Tasks(ToMon)
    BY <1>2, <2>1, <2>3
  <2>5. QED
    BY <1>1, <2>1, <2>4 DEF Collected
<1>4. CASE ReceiveResponse
  <2>1. ToMon # << >> /\ ToMon' = Tail(ToMon)
    BY <1>4, ReceiveByMon DEF ReceiveResponse
  <2>2. delivered' = delivered + TasksOf(Head(ToMon))
    BY <1>4, PartsNat DEF ReceiveResponse, TasksOf, ToMon
  <2> DEFINE n == TasksOf(Head(ToMon))
             r == Tasks(ToMon')
  <2>3. n \in Nat /\ r \in Nat /\ Tasks(ToMon) = n + r /\ delivered' = delivered + n
    BY <1>2, <2>1, <2>2
  <2> HIDE DEF n, r
  <2>4. /\ Collected' = SumOver(numTasks) + SumOver(consolidatedSample) + support.tasks
                          + r + (delivered + n) + dropped
        /\ Collected = SumOver(numTasks) + SumOver(consolidatedSample) + support.tasks
                         + (n + r) + delivered + dropped
    BY <1>1, <2>3 DEF Collected, r
  <2>5. QED
    BY <1>1, <2>3, <2>4, PartsNat
<1>5. CASE RequestSample \/ SendAck \/ DestroyMonitor
  <2>1. ToMon' = ToMon
    BY <1>5, ToMonMoves DEF Monitor, RequestSample, SendAck, DestroyMonitor, waitStart,
       ReceiveResponse
  <2>2. QED
    BY <1>1, <1>5, <2>1 DEF RequestSample, SendAck, DestroyMonitor, Collected
<1>6. QED
  BY <1>1, <1>3, <1>4, <1>5 DEF Monitor

\* No thread has counted more than it has executed.
LEMMA CountedExecuted ==
  ASSUME TypeOK, CountInv
  PROVE  SumOver(totalTasks) <= SumOver(done)
<1>1. totalTasks \in [Threads -> Nat] /\ done \in [Threads -> Nat]
  BY DEF TypeOK, SamplingTypes, HistoryTypes
<1>2. ASSUME NEW t \in Threads PROVE totalTasks[t] <= done[t]
  <2>1. /\ totalTasks[t] \in Nat /\ done[t] \in Nat /\ currentSample[t] \in Nat
        /\ samplingLength[t] \in Nat \ {0}
    BY DEF TypeOK, SamplingTypes, HistoryTypes
  <2>2. Uncounted(t) \in Nat \ {0}
    BY <2>1 DEF Uncounted
  <2>3. CountOf(t)
    BY DEF CountInv
  <2>4. QED
    BY <2>1, <2>2, <2>3 DEF CountOf
<1>3. QED
  BY <1>1, <1>2, ThreadsFinite, SumLeq

\* Whatever has been collected was executed.
LEMMA CollectedExecuted ==
  ASSUME TypeOK, CountInv, BalanceInv
  PROVE  Collected <= SumOver(done)
  BY CountedExecuted, PartsNat DEF BalanceInv

LEMMA BalanceMain ==
  ASSUME TypeOK, OwnerInv, ProtocolInv, Main
  PROVE  Collected' = Collected /\ done' = done
<1>1. UNCHANGED <<numTasks, consolidatedSample, support, done, delivered, dropped>>
  BY DEF Main, terminate, SetPhaseId, setTotalThreads, CallTerminate, SumTasks,
     SetStop, JoinSupport, SendStop, ReceiveAck, DestroyApplication, OtherThanMain,
     handshakeVars, ghostVars
<1>2. Tasks(ToMon') = Tasks(ToMon)
  <2>1. Tasks(Append(ToMon, StopMessage)) = Tasks(ToMon) + TasksOf(StopMessage)
    BY Boxes, Sent, TasksAppend
  <2>2. TasksOf(StopMessage) = 0
    BY Sent DEF TasksOf
  <2>3. ToMon' = ToMon \/ ToMon' = Append(ToMon, StopMessage)
    BY ToMonMoves
  <2>4. Tasks(ToMon) \in Nat
    BY PartsNat
  <2>5. Tasks(Append(ToMon, StopMessage)) = Tasks(ToMon)
    BY <2>1, <2>2, <2>4
  <2>6. QED
    BY <2>3, <2>5, Zenon
<1>3. QED
  BY <1>1, <1>2 DEF Collected

LEMMA BalanceStep ==
  ASSUME TypeOK, HandshakeInv, MailboxInv, OwnerInv, ProtocolInv, CountInv,
         AnswerInv, BalanceInv, [Next]_vars
  PROVE  BalanceInv'
<1>1. ASSUME UNCHANGED <<main, done, totalTasks>>, Collected' = Collected
      PROVE  BalanceInv'
  BY <1>1 DEF BalanceInv, NotTerminating
<1>2. ASSUME NEW t \in Threads, ApplicationThread(t)
      PROVE  BalanceInv'
  <2>1. NotTerminating /\ main' = main
    BY <1>2, FinishedStops DEF ApplicationThread, Begin, Lock, notifyStart,
       SetStarted, Unlock, StartTimer, Update, FindRequest, StoreSample, LowerFlag,
       End, Finish, FinishBegin, OtherProcesses
  <2>2. SumOver(totalTasks)' = Collected'
    BY <1>2, <2>1, BalanceThread DEF BalanceInv
  <2>3. QED
    BY <2>1, <2>2 DEF BalanceInv, NotTerminating
<1>3. CASE Main
  <2>1. Collected' = Collected /\ done' = done
    BY <1>3, BalanceMain
  <2>2. CASE SetPhaseId \/ setTotalThreads
    <3>1. NotTerminating /\ NotTerminating' /\ totalTasks' = totalTasks
      BY <2>2 DEF SetPhaseId, setTotalThreads, NotTerminating, TypeOK, MainTypes
    <3>2. QED
      BY <2>1, <3>1 DEF BalanceInv
  <2>3. CASE terminate
    <3>1. ~NotTerminating'
      <4>1. MainTypes
        BY DEF TypeOK
      <4>2. CASE SumTasks
        BY <4>1, <4>2 DEF SumTasks, NotTerminating, MainTypes
      <4>3. CASE ~SumTasks
        BY <2>3, <4>1, <4>3 DEF terminate, CallTerminate, SetStop, JoinSupport,
           SendStop, ReceiveAck, DestroyApplication, NotTerminating, MainTypes
      <4>4. QED
        BY <4>2, <4>3
    <3>2. QED
      BY <2>1, <3>1, CollectedExecuted DEF BalanceInv
  <2>4. QED
    BY <1>3, <2>2, <2>3 DEF Main
<1>4. CASE Channel
  <2>1. UNCHANGED <<main, done, totalTasks, numTasks, consolidatedSample, support,
                    delivered, dropped>>
    BY <1>4 DEF Channel, samplingVars, handshakeVars, ghostVars
  <2>2. CASE ToMon' = ToMon
    BY <1>1, <2>1, <2>2 DEF Collected
  <2>3. CASE ToMon' = << >> /\ main.pc = "destroyed"
    <3>1. Tasks(ToMon') = 0
      BY <2>3, TasksEmpty
    <3>2. Collected' <= Collected
      BY <2>1, <3>1, PartsNat DEF Collected
    <3>3. Collected' \in Nat
      BY <2>1, <3>1, PartsNat DEF Collected
    <3>4. Collected' <= SumOver(done)
      BY <3>2, <3>3, CollectedExecuted, PartsNat
    <3>5. ~NotTerminating'
      BY <2>1, <2>3 DEF NotTerminating
    <3>6. QED
      BY <2>1, <3>4, <3>5 DEF BalanceInv
  <2>4. QED
    BY <1>4, <2>2, <2>3, ToMonMoves
<1>5. CASE UNCHANGED vars
  <2>1. UNCHANGED <<main, done, totalTasks, numTasks, consolidatedSample, support,
                    delivered, dropped, ToMon>>
    BY <1>5, ToMonMoves DEF vars, samplingVars, handshakeVars, ghostVars
  <2>2. QED
    BY <1>1, <2>1 DEF Collected
<1>6. QED
  BY <1>1, <1>2, <1>3, <1>4, <1>5, BalanceSupport, BalanceMonitor DEF Next

LEMMA Balance == Spec => []BalanceInv
<1>1. Init => BalanceInv
  <2> SUFFICES ASSUME Init PROVE BalanceInv
    OBVIOUS
  <2>1. TypeOK
    BY TypeInit
  <2>2. /\ \A t \in Threads : numTasks[t] = 0 /\ consolidatedSample[t] = 0
                               /\ totalTasks[t] = 0
        /\ support.tasks = 0 /\ delivered = 0 /\ dropped = 0 /\ ToMon = << >>
        /\ NotTerminating
    BY DEF Init, SupportAt, ChannelInit, Sides, ToMon, NotTerminating
  <2>3. /\ SumOver(numTasks) = 0 /\ SumOver(consolidatedSample) = 0
        /\ SumOver(totalTasks) = 0
    <3>1. /\ numTasks \in [Threads -> Nat] /\ consolidatedSample \in [Threads -> Nat]
          /\ totalTasks \in [Threads -> Nat]
      BY <2>1 DEF TypeOK, SamplingTypes, HandshakeTypes
    <3>2. QED
      BY <2>2, <3>1, SumZero, ThreadsFinite
  <2>4. Tasks(ToMon) = 0
    BY <2>2, TasksEmpty
  <2>5. QED
    BY <2>2, <2>3, <2>4 DEF BalanceInv, Collected
<1>2. QED
  BY <1>1, BalanceStep, Protocol, Mailboxes, Totals, Carried, PTL DEF Spec

-----------------------------------------------------------------------------
(* The theorems. *)

\* Until terminate() is called, every task that end() has counted is in exactly
\* one of the running samples, the mailboxes, the answer being built, the queue
\* and the samples that the monitor has received.
THEOREM NoTaskLost == Spec => []TasksAccounted
<1>1. TypeOK /\ OwnerInv /\ AnswerInv /\ BalanceInv => TasksAccounted
  <2> SUFFICES ASSUME TypeOK, OwnerInv, AnswerInv, BalanceInv, NotTerminating
               PROVE  SumOver(totalTasks) =
                        SumOver(numTasks) + SumOver(consolidatedSample)
                          + support.tasks + InFlightTasks + delivered
    BY DEF TasksAccounted, NotTerminating
  <2>1. dropped = 0
    BY DEF OwnerInv, AnswerInv, NotTerminating
  <2>2. QED
    BY <2>1, InFlightIs, PartsNat DEF BalanceInv, Collected
<1>2. QED
  BY <1>1, Protocol, Carried, Balance, PTL

\* The summary is the number of tasks executed, and the samples that the monitor
\* received or that were discarded never add up to more.
THEOREM SummaryIsExact == Spec => []SummaryExact
<1>1. TypeOK /\ ProtocolInv /\ CountInv /\ TotalInv /\ MessagesInv /\ BalanceInv
        => SummaryExact
  <2> SUFFICES ASSUME TypeOK, ProtocolInv, CountInv, TotalInv, MessagesInv, BalanceInv,
                      mon.pc \in {"ack", "ended", "destroyed"}
               PROVE  mon.total = SumOver(done) /\ delivered + dropped <= mon.total
    BY DEF SummaryExact
  <2>1. StopSent
    BY DEF ProtocolInv, AtAck, AtEnd
  <2>2. mon.total = SumOver(done)
    BY <2>1 DEF MessagesInv, TotalInv, StopSent, NotTerminating
  <2>3. delivered + dropped <= Collected
    BY PartsNat DEF Collected
  <2>4. QED
    BY <2>2, <2>3, CollectedExecuted, PartsNat
<1>2. QED
  BY <1>1, Protocol, Totals, Carried, Balance, PTL

-----------------------------------------------------------------------------
(* The session that the Monitor's user sees. *)

SessionState ==
  CASE mon.pc = "waitStart" -> "waiting"
    [] mon.pc \in {"ready", "response"} -> "running"
    [] mon.pc \in {"ack", "ended", "destroyed"} -> "ended"
    [] OTHER -> "failed"

SessionVars == <<SumOver(done), delivered, SessionState, mon.total>>

\* The session's steps, without the CASE expression.
LEMMA SessionSteps ==
  /\ \/ /\ SessionState # "ended" /\ SumOver(done)' = SumOver(done) + 1
        /\ UNCHANGED <<delivered, SessionState, mon.total>>
     \/ /\ SessionState = "waiting" /\ SessionState' = "running"
        /\ UNCHANGED <<SumOver(done), delivered, mon.total>>
     \/ /\ SessionState = "running"
        /\ delivered' \in delivered + NumThreads .. SumOver(done)
        /\ UNCHANGED <<SumOver(done), SessionState, mon.total>>
     \/ /\ SessionState = "running" /\ SessionState' = "ended"
        /\ mon'.total = SumOver(done)
        /\ UNCHANGED <<SumOver(done), delivered>>
  => MonitorSees!Next
  BY DEF MonitorSees!Next, MonitorSees!Execute, MonitorSees!Start, MonitorSees!Report,
     MonitorSees!End, SessionState

LEMMA SessionStates ==
  /\ mon.pc = "waitStart" => SessionState = "waiting"
  /\ mon.pc \in {"ready", "response"} => SessionState = "running"
  /\ mon.pc \in {"ack", "ended", "destroyed"} => SessionState = "ended"
  BY DEF SessionState

\* A thread executes a task, or does nothing that the monitor could see.
LEMMA SessionThread ==
  ASSUME TypeOK, OwnerInv, ProtocolInv, NEW t \in Threads, ApplicationThread(t)
  PROVE  MonitorSees!Next \/ UNCHANGED SessionVars
<1>1. UNCHANGED <<mon, delivered>>
  BY DEF ApplicationThread, Begin, Lock, notifyStart, SetStarted, Unlock, StartTimer,
     Update, FindRequest, StoreSample, LowerFlag, End, Finish, FinishBegin,
     OtherProcesses, ghostVars
<1>2. UNCHANGED <<SessionState, mon.total>>
  BY <1>1 DEF SessionState
<1>3. CASE End(t)
  <2>1. done \in [Threads -> Nat] /\ done' = [done EXCEPT ![t] = done[t] + 1]
    BY <1>3 DEF End, TypeOK, HistoryTypes
  <2>2. done[t] \in Nat /\ done[t] + 1 \in Nat
    BY <2>1
  <2>3. SumOver(done)' = SumOver(done) - done[t] + (done[t] + 1)
    BY <2>1, <2>2, SumUpdate
  <2>4. SumOver(done)' = SumOver(done) + 1
    BY <2>2, <2>3, PartsNat
  <2>5. NotTerminating
    BY FinishedStops
  <2>6. SessionState # "ended"
    BY <2>5, MonitorPlaces, SessionStates DEF ProtocolInv, AtAck, AtEnd, StopSent,
       NotTerminating
  <2>7. QED
    BY <1>1, <1>2, <2>4, <2>6, SessionSteps
<1>4. CASE ~End(t)
  <2>1. done' = done
    BY <1>4 DEF ApplicationThread, Begin, Lock, notifyStart, SetStarted, Unlock,
       StartTimer, Update, FindRequest, StoreSample, LowerFlag, Finish, FinishBegin,
       ghostVars
  <2>2. QED
    BY <1>1, <1>2, <2>1 DEF SessionVars
<1>5. QED
  BY <1>3, <1>4

\* The monitor starts, gets a sample, or gets the summary.
LEMMA SessionMonitor ==
  ASSUME TypeOK, OwnerInv, ProtocolInv, ProtocolInv', CountInv, TotalInv, MessagesInv,
         BalanceInv, Monitor
  PROVE  MonitorSees!Next \/ UNCHANGED SessionVars
<1>1. done' = done /\ MonitorTypes
  BY DEF Monitor, waitStart, RequestSample, ReceiveResponse, SendAck, DestroyMonitor,
     OtherThanMonitor, TypeOK
<1>2. /\ mon'.pc = "waitStart" => SessionState' = "waiting"
      /\ mon'.pc \in {"ready", "response"} => SessionState' = "running"
      /\ mon'.pc \in {"ack", "ended", "destroyed"} => SessionState' = "ended"
  BY DEF SessionState
<1>3. CASE waitStart
  <2>1. /\ mon.pc = "waitStart" /\ mon'.pc = "ready" /\ mon'.total = mon.total
        /\ delivered' = delivered
    BY <1>1, <1>3 DEF waitStart, MonitorTypes
  <2>2. QED
    BY <1>1, <1>2, <2>1, SessionStates, SessionSteps
<1>4. CASE RequestSample
  <2>1. /\ mon.pc = "ready" /\ mon'.pc = "response" /\ mon'.total = mon.total
        /\ delivered' = delivered
    BY <1>1, <1>4 DEF RequestSample, MonitorTypes
  <2>2. QED
    BY <1>1, <1>2, <2>1, SessionStates DEF SessionVars
<1>5. CASE SendAck \/ DestroyMonitor
  <2>1. /\ mon.pc \in {"ack", "ended"} /\ mon'.pc \in {"ended", "destroyed"}
        /\ mon'.total = mon.total /\ delivered' = delivered
    BY <1>1, <1>5 DEF SendAck, DestroyMonitor, MonitorTypes
  <2>2. QED
    BY <1>1, <1>2, <2>1, SessionStates DEF SessionVars
<1>6. CASE ReceiveResponse
  <2> DEFINE m == Head(ToMon)
  <2>1. mon.pc = "response" /\ ToMon # << >>
    BY <1>6, ReceiveByMon DEF ReceiveResponse
  <2>2. MessageInv(m, StopSent, main.total) /\ m \in Message
    <3>1. ToMon \in Seq(Message)
      BY Boxes
    <3>2. 1 \in DOMAIN ToMon /\ m = ToMon[1] /\ m \in Message
      BY <2>1, <3>1
    <3>3. QED
      BY <3>2 DEF MessagesInv
  <2>3. /\ m.type = "RES" => /\ mon'.pc = "ready" /\ mon'.total = mon.total
                             /\ delivered' = delivered + m.tasks
        /\ m.type = "STOP" => /\ mon'.pc = "ack" /\ mon'.total = m.tasks
                              /\ delivered' = delivered
        /\ m.type \notin {"RES", "STOP"} => mon'.pc = "failed"
    BY <1>1, <1>6 DEF ReceiveResponse, ToMon, MonitorTypes
  <2> HIDE DEF m
  <2>4. CASE m.type = "RES"
    <3>1. m.tasks \in Nat /\ m.tasks >= NumThreads
      BY <2>2, <2>4 DEF MessageInv, Message
    <3>2. delivered' \in Nat /\ delivered + NumThreads <= delivered'
      BY <2>3, <2>4, <3>1, PartsNat, RiffAssumption
    <3>3. delivered' <= SumOver(done)
      <4>1. Collected' = Collected
        BY BalanceMonitor
      <4>2. /\ Collected' = SumOver(numTasks) + SumOver(consolidatedSample)
                              + support.tasks + Tasks(ToMon') + delivered' + dropped
            /\ Tasks(ToMon') \in Nat
        <5>1. UNCHANGED <<numTasks, consolidatedSample, support, dropped>>
          BY <1>6 DEF ReceiveResponse, OtherThanMonitor, samplingVars, handshakeVars
        <5>2. ToMon' \in Seq(Message)
          BY <1>6, <2>1, Boxes, ReceiveByMon, HeadTailProperties DEF ReceiveResponse
        <5>3. QED
          BY <5>1, <5>2, TasksNat DEF Collected
      <4>3. delivered' <= Collected
        BY <3>2, <4>1, <4>2, PartsNat
      <4>4. QED
        BY <3>2, <4>3, CollectedExecuted, PartsNat
    <3>4. delivered' \in delivered + NumThreads .. SumOver(done)
      BY <3>2, <3>3, PartsNat, RiffAssumption
    <3>5. SessionState = "running" /\ SessionState' = "running" /\ mon'.total = mon.total
      BY <1>2, <2>1, <2>3, <2>4, SessionStates
    <3>6. QED
      BY <1>1, <3>4, <3>5, SessionSteps
  <2>5. CASE m.type = "STOP"
    <3>1. mon'.total = SumOver(done)
      BY <2>2, <2>3, <2>5 DEF MessageInv, TotalInv, StopSent, NotTerminating
    <3>2. SessionState = "running" /\ SessionState' = "ended" /\ delivered' = delivered
      BY <1>2, <2>1, <2>3, <2>5, SessionStates
    <3>3. QED
      BY <1>1, <3>1, <3>2, SessionSteps
  <2>6. m.type \in {"RES", "STOP"}
    BY <2>3 DEF ProtocolInv
  <2>7. QED
    BY <2>4, <2>5, <2>6
<1>7. QED
  BY <1>3, <1>4, <1>5, <1>6 DEF Monitor

\* What the Monitor's user sees is a session: it starts once, every sample holds
\* a task of each thread and only tasks that were executed and not yet reported,
\* and it ends once, with the exact total.
THEOREM SessionImplemented == Spec => ImplementsSession
<1>1. Init => MonitorSees!Init
  <2> SUFFICES ASSUME Init PROVE MonitorSees!Init
    OBVIOUS
  <2>1. done \in [Threads -> Nat] /\ \A t \in Threads : done[t] = 0
    BY DEF Init
  <2>2. SumOver(done) = 0
    BY <2>1, SumZero, ThreadsFinite
  <2>3. delivered = 0 /\ mon.pc = "waitStart" /\ mon.total = 0
    BY DEF Init
  <2>4. QED
    BY <2>2, <2>3 DEF MonitorSees!Init
<1>2. TypeOK /\ OwnerInv /\ ProtocolInv /\ ProtocolInv' /\ CountInv /\ TotalInv
        /\ MessagesInv /\ BalanceInv /\ [Next]_vars
        => [MonitorSees!Next]_(MonitorSees!vars)
  <2> SUFFICES ASSUME TypeOK, OwnerInv, ProtocolInv, ProtocolInv', CountInv, TotalInv,
                      MessagesInv, BalanceInv, [Next]_vars
               PROVE  MonitorSees!Next \/ UNCHANGED SessionVars
    BY DEF MonitorSees!vars, SessionVars, SessionState
  <2>1. ASSUME UNCHANGED <<done, delivered, mon>>
        PROVE  UNCHANGED SessionVars
    BY <2>1 DEF SessionVars, SessionState
  <2>2. CASE Support
    BY <2>1, <2>2 DEF Support, SupportCheck, SupportReceive, RaiseFlag, EndWait,
       Collect, Aggregate, ReadPhaseId, ReadTotalThreads, Decide, SendResponse,
       OtherThanSupport
  <2>3. CASE Main
    BY <2>1, <2>3 DEF Main, terminate, SetPhaseId, setTotalThreads, CallTerminate,
       SumTasks, SetStop, JoinSupport, SendStop, ReceiveAck, DestroyApplication,
       OtherThanMain, ghostVars
  <2>4. CASE Channel \/ UNCHANGED vars
    BY <2>1, <2>4 DEF Channel, vars, ghostVars
  <2>5. QED
    BY <2>2, <2>3, <2>4, SessionThread, SessionMonitor DEF Next
<1>3. QED
  BY <1>1, <1>2, Protocol, Totals, Carried, Balance, PTL
     DEF Spec, ImplementsSession, MonitorSees!Spec
=============================================================================
