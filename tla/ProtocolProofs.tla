--------------------------- MODULE ProtocolProofs ---------------------------
(***************************************************************************)
(* The messages between application and monitor, for every number of       *)
(* threads: START is sent once and comes first, the support thread         *)
(* receives requests only, the monitor gets nothing that it does not       *)
(* expect, at most two messages are on their way to a side, the two        *)
(* processes never wait for each other, and STOP is not lost.              *)
(*                                                                         *)
(* The argument has three layers: the mutex and _started (StartInv), the   *)
(* order of terminate() (OwnerInv), and, on top of them, which messages    *)
(* can be in flight for each place where the monitor can be (ProtocolInv). *)
(***************************************************************************)
EXTENDS HandshakeProofs, SequenceTheorems

USE DEF FirstCheck, SecondCheck, TasksAfterStore, SupportJoined

-----------------------------------------------------------------------------
(* The start notification. *)

\* Between Lock and Unlock.
InCritical == {"notify", "started", "unlock"}

\* Only the owner of the mutex is between its two ends, it notifies only what
\* has not been notified, and whoever is past the update, has a sampling length
\* other than 1, or has executed a task, has seen _started.
StartOf(t) ==
  /\ pc[t] \in InCritical => mutex = t
  /\ pc[t] \in {"notify", "started"} => ~started
  /\ pc[t] \in {"unlock", "update", "store", "lower", "task"} => started
  /\ samplingLength[t] > 1 \/ done[t] > 0 => started
  /\ pc[t] = "finished" => \E u \in Threads : done[u] >= MinTasks

StartInv == \A t \in Threads : StartOf(t)

\* Steps of the other threads.
LEMMA StartStepOthers ==
  ASSUME TypeOK, StartInv, NEW t \in Threads, ApplicationThread(t),
         NEW u \in Threads, u # t
  PROVE  StartOf(u)'
<1>1. pc'[u] = pc[u] /\ samplingLength'[u] = samplingLength[u]
  BY OthersUntouched DEF SameCounting
<1>2. /\ done'[u] = done[u]
      /\ \A v \in Threads : done'[v] >= done[v] /\ done[v] \in Nat
  <2>1. done \in [Threads -> Nat]
    BY DEF TypeOK, HistoryTypes
  <2>2. done' = done \/ done' = [done EXCEPT ![t] = @ + 1]
    BY DEF ApplicationThread, Begin, Lock, notifyStart, SetStarted, Unlock,
       StartTimer, Update, FindRequest, StoreSample, LowerFlag, End, Finish,
       FinishBegin, ghostVars
  <2>3. QED
    BY <2>1, <2>2
<1>3. (\E v \in Threads : done[v] >= MinTasks)
        => \E v \in Threads : done'[v] >= MinTasks
  <2> SUFFICES ASSUME NEW v \in Threads, done[v] >= MinTasks
               PROVE  done'[v] >= MinTasks
    OBVIOUS
  <2>1. done'[v] \in Nat
    BY <1>2 DEF TypeOK, HistoryTypes, ApplicationThread, Begin, Lock, notifyStart,
       SetStarted, Unlock, StartTimer, Update, FindRequest, StoreSample, LowerFlag,
       End, Finish, FinishBegin, ghostVars
  <2>2. QED
    BY <1>2, <2>1, RiffAssumption
<1>4. StartOf(u) /\ StartOf(t) /\ t # Free /\ u # Free
  BY RiffAssumption DEF StartInv, Threads, Free
<1>5. CASE UNCHANGED startVars
  BY <1>1, <1>2, <1>3, <1>4, <1>5 DEF StartOf, startVars
<1>6. CASE Lock(t)
  BY <1>1, <1>2, <1>3, <1>4, <1>6 DEF Lock, StartOf, InCritical
<1>7. CASE SetStarted(t)
  BY <1>1, <1>2, <1>3, <1>4, <1>7 DEF SetStarted, StartOf, InCritical
<1>8. CASE Unlock(t)
  BY <1>1, <1>2, <1>3, <1>4, <1>8 DEF Unlock, StartOf, InCritical
<1>9. QED
  BY <1>5, <1>6, <1>7, <1>8 DEF ApplicationThread, Begin, notifyStart, StartTimer,
     Update, FindRequest, StoreSample, LowerFlag, End, Finish, FinishBegin

LEMMA StartStepOwn ==
  ASSUME TypeOK, NEW t \in Threads, StartOf(t), ApplicationThread(t)
  PROVE  StartOf(t)'
<1>1. /\ samplingLength \in [Threads -> Nat \ {0}]
      /\ currentSample \in [Threads -> Nat]
      /\ done \in [Threads -> Nat]
  BY DEF TypeOK, SamplingTypes, HistoryTypes
<1>2. ASSUME NEW label, Goto(t, label)
      PROVE  pc'[t] = label
  BY <1>2 DEF Goto, TypeOK, ThreadTypes
<1>3. CASE Begin(t)
  <2>1. pc'[t] = IF NextSample(t) > 1 THEN "task"
                 ELSE IF started THEN "update" ELSE "lock"
    BY <1>2, <1>3 DEF Begin
  <2>2. NextSample(t) > 1 => samplingLength[t] > 1
    BY <1>1 DEF NextSample
  <2>3. UNCHANGED <<started, samplingLength, done>>
    BY <1>3 DEF Begin, startVars, ghostVars
  <2>4. QED
    BY <2>1, <2>2, <2>3 DEF StartOf, InCritical
<1>4. CASE Lock(t)
  <2>1. pc'[t] = (IF started THEN "unlock" ELSE "notify") /\ mutex' = t
    BY <1>2, <1>4 DEF Lock
  <2>2. QED
    BY <1>4, <2>1 DEF Lock, StartOf, samplingVars, ghostVars
<1>5. CASE notifyStart(t)
  <2>1. pc[t] = "notify" /\ pc'[t] = "started"
    BY <1>2, <1>5 DEF notifyStart
  <2>2. QED
    BY <1>5, <2>1 DEF notifyStart, StartOf, InCritical, startVars, samplingVars,
       ghostVars
<1>6. CASE SetStarted(t)
  <2>1. pc[t] = "started" /\ pc'[t] = "unlock"
    BY <1>2, <1>6 DEF SetStarted
  <2>2. QED
    BY <1>6, <2>1 DEF SetStarted, StartOf, InCritical
<1>7. CASE Unlock(t)
  <2>1. pc[t] = "unlock" /\ pc'[t] = "update"
    BY <1>2, <1>7 DEF Unlock
  <2>2. QED
    BY <1>7, <2>1 DEF Unlock, StartOf, InCritical
<1>8. ASSUME NEW length, FinishBegin(t, length), pc[t] \in {"update", "lower"}
      PROVE  StartOf(t)'
  <2>1. pc'[t] = "task"
    BY <1>2, <1>8 DEF FinishBegin
  <2>2. started /\ started' = started
    BY <1>8 DEF StartOf, FinishBegin, startVars
  <2>3. QED
    BY <2>1, <2>2 DEF StartOf, InCritical
<1>9. CASE StartTimer(t) \/ Update(t) \/ LowerFlag(t)
  BY <1>8, <1>9 DEF StartTimer, Update, LowerFlag
<1>10. CASE FindRequest(t)
  <2>1. pc[t] = "update" /\ pc'[t] = "store"
    BY <1>2, <1>10 DEF FindRequest
  <2>2. QED
    BY <1>10, <2>1 DEF FindRequest, StartOf, InCritical, startVars, samplingVars,
       ghostVars
<1>11. CASE StoreSample(t)
  <2>1. pc[t] = "store" /\ pc'[t] = "lower"
    BY <1>2, <1>11 DEF StoreSample
  <2>2. QED
    BY <1>11, <2>1 DEF StoreSample, StartOf, InCritical, startVars, ghostVars
<1>12. CASE End(t)
  <2>1. pc[t] = "task" /\ pc'[t] = "idle"
    BY <1>2, <1>12 DEF End
  <2>2. QED
    BY <1>12, <2>1 DEF End, StartOf, InCritical, startVars
<1>13. CASE Finish(t)
  <2>1. pc[t] = "idle" /\ pc'[t] = "finished"
    BY <1>2, <1>13 DEF Finish
  <2>2. QED
    BY <1>13, <2>1 DEF Finish, StartOf, InCritical, startVars, samplingVars, ghostVars
<1>14. QED
  BY <1>3, <1>4, <1>5, <1>6, <1>7, <1>9, <1>10, <1>11, <1>12, <1>13
     DEF ApplicationThread

LEMMA Started == Spec => []StartInv
<1>1. Init => StartInv
  BY DEF Init, StartInv, StartOf, InCritical
<1>2. TypeOK /\ StartInv /\ [Next]_vars => StartInv'
  <2> SUFFICES ASSUME TypeOK, StartInv, [Next]_vars PROVE StartInv'
    OBVIOUS
  <2>1. ASSUME NEW t \in Threads, ApplicationThread(t)
        PROVE  StartInv'
    <3> SUFFICES ASSUME NEW u \in Threads PROVE StartOf(u)'
      BY DEF StartInv
    <3>1. CASE u = t
      BY <2>1, <3>1, StartStepOwn DEF StartInv
    <3>2. CASE u # t
      BY <2>1, <3>2, StartStepOthers
    <3>3. QED
      BY <3>1, <3>2
  <2>2. ASSUME UNCHANGED <<pc, startVars, samplingLength, done>>
        PROVE  StartInv'
    BY <2>2 DEF StartInv, StartOf, startVars
  <2>3. CASE Support
    BY <2>2, <2>3 DEF Support, SupportCheck, SupportReceive, RaiseFlag, EndWait,
       Collect, Aggregate, ReadPhaseId, ReadTotalThreads, Decide, SendResponse,
       OtherThanSupport, samplingVars
  <2>4. CASE Main
    BY <2>2, <2>4 DEF Main, terminate, SetPhaseId, setTotalThreads, CallTerminate,
       SumTasks, SetStop, JoinSupport, SendStop, ReceiveAck, DestroyApplication,
       OtherThanMain, ghostVars
  <2>5. CASE Monitor
    BY <2>2, <2>5 DEF Monitor, waitStart, RequestSample, ReceiveResponse, SendAck,
       DestroyMonitor, OtherThanMonitor, samplingVars
  <2>6. CASE Channel \/ UNCHANGED vars
    BY <2>2, <2>6 DEF Channel, vars, samplingVars, ghostVars
  <2>7. QED
    BY <2>1, <2>3, <2>4, <2>5, <2>6 DEF Next
<1>3. QED
  BY <1>1, <1>2, TypeCorrect, PTL DEF Spec

-----------------------------------------------------------------------------
(* The order of terminate(). *)

\* terminate() has not been called.
NotTerminating == main.pc \in {"run", "setTotalThreads"}

StopSent == main.pc \in {"ack", "returned", "destroyed"}

Returned == main.pc \in {"returned", "destroyed"}

\* _supportStop is set by terminate() alone, the support thread has been joined
\* before STOP is sent, and each side closes its socket at its end.
OwnerInv ==
  /\ supportStop <=> main.pc \in {"join", "stop", "ack", "returned", "destroyed"}
  /\ support.pc = "exited" => supportStop
  /\ main.pc = "stop" \/ StopSent => support.pc = "exited"
  /\ NotTerminating \/ \A t \in Threads : pc[t] = "finished"
  /\ closed["app"] <=> main.pc = "destroyed"
  /\ closed["mon"] <=> mon.pc = "destroyed"

\* A finished thread takes no step.
LEMMA FinishedStops ==
  ASSUME OwnerInv, NEW t \in Threads, ApplicationThread(t)
  PROVE  NotTerminating /\ pc[t] # "finished"
<1>1. pc[t] # "finished"
  BY DEF ApplicationThread, Begin, Lock, notifyStart, SetStarted, Unlock,
     StartTimer, Update, FindRequest, StoreSample, LowerFlag, End, Finish
<1>2. QED
  BY <1>1 DEF OwnerInv

LEMMA SupportLabels ==
  ASSUME TypeOK, Support
  PROVE  support.pc # "exited" /\ (support'.pc = "exited" => supportStop)
<1>1. SupportTypes
  BY DEF TypeOK
<1>2. support.pc # "exited"
  BY DEF Support, SupportCheck, SupportReceive, RaiseFlag, EndWait, Collect,
     Aggregate, ReadPhaseId, ReadTotalThreads, Decide, SendResponse
<1>3. CASE SupportCheck
  BY <1>2, <1>3 DEF SupportCheck, SupportAt
<1>4. CASE SupportReceive
  BY <1>2, <1>4 DEF SupportReceive, SupportAt
<1>5. CASE RaiseFlag
  BY <1>1, <1>2, <1>5, AdvanceCases DEF RaiseFlag
<1>6. CASE Collect
  <2> DEFINE next == Advance("wait", "aggregate")
  <2>1. next.pc \in {"wait", "aggregate"}
    BY <1>1, AdvanceCases
  <2>2. next \in [pc : {"raise", "wait", "aggregate"}, i : Threads, updated : Nat,
                  tasks : Nat, phaseId : Nat, totalThreads : Nat]
    BY <1>1, AdvanceTypes
  <2> HIDE DEF next
  <2>3. support'.pc = next.pc
    BY <1>6, <2>2 DEF Collect, next
  <2>4. QED
    BY <1>2, <2>1, <2>3
<1>7. CASE EndWait \/ Aggregate \/ ReadPhaseId \/ ReadTotalThreads
  BY <1>1, <1>2, <1>7 DEF EndWait, Aggregate, ReadPhaseId, ReadTotalThreads,
     SupportTypes
<1>8. CASE Decide \/ SendResponse
  BY <1>1, <1>2, <1>8 DEF Decide, SendResponse, SupportTypes, SupportAt
<1>9. QED
  BY <1>3, <1>4, <1>5, <1>6, <1>7, <1>8 DEF Support

LEMMA OwnerStep ==
  ASSUME TypeOK, OwnerInv, [Next]_vars
  PROVE  OwnerInv'
<1> USE DEF NotTerminating, StopSent
<1>1. closed \in [Sides -> BOOLEAN] /\ "app" \in Sides /\ "mon" \in Sides
      /\ MainTypes /\ MonitorTypes
  BY DEF TypeOK, ChannelTypeOK, Sides
<1>2. ASSUME NEW t \in Threads, ApplicationThread(t)
      PROVE  OwnerInv'
  <2>1. /\ UNCHANGED <<supportStop, support, main, mon, closed>>
    BY <1>2 DEF ApplicationThread, Begin, Lock, notifyStart, SetStarted, Unlock,
       StartTimer, Update, FindRequest, StoreSample, LowerFlag, End, Finish,
       FinishBegin, OtherProcesses, Send, channelVars
  <2>2. QED
    BY <1>2, <2>1, FinishedStops DEF OwnerInv
<1>3. CASE Support
  <2>1. UNCHANGED <<supportStop, main, mon, pc, closed>>
    BY <1>3 DEF Support, SupportCheck, SupportReceive, RaiseFlag, EndWait, Collect,
       Aggregate, ReadPhaseId, ReadTotalThreads, Decide, SendResponse,
       OtherThanSupport, Send, Receive, channelVars
  <2>2. QED
    BY <1>3, <2>1, SupportLabels DEF OwnerInv
<1>4. CASE Main
  <2>1. UNCHANGED <<support, mon, pc>>
    BY <1>4 DEF Main, terminate, SetPhaseId, setTotalThreads, CallTerminate,
       SumTasks, SetStop, JoinSupport, SendStop, ReceiveAck, DestroyApplication,
       OtherThanMain
  <2>2. CASE SetPhaseId \/ setTotalThreads \/ CallTerminate \/ SumTasks
    <3>1. /\ UNCHANGED <<supportStop, closed>>
          /\ main'.pc \in {"run", "setTotalThreads", "sum", "setStop"}
          /\ main.pc \in {"run", "setTotalThreads", "sum"}
          /\ \/ main'.pc \in {"run", "setTotalThreads"}
             \/ \A t \in Threads : pc[t] = "finished"
      BY <1>1, <2>2 DEF SetPhaseId, setTotalThreads, CallTerminate, SumTasks,
         channelVars, MainTypes, OwnerInv
    <3>2. QED
      BY <2>1, <3>1 DEF OwnerInv
  <2>3. CASE SetStop
    <3>1. main.pc = "setStop" /\ main'.pc = "join" /\ supportStop' = TRUE
          /\ closed' = closed
      BY <1>1, <2>3 DEF SetStop, channelVars, MainTypes
    <3>2. QED
      BY <2>1, <3>1 DEF OwnerInv
  <2>4. CASE JoinSupport
    <3>1. main.pc = "join" /\ main'.pc = "stop" /\ support.pc = "exited"
          /\ UNCHANGED <<closed, supportStop>>
      BY <1>1, <2>4 DEF JoinSupport, channelVars, MainTypes
    <3>2. QED
      BY <2>1, <3>1 DEF OwnerInv
  <2>5. CASE SendStop \/ ReceiveAck
    <3>1. /\ \/ main.pc = "stop" /\ main'.pc = "ack"
             \/ main.pc = "ack" /\ main'.pc = "returned"
          /\ UNCHANGED <<closed, supportStop>>
      BY <1>1, <2>5 DEF SendStop, ReceiveAck, Send, Receive, MainTypes
    <3>2. QED
      BY <2>1, <3>1 DEF OwnerInv
  <2>6. CASE DestroyApplication
    <3>1. /\ main.pc = "returned" /\ main'.pc = "destroyed"
          /\ closed' = [closed EXCEPT !["app"] = TRUE]
          /\ supportStop' = supportStop
      BY <1>1, <2>6 DEF DestroyApplication, Close, MainTypes
    <3>2. closed'["app"] /\ closed'["mon"] = closed["mon"]
      BY <1>1, <3>1
    <3>3. QED
      BY <2>1, <3>1, <3>2 DEF OwnerInv
  <2>7. QED
    BY <1>4, <2>2, <2>3, <2>4, <2>5, <2>6 DEF Main, terminate
<1>5. CASE Monitor
  <2>1. UNCHANGED <<supportStop, support, main, pc>>
    BY <1>5 DEF Monitor, waitStart, RequestSample, ReceiveResponse, SendAck,
       DestroyMonitor, OtherThanMonitor
  <2>2. CASE DestroyMonitor
    <3>1. mon'.pc = "destroyed" /\ closed' = [closed EXCEPT !["mon"] = TRUE]
      BY <1>1, <2>2 DEF DestroyMonitor, Close, MonitorTypes
    <3>2. closed'["mon"] /\ closed'["app"] = closed["app"]
      BY <1>1, <3>1
    <3>3. QED
      BY <2>1, <3>1, <3>2 DEF OwnerInv
  <2>3. CASE waitStart \/ RequestSample \/ ReceiveResponse \/ SendAck
    <3>1. mon.pc # "destroyed" /\ mon'.pc # "destroyed" /\ closed' = closed
      BY <1>1, <2>3 DEF waitStart, RequestSample, ReceiveResponse, SendAck, Send,
         Receive, MonitorTypes
    <3>2. QED
      BY <2>1, <3>1 DEF OwnerInv
  <2>4. QED
    BY <1>5, <2>2, <2>3 DEF Monitor
<1>6. CASE Channel \/ UNCHANGED vars
  <2>1. UNCHANGED <<supportStop, support, main, mon, pc, closed>>
    BY <1>6 DEF Channel, Attach, DropPipe, vars, channelVars
  <2>2. QED
    BY <2>1 DEF OwnerInv
<1>7. QED
  BY <1>2, <1>3, <1>4, <1>5, <1>6 DEF Next

LEMMA Owner == Spec => []OwnerInv
<1>1. Init => OwnerInv
  BY DEF Init, OwnerInv, NotTerminating, StopSent, SupportAt, ChannelInit, Sides
<1>2. QED
  BY <1>1, OwnerStep, TypeCorrect, PTL DEF Spec

-----------------------------------------------------------------------------
(* The messages in flight. *)

ToApp == inbox["app"]

ToMon == inbox["mon"]

\* The queue q holds one message, of type a, or two, of types a and b.
One(q, a) == Len(q) = 1 /\ q[1].type = a

Two(q, a, b) == Len(q) = 2 /\ q[1].type = a /\ q[2].type = b

\* STOP, if it has been sent, is the only message to the monitor.
OnlyStop(q) == IF StopSent THEN One(q, "STOP") ELSE q = << >>

\* A message of type a, and STOP behind it if it has been sent.
ThenStop(q, a) == IF StopSent THEN Two(q, a, "STOP") ELSE One(q, a)

StartSent == started \/ \E t \in Threads : pc[t] = "started"

\* The support thread serves no request, or is between the receipt of one and
\* its answer.
Idle == support.pc \in {"check", "recv", "exited"}

Serving == support.pc \in {"raise", "wait", "collect", "aggregate", "phase",
                           "threads", "decide", "send"}

AtWaitStart ==
  /\ ~Returned /\ Idle /\ ToApp = << >>
  /\ IF StartSent THEN ThenStop(ToMon, "START") ELSE OnlyStop(ToMon)

\* An application that ends without any begin() never sends START: waitStart()
\* then takes STOP for it, and no further message comes.
AtReady ==
  /\ ~Returned /\ Idle /\ ToApp = << >>
  /\ IF StartSent THEN OnlyStop(ToMon) ELSE StopSent /\ ToMon = << >>

\* Where the request of a waiting monitor can be: in its queue, with the support
\* thread, answered, abandoned because of terminate(), or taken by terminate()
\* for the acknowledgement.
Requested == ~Returned /\ Idle /\ One(ToApp, "REQ") /\ OnlyStop(ToMon)

Served == Serving /\ ToApp = << >> /\ ToMon = << >>

Answered == ~Returned /\ Idle /\ ToApp = << >> /\ ThenStop(ToMon, "RES")

\* Whoever abandons a request goes back to the test of _supportStop, not to
\* another receive.
Abandoned ==
  /\ ~Returned /\ Idle /\ support.pc # "recv" /\ supportStop
  /\ ToApp = << >> /\ OnlyStop(ToMon)

TakenForAck ==
  /\ Returned /\ Idle /\ ToApp = << >>
  /\ OnlyStop(ToMon) \/ (main.pc = "destroyed" /\ ToMon = << >>)

AtResponse ==
  IF StartSent
  THEN Requested \/ Served \/ Answered \/ Abandoned \/ TakenForAck
  ELSE /\ StopSent /\ ToMon = << >>
       /\ IF Returned THEN ToApp = << >> ELSE One(ToApp, "REQ")

\* After STOP, the last request may still be unread.
AtAck == StopSent /\ ToMon = << >> /\ (ToApp = << >> \/ One(ToApp, "REQ"))

AtEnd ==
  /\ StopSent /\ ToMon = << >>
  /\ \/ ToApp = << >>
     \/ One(ToApp, "REQ") \/ One(ToApp, "STOPACK") \/ Two(ToApp, "REQ", "STOPACK")

ProtocolInv ==
  /\ mon.pc = "waitStart" => AtWaitStart
  /\ mon.pc = "ready" => AtReady
  /\ mon.pc = "response" => AtResponse
  /\ mon.pc = "ack" => AtAck
  /\ mon.pc \in {"ended", "destroyed"} => AtEnd
  /\ mon.pc # "failed"

\* What appending to a short queue and taking its head give.
LEMMA AppendOne ==
  ASSUME NEW q \in Seq(Message), NEW m \in Message
  PROVE  /\ q = << >> => One(Append(q, m), m.type)
         /\ \A a : One(q, a) => Two(Append(q, m), a, m.type)
  BY DEF One, Two

LEMMA TakeOne ==
  ASSUME NEW q \in Seq(Message)
  PROVE  /\ \A a : One(q, a) => q # << >> /\ Head(q).type = a /\ Tail(q) = << >>
         /\ \A a, b : Two(q, a, b) =>
              q # << >> /\ Head(q).type = a /\ One(Tail(q), b)
<1>1. ASSUME NEW a, One(q, a)
      PROVE  q # << >> /\ Head(q).type = a /\ Tail(q) = << >>
  <2>1. Len(q) = 1 /\ q[1].type = a
    BY <1>1 DEF One
  <2>2. q # << >> /\ Head(q) = q[1]
    BY <2>1
  <2>3. Tail(q) \in Seq(Message) /\ Len(Tail(q)) = 0
    BY <2>1, <2>2, HeadTailProperties
  <2>4. Tail(q) = << >>
    BY <2>3, EmptySeq
  <2>5. QED
    BY <2>1, <2>2, <2>4
<1>2. ASSUME NEW a, NEW b, Two(q, a, b)
      PROVE  q # << >> /\ Head(q).type = a /\ One(Tail(q), b)
  <2>1. Len(q) = 2 /\ q[1].type = a /\ q[2].type = b
    BY <1>2 DEF Two
  <2>2. q # << >> /\ Head(q) = q[1]
    BY <2>1
  <2>3. Len(Tail(q)) = 1 /\ Tail(q)[1] = q[2]
    BY <2>1, <2>2, HeadTailProperties
  <2>4. QED
    BY <2>1, <2>2, <2>3 DEF One
<1>3. QED
  BY <1>1, <1>2

LEMMA Boxes ==
  ASSUME TypeOK
  PROVE  /\ inbox \in [Sides -> Seq(Message)] /\ closed \in [Sides -> BOOLEAN]
         /\ ToApp \in Seq(Message) /\ ToMon \in Seq(Message)
         /\ "app" \in Sides /\ "mon" \in Sides
         /\ Peer("app") = "mon" /\ Peer("mon") = "app"
  BY DEF TypeOK, ChannelTypeOK, Sides, ToApp, ToMon, Peer

\* Messages to a side that has not closed its socket arrive in its queue.
LEMMA SendToMon ==
  ASSUME TypeOK, NEW m, Send("app", m), ~closed["mon"]
  PROVE  ToMon' = Append(ToMon, m) /\ ToApp' = ToApp
  BY Boxes DEF Send, ToApp, ToMon

LEMMA SendToApp ==
  ASSUME TypeOK, NEW m, Send("mon", m)
  PROVE  /\ ToMon' = ToMon
         /\ ToApp' = IF closed["app"] THEN ToApp ELSE Append(ToApp, m)
  BY Boxes DEF Send, ToApp, ToMon

LEMMA ReceiveByApp ==
  ASSUME TypeOK, Receive("app")
  PROVE  ToApp # << >> /\ ToApp' = Tail(ToApp) /\ ToMon' = ToMon
  BY Boxes DEF Receive, CanReceive, ToApp, ToMon

LEMMA ReceiveByMon ==
  ASSUME TypeOK, Receive("mon")
  PROVE  ToMon # << >> /\ ToMon' = Tail(ToMon) /\ ToApp' = ToApp
  BY Boxes DEF Receive, CanReceive, ToApp, ToMon

\* Steps that move no message and change nothing that the invariant mentions.
LEMMA ProtocolFrame ==
  ASSUME ProtocolInv, UNCHANGED <<ToApp, ToMon, mon>>,
         StopSent' <=> StopSent, Returned' <=> Returned,
         main'.pc = "destroyed" <=> main.pc = "destroyed",
         Idle' <=> Idle, Serving' <=> Serving, StartSent' <=> StartSent,
         supportStop => supportStop',
         supportStop /\ support'.pc = "recv" => support.pc = "recv"
  PROVE  ProtocolInv'
  BY DEF ProtocolInv, AtWaitStart, AtReady, AtResponse, AtAck, AtEnd, Requested,
     Served, Answered, Abandoned, TakenForAck, OnlyStop, ThenStop

\* A START is sent once, while the monitor waits for it.
LEMMA ProtocolStart ==
  ASSUME TypeOK, StartInv, OwnerInv, ProtocolInv, NEW t \in Threads, notifyStart(t)
  PROVE  ProtocolInv'
<1>1. pc[t] = "notify" /\ pc'[t] = "started"
  BY DEF notifyStart, Goto, TypeOK, ThreadTypes
<1>2. ~StartSent /\ StartSent'
  BY <1>1 DEF StartSent, StartInv, StartOf, InCritical
<1>3. NotTerminating /\ ~StopSent /\ ~Returned
  BY FinishedStops DEF ApplicationThread, NotTerminating, StopSent, Returned
<1>4. mon.pc = "waitStart" /\ ToMon = << >> /\ Idle /\ ToApp = << >>
  <2>1. mon.pc \in {"waitStart", "ready", "response", "ack", "ended", "destroyed",
                    "failed"}
    BY DEF TypeOK, MonitorTypes
  <2>2. QED
    BY <1>2, <1>3, <2>1 DEF ProtocolInv, AtWaitStart, AtReady, AtResponse, AtAck,
       AtEnd, OnlyStop
<1>5. UNCHANGED <<main, mon, support>>
  BY DEF notifyStart, OtherProcesses
<1> DEFINE m == Msg("START", 0, 0, phaseId, totalThreads)
<1>6. m \in Message /\ m.type = "START"
  BY MsgType DEF TypeOK, SharedTypes, MessageType, Msg
<1>7. ToMon' = Append(ToMon, m) /\ ToApp' = ToApp
  BY <1>4, SendToMon DEF notifyStart, OwnerInv
<1> HIDE DEF m
<1>8. One(ToMon', "START")
  BY <1>4, <1>6, <1>7, Boxes, AppendOne
<1>9. ~StopSent' /\ ~Returned' /\ Idle'
  BY <1>3, <1>4, <1>5 DEF StopSent, Returned, Idle
<1>10. QED
  BY <1>2, <1>4, <1>5, <1>7, <1>8, <1>9 DEF ProtocolInv, AtWaitStart, ThenStop

\* The places where the monitor can be.
LEMMA MonitorPlaces ==
  ASSUME TypeOK, ProtocolInv
  PROVE  /\ mon.pc \in {"waitStart", "ready", "response", "ack", "ended", "destroyed"}
         /\ support.pc \in {"check", "recv", "raise", "wait", "collect", "aggregate",
                            "phase", "threads", "decide", "send", "exited", "failed"}
  BY DEF TypeOK, MonitorTypes, SupportTypes, ProtocolInv

\* The support thread takes a request, and only a request.
LEMMA ProtocolSupportReceive ==
  ASSUME TypeOK, OwnerInv, ProtocolInv, SupportReceive
  PROVE  ProtocolInv' /\ Head(ToApp).type = "REQ"
<1>1. /\ support.pc = "recv" /\ support'.pc = "raise"
      /\ UNCHANGED <<mon, main, started, pc>>
  BY DEF SupportReceive, OtherThanSupport, SupportAt, startVars
<1>2. ToApp # << >> /\ ToApp' = Tail(ToApp) /\ ToMon' = ToMon
  BY ReceiveByApp DEF SupportReceive
<1>3. ~StopSent /\ ~Returned
  BY <1>1 DEF OwnerInv, StopSent, Returned
<1>4. mon.pc = "response" /\ StartSent /\ Requested
  BY <1>1, <1>2, <1>3, MonitorPlaces DEF ProtocolInv, AtWaitStart, AtReady,
     AtResponse, AtAck, AtEnd, Served, Answered, Abandoned, TakenForAck
<1>5. One(ToApp, "REQ") /\ ToMon = << >>
  BY <1>3, <1>4 DEF Requested, OnlyStop
<1>6. ToApp' = << >> /\ Head(ToApp).type = "REQ"
  BY <1>2, <1>5, Boxes, TakeOne
<1>7. StartSent' /\ Serving'
  BY <1>1, <1>4 DEF StartSent, Serving
<1>8. Served'
  BY <1>2, <1>5, <1>6, <1>7 DEF Served
<1>9. QED
  BY <1>1, <1>4, <1>6, <1>7, <1>8 DEF ProtocolInv, AtResponse

\* While the support thread serves, the monitor waits and no message is in
\* flight.
LEMMA ServingAlone ==
  ASSUME TypeOK, OwnerInv, ProtocolInv, Serving
  PROVE  /\ mon.pc = "response" /\ StartSent /\ ToApp = << >> /\ ToMon = << >>
         /\ ~StopSent /\ ~Returned
<1>1. ~StopSent /\ ~Returned
  BY DEF OwnerInv, StopSent, Returned, Serving
<1>2. ~Idle
  BY DEF Serving, Idle
<1>3. mon.pc = "response" /\ StartSent /\ Served
  BY <1>1, <1>2, MonitorPlaces DEF ProtocolInv, AtWaitStart, AtReady, AtResponse,
     AtAck, AtEnd, Requested, Answered, Abandoned, TakenForAck
<1>4. QED
  BY <1>1, <1>3 DEF Served

LEMMA ProtocolSendResponse ==
  ASSUME TypeOK, OwnerInv, ProtocolInv, SendResponse
  PROVE  ProtocolInv'
<1>1. /\ support.pc = "send" /\ support'.pc = "check"
      /\ UNCHANGED <<mon, main, started, pc>>
  BY DEF SendResponse, OtherThanSupport, SupportAt, startVars
<1>2. /\ mon.pc = "response" /\ StartSent /\ ToApp = << >> /\ ToMon = << >>
      /\ ~StopSent /\ ~Returned
  BY <1>1, ServingAlone DEF Serving
<1> DEFINE m == Msg("RES", support.tasks, support.updated,
                    support.phaseId, support.totalThreads)
<1>3. m \in Message /\ m.type = "RES"
  BY MsgType DEF TypeOK, SupportTypes, MessageType, Msg
<1>4. ToMon' = Append(ToMon, m) /\ ToApp' = ToApp
  BY <1>2, SendToMon DEF SendResponse, OwnerInv
<1> HIDE DEF m
<1>5. One(ToMon', "RES")
  BY <1>2, <1>3, <1>4, Boxes, AppendOne
<1>6. StartSent' /\ Idle' /\ ~StopSent' /\ ~Returned'
  BY <1>1, <1>2 DEF StartSent, Idle, StopSent, Returned
<1>7. Answered'
  BY <1>2, <1>4, <1>5, <1>6 DEF Answered, ThenStop
<1>8. QED
  BY <1>1, <1>2, <1>6, <1>7 DEF ProtocolInv, AtResponse

\* A request that terminate() interrupts stays without an answer.
LEMMA ProtocolDecide ==
  ASSUME TypeOK, OwnerInv, ProtocolInv, Decide
  PROVE  ProtocolInv'
<1>1. /\ support.pc = "decide" /\ UNCHANGED <<mon, main, started, pc, supportStop>>
      /\ ToApp' = ToApp /\ ToMon' = ToMon
  BY DEF Decide, OtherThanSupport, startVars, channelVars, ToApp, ToMon
<1>2. /\ mon.pc = "response" /\ StartSent /\ ToApp = << >> /\ ToMon = << >>
      /\ ~StopSent /\ ~Returned
  BY <1>1, ServingAlone DEF Serving
<1>3. StartSent' /\ ~StopSent' /\ ~Returned'
  BY <1>1, <1>2 DEF StartSent, StopSent, Returned
<1>4. CASE supportStop
  <2>1. Idle' /\ support'.pc = "check"
    BY <1>4 DEF Decide, AnswerWanted, SupportAt, Idle
  <2>2. Abandoned'
    BY <1>1, <1>2, <1>3, <1>4, <2>1 DEF Abandoned, OnlyStop
  <2>3. QED
    BY <1>1, <1>2, <1>3, <2>2 DEF ProtocolInv, AtResponse
<1>5. CASE ~supportStop
  <2>1. Serving'
    BY <1>5 DEF Decide, AnswerWanted, Serving, TypeOK, SupportTypes
  <2>2. Served'
    BY <1>1, <1>2, <2>1 DEF Served
  <2>3. QED
    BY <1>1, <1>2, <1>3, <2>2 DEF ProtocolInv, AtResponse
<1>6. QED
  BY <1>4, <1>5

LEMMA ProtocolSendStop ==
  ASSUME TypeOK, OwnerInv, ProtocolInv, SendStop
  PROVE  ProtocolInv'
<1>1. /\ main.pc = "stop" /\ main'.pc = "ack"
      /\ UNCHANGED <<mon, support, supportStop, started, pc>>
  BY DEF SendStop, OtherThanMain, startVars, TypeOK, MainTypes
<1>2. ~StopSent /\ ~Returned /\ StopSent' /\ ~Returned' /\ Idle
  BY <1>1 DEF StopSent, Returned, OwnerInv, Idle
<1>3. mon.pc \in {"waitStart", "ready", "response"} /\ ~Serving
  BY <1>1, <1>2, MonitorPlaces DEF ProtocolInv, AtAck, AtEnd, OwnerInv, Serving
<1> DEFINE m == Msg("STOP", main.total, 0, 0, 0)
<1>4. m \in Message /\ m.type = "STOP"
  BY MsgType DEF TypeOK, MainTypes, MessageType, Msg
<1>5. ToMon' = Append(ToMon, m) /\ ToApp' = ToApp
  BY <1>3, SendToMon DEF SendStop, OwnerInv
<1> HIDE DEF m
<1>6. /\ OnlyStop(ToMon) => OnlyStop(ToMon)'
      /\ \A a : ThenStop(ToMon, a) => One(ToMon, a) /\ Two(ToMon', a, "STOP")
  BY <1>2, <1>4, <1>5, Boxes, AppendOne DEF OnlyStop, ThenStop
<1>7. /\ ThenStop(ToMon, "START") => ThenStop(ToMon, "START")'
      /\ ThenStop(ToMon, "RES") => ThenStop(ToMon, "RES")'
  BY <1>2, <1>6 DEF ThenStop
<1>8. (StartSent' <=> StartSent) /\ Idle'
  BY <1>1, <1>2 DEF StartSent, Idle
<1>9. QED
  BY <1>1, <1>2, <1>3, <1>5, <1>6, <1>7, <1>8 DEF ProtocolInv, AtWaitStart, AtReady,
     AtResponse, Requested, Served, Answered, Abandoned, TakenForAck

\* terminate() takes whatever arrives for the acknowledgement.
LEMMA ProtocolReceiveAck ==
  ASSUME TypeOK, OwnerInv, ProtocolInv, ReceiveAck
  PROVE  ProtocolInv'
<1>1. /\ main.pc = "ack" /\ main'.pc = "returned"
      /\ UNCHANGED <<mon, support, started, pc>>
  BY DEF ReceiveAck, OtherThanMain, startVars, TypeOK, MainTypes
<1>2. StopSent /\ ~Returned /\ StopSent' /\ Returned' /\ Idle
  BY <1>1 DEF StopSent, Returned, OwnerInv, Idle
<1>3. ToApp # << >> /\ ToApp' = Tail(ToApp) /\ ToMon' = ToMon
  BY ReceiveByApp DEF ReceiveAck
<1>4. /\ \A a : One(ToApp, a) => ToApp' = << >>
      /\ \A a, b : Two(ToApp, a, b) => One(ToApp', b)
  BY <1>3, Boxes, TakeOne
<1>5. (StartSent' <=> StartSent) /\ Idle' /\ ~Serving
  BY <1>1, <1>2 DEF StartSent, Idle, Serving
<1>6. CASE mon.pc \in {"ended", "destroyed"}
  BY <1>1, <1>2, <1>3, <1>4, <1>6 DEF ProtocolInv, AtEnd
<1>7. CASE mon.pc = "ack"
  BY <1>1, <1>2, <1>3, <1>4, <1>7 DEF ProtocolInv, AtAck
<1>8. CASE mon.pc = "response"
  <2>1. StartSent => Requested
    BY <1>2, <1>3, <1>5, <1>8 DEF ProtocolInv, AtResponse, Served, Answered,
       Abandoned, TakenForAck
  <2>2. StartSent' => TakenForAck'
    BY <1>2, <1>3, <1>4, <1>5, <2>1 DEF Requested, TakenForAck, OnlyStop
  <2>3. ~StartSent => One(ToApp, "REQ") /\ ToMon = << >>
    BY <1>2, <1>8 DEF ProtocolInv, AtResponse
  <2>4. AtResponse'
    BY <1>2, <1>3, <1>4, <1>5, <2>2, <2>3 DEF AtResponse
  <2>5. QED
    BY <1>1, <1>8, <2>4 DEF ProtocolInv
<1>9. mon.pc \notin {"waitStart", "ready"}
  BY <1>3 DEF ProtocolInv, AtWaitStart, AtReady
<1>10. QED
  BY <1>6, <1>7, <1>8, <1>9, MonitorPlaces

LEMMA ProtocolDestroyApplication ==
  ASSUME TypeOK, OwnerInv, ProtocolInv, DestroyApplication
  PROVE  ProtocolInv'
<1>1. /\ main.pc = "returned" /\ main'.pc = "destroyed"
      /\ UNCHANGED <<mon, support, started, pc>>
  BY DEF DestroyApplication, OtherThanMain, startVars, TypeOK, MainTypes
<1>2. StopSent /\ Returned /\ StopSent' /\ Returned' /\ Idle
  BY <1>1 DEF StopSent, Returned, OwnerInv, Idle
<1>3. ToApp' = << >> /\ ToMon' = ToMon
  BY Boxes DEF DestroyApplication, Close, ToApp, ToMon
<1>4. (StartSent' <=> StartSent) /\ Idle' /\ ~Serving
  BY <1>1, <1>2 DEF StartSent, Idle, Serving
<1>5. QED
  BY <1>1, <1>2, <1>3, <1>4 DEF ProtocolInv, AtWaitStart, AtReady, AtResponse,
     AtAck, AtEnd, Requested, Served, Answered, Abandoned, TakenForAck, OnlyStop

\* The steps of the monitor change nothing of the application.
LEMMA MonitorFrame ==
  ASSUME Monitor
  PROVE  /\ StopSent' <=> StopSent
         /\ Returned' <=> Returned
         /\ main'.pc = "destroyed" <=> main.pc = "destroyed"
         /\ Idle' <=> Idle
         /\ Serving' <=> Serving
         /\ StartSent' <=> StartSent
         /\ supportStop' <=> supportStop
<1>1. UNCHANGED <<main, support, started, pc, supportStop>>
  BY DEF Monitor, waitStart, RequestSample, ReceiveResponse, SendAck,
     DestroyMonitor, OtherThanMonitor, startVars
<1>2. QED
  BY <1>1 DEF StopSent, Returned, Idle, Serving, StartSent

LEMMA ProtocolWaitStart ==
  ASSUME TypeOK, OwnerInv, ProtocolInv, waitStart
  PROVE  ProtocolInv'
<1>1. mon.pc = "waitStart" /\ mon'.pc = "ready"
  BY DEF waitStart, TypeOK, MonitorTypes
<1>2. ToMon # << >> /\ ToMon' = Tail(ToMon) /\ ToApp' = ToApp
  BY ReceiveByMon DEF waitStart
<1>3. /\ \A a : One(ToMon, a) => ToMon' = << >>
      /\ \A a, b : Two(ToMon, a, b) => One(ToMon', b)
  BY <1>2, Boxes, TakeOne
<1>4. AtWaitStart
  BY <1>1 DEF ProtocolInv
<1>5. AtReady'
  BY <1>2, <1>3, <1>4, MonitorFrame DEF Monitor, AtWaitStart, AtReady, OnlyStop,
     ThenStop
<1>6. QED
  BY <1>1, <1>5 DEF ProtocolInv

LEMMA ProtocolRequest ==
  ASSUME TypeOK, OwnerInv, ProtocolInv, RequestSample
  PROVE  ProtocolInv'
<1>1. mon.pc = "ready" /\ mon'.pc = "response"
  BY DEF RequestSample, TypeOK, MonitorTypes
<1>2. AtReady /\ ~closed["app"]
  BY <1>1 DEF ProtocolInv, AtReady, OwnerInv, Returned
<1> DEFINE m == Plain("REQ")
<1>3. m \in Message /\ m.type = "REQ"
  BY MsgType DEF MessageType, Plain, Msg
<1>4. ToApp' = Append(ToApp, m) /\ ToMon' = ToMon
  BY <1>2, SendToApp DEF RequestSample
<1> HIDE DEF m
<1>5. One(ToApp', "REQ")
  BY <1>2, <1>3, <1>4, Boxes, AppendOne DEF AtReady
<1>6. AtResponse'
  BY <1>2, <1>4, <1>5, MonitorFrame DEF Monitor, AtReady, AtResponse, Requested,
     OnlyStop
<1>7. QED
  BY <1>1, <1>6 DEF ProtocolInv

\* A waiting monitor gets an answer or STOP, and nothing else.
LEMMA ProtocolResponse ==
  ASSUME TypeOK, OwnerInv, ProtocolInv, ReceiveResponse
  PROVE  ProtocolInv'
<1> DEFINE m == Head(ToMon)
<1>1. mon.pc = "response"
  BY DEF ReceiveResponse
<1>2. ToMon # << >> /\ ToMon' = Tail(ToMon) /\ ToApp' = ToApp
  BY ReceiveByMon DEF ReceiveResponse
<1>3. /\ \A a : One(ToMon, a) => m.type = a /\ ToMon' = << >>
      /\ \A a, b : Two(ToMon, a, b) => m.type = a /\ One(ToMon', b)
  BY <1>2, Boxes, TakeOne
<1>4. /\ m.type = "RES" => mon'.pc = "ready"
      /\ m.type = "STOP" => mon'.pc = "ack"
  BY DEF ReceiveResponse, ToMon, TypeOK, MonitorTypes
<1> HIDE DEF m
<1>5. StartSent /\ (Requested \/ Answered \/ Abandoned \/ TakenForAck)
  BY <1>1, <1>2 DEF ProtocolInv, AtResponse, Served
<1>6. CASE Answered
  <2>1. mon'.pc = "ready"
    BY <1>3, <1>4, <1>6 DEF Answered, ThenStop
  <2>2. AtReady'
    BY <1>2, <1>3, <1>5, <1>6, MonitorFrame DEF Monitor, Answered, ThenStop, AtReady,
       OnlyStop
  <2>3. QED
    BY <2>1, <2>2 DEF ProtocolInv
<1>7. CASE Requested \/ Abandoned \/ TakenForAck
  <2>1. StopSent /\ One(ToMon, "STOP") /\ (ToApp = << >> \/ One(ToApp, "REQ"))
    BY <1>2, <1>7 DEF Requested, Abandoned, TakenForAck, OnlyStop
  <2>2. mon'.pc = "ack"
    BY <1>3, <1>4, <2>1
  <2>3. AtAck'
    BY <1>2, <1>3, <2>1, MonitorFrame DEF Monitor, AtAck
  <2>4. QED
    BY <2>2, <2>3 DEF ProtocolInv
<1>8. QED
  BY <1>5, <1>6, <1>7

LEMMA ProtocolSendAck ==
  ASSUME TypeOK, OwnerInv, ProtocolInv, SendAck
  PROVE  ProtocolInv'
<1>1. mon.pc = "ack" /\ mon'.pc = "ended"
  BY DEF SendAck, TypeOK, MonitorTypes
<1>2. AtAck
  BY <1>1 DEF ProtocolInv
<1> DEFINE m == Plain("STOPACK")
<1>3. m \in Message /\ m.type = "STOPACK"
  BY MsgType DEF MessageType, Plain, Msg
<1>4. ToMon' = ToMon /\ ToApp' = IF closed["app"] THEN ToApp ELSE Append(ToApp, m)
  BY SendToApp DEF SendAck
<1> HIDE DEF m
<1>5. AtEnd'
  BY <1>2, <1>3, <1>4, Boxes, AppendOne, MonitorFrame DEF Monitor, AtAck, AtEnd
<1>6. QED
  BY <1>1, <1>5 DEF ProtocolInv

LEMMA ProtocolStep ==
  ASSUME TypeOK, HandshakeInv, StartInv, OwnerInv, ProtocolInv, [Next]_vars
  PROVE  ProtocolInv'
<1>1. ASSUME NEW t \in Threads, ApplicationThread(t), ~notifyStart(t)
      PROVE  ProtocolInv'
  <2>1. UNCHANGED <<inbox, mon, main, support, supportStop>>
    BY <1>1 DEF ApplicationThread, Begin, Lock, SetStarted, Unlock, StartTimer,
       Update, FindRequest, StoreSample, LowerFlag, End, Finish, FinishBegin,
       OtherProcesses, channelVars
  <2>2. StartSent' <=> StartSent
    <3>1. CASE SetStarted(t)
      BY <3>1 DEF SetStarted, StartSent
    <3>2. CASE ~SetStarted(t)
      <4>1. started' = started
        BY <1>1, <3>2 DEF ApplicationThread, Begin, Lock, Unlock, StartTimer, Update,
           FindRequest, StoreSample, LowerFlag, End, Finish, FinishBegin, startVars
      <4>2. pc[t] # "started" /\ pc'[t] # "started"
        <5>1. ASSUME NEW label, Goto(t, label)
              PROVE  pc'[t] = label
          BY <5>1 DEF Goto, TypeOK, ThreadTypes
        <5>2. QED
          BY <1>1, <3>2, <5>1 DEF ApplicationThread, Begin, Lock, Unlock, StartTimer,
             Update, FindRequest, StoreSample, LowerFlag, End, Finish, FinishBegin
      <4>3. \A u \in Threads : u # t => pc'[u] = pc[u]
        BY <1>1, OthersUntouched DEF SameCounting
      <4>4. QED
        BY <4>1, <4>2, <4>3 DEF StartSent
    <3>3. QED
      BY <3>1, <3>2
  <2>3. QED
    BY <2>1, <2>2, ProtocolFrame DEF ToApp, ToMon, StopSent, Returned, Idle, Serving
<1>2. CASE Support
  <2>1. /\ UNCHANGED <<mon, main, started, pc, supportStop>>
        /\ SupportTypes
    BY <1>2 DEF Support, SupportCheck, SupportReceive, RaiseFlag, EndWait, Collect,
       Aggregate, ReadPhaseId, ReadTotalThreads, Decide, SendResponse,
       OtherThanSupport, startVars, TypeOK
  <2>2. ASSUME UNCHANGED channelVars, Idle' <=> Idle, Serving' <=> Serving,
               supportStop /\ support'.pc = "recv" => support.pc = "recv"
        PROVE  ProtocolInv'
    BY <2>1, <2>2, ProtocolFrame DEF ToApp, ToMon, StopSent, Returned, StartSent,
       channelVars
  <2>3. CASE SupportCheck
    BY <2>2, <2>3 DEF SupportCheck, SupportAt, Idle, Serving
  <2>4. CASE RaiseFlag
    <3>1. support.pc = "raise" /\ support'.pc \in {"raise", "wait"}
      BY <2>1, <2>4, AdvanceCases DEF RaiseFlag
    <3>2. QED
      BY <2>2, <2>4, <3>1 DEF RaiseFlag, Idle, Serving
  <2>5. CASE Collect
    <3> DEFINE next == Advance("wait", "aggregate")
    <3>1. next.pc \in {"wait", "aggregate"}
      BY <2>1, AdvanceCases
    <3>2. next \in [pc : {"raise", "wait", "aggregate"}, i : Threads, updated : Nat,
                    tasks : Nat, phaseId : Nat, totalThreads : Nat]
      BY <2>1, AdvanceTypes
    <3> HIDE DEF next
    <3>3. support.pc = "collect" /\ support'.pc = next.pc
      BY <2>5, <3>2 DEF Collect, next
    <3>4. QED
      BY <2>2, <2>5, <3>1, <3>3 DEF Collect, Idle, Serving
  <2>6. CASE Aggregate
    <3>1. support.pc = "aggregate" /\ support'.pc # "failed"
      <4>1. HandshakeInv'
        BY ThreadInvStep, ProgressStep, AnswersStep DEF HandshakeInv
      <4>2. QED
        BY <2>6, <4>1 DEF Aggregate, HandshakeInv, ProgressInv
    <3>2. support'.pc = "phase"
      BY <2>1, <2>6, <3>1 DEF Aggregate, SupportTypes
    <3>3. QED
      BY <2>2, <2>6, <3>1, <3>2 DEF Aggregate, Idle, Serving
  <2>7. CASE EndWait \/ ReadPhaseId \/ ReadTotalThreads
    <3>1. /\ support.pc \in {"wait", "phase", "threads"}
          /\ support'.pc \in {"collect", "threads", "decide"}
          /\ UNCHANGED channelVars
      BY <2>1, <2>7 DEF EndWait, ReadPhaseId, ReadTotalThreads, SupportTypes
    <3>2. QED
      BY <2>2, <3>1 DEF Idle, Serving
  <2>8. QED
    BY <1>2, <2>3, <2>4, <2>5, <2>6, <2>7, ProtocolSupportReceive,
       ProtocolSendResponse, ProtocolDecide DEF Support
<1>3. CASE Main
  <2>1. CASE SetPhaseId \/ setTotalThreads \/ CallTerminate \/ SumTasks
               \/ SetStop \/ JoinSupport
    <3>1. /\ UNCHANGED <<inbox, mon, support, started, pc>>
          /\ main.pc \notin {"ack", "returned", "destroyed"}
          /\ main'.pc \notin {"ack", "returned", "destroyed"}
          /\ supportStop => supportStop'
      <4>1. MainTypes
        BY DEF TypeOK
      <4>2. CASE SetPhaseId \/ setTotalThreads \/ CallTerminate
        BY <4>1, <4>2 DEF SetPhaseId, setTotalThreads, CallTerminate, OtherThanMain,
           channelVars, startVars, MainTypes
      <4>3. CASE SumTasks
        BY <4>1, <4>3 DEF SumTasks, OtherThanMain, channelVars, startVars, MainTypes
      <4>4. CASE SetStop \/ JoinSupport
        BY <4>1, <4>4 DEF SetStop, JoinSupport, OtherThanMain, channelVars, startVars,
           MainTypes
      <4>5. QED
        BY <2>1, <4>2, <4>3, <4>4
    <3>2. QED
      BY <3>1, ProtocolFrame DEF ToApp, ToMon, StopSent, Returned, Idle, Serving,
         StartSent
  <2>2. QED
    BY <1>3, <2>1, ProtocolSendStop, ProtocolReceiveAck, ProtocolDestroyApplication
       DEF Main, terminate
<1>4. CASE Monitor
  <2>1. CASE DestroyMonitor
    <3>1. mon.pc = "ended" /\ mon'.pc = "destroyed" /\ AtEnd
      BY <2>1 DEF DestroyMonitor, TypeOK, MonitorTypes, ProtocolInv
    <3>2. ToMon' = << >> /\ ToApp' = ToApp
      BY <2>1, Boxes DEF DestroyMonitor, Close, ToApp, ToMon
    <3>3. AtEnd'
      BY <1>4, <3>1, <3>2, MonitorFrame DEF AtEnd
    <3>4. QED
      BY <3>1, <3>3 DEF ProtocolInv
  <2>2. QED
    BY <1>4, <2>1, ProtocolWaitStart, ProtocolRequest, ProtocolResponse,
       ProtocolSendAck DEF Monitor
<1>5. CASE Channel
  <2>1. UNCHANGED <<mon, main, support, started, pc, supportStop>>
    BY <1>5 DEF Channel, startVars
  <2>2. /\ StopSent' <=> StopSent
        /\ Returned' <=> Returned
        /\ main'.pc = "destroyed" <=> main.pc = "destroyed"
        /\ Idle' <=> Idle
        /\ Serving' <=> Serving
        /\ StartSent' <=> StartSent
        /\ supportStop' <=> supportStop
    BY <2>1 DEF StopSent, Returned, Idle, Serving, StartSent
  <2>3. CASE inbox' = inbox
    BY <2>1, <2>2, <2>3, ProtocolFrame DEF ToApp, ToMon
  <2>4. CASE DropPipe("mon")
    <3>1. ToMon' = << >> /\ ToApp' = ToApp /\ main.pc = "destroyed"
      BY <2>4, Boxes DEF DropPipe, ToApp, ToMon, OwnerInv
    <3>2. StopSent /\ Returned
      BY <3>1 DEF StopSent, Returned
    <3>3. ~Serving
      BY <3>2 DEF OwnerInv, Serving
    <3>4. Idle
      BY <3>2 DEF OwnerInv, Idle
    <3>5. QED
      BY <2>1, <2>2, <3>1, <3>2, <3>3, <3>4 DEF ProtocolInv, AtWaitStart, AtReady,
         AtResponse, AtAck, AtEnd, Requested, Served, Answered, Abandoned, TakenForAck
  <2>5. CASE DropPipe("app")
    <3>1. ToApp' = << >> /\ ToMon' = ToMon /\ mon.pc = "destroyed"
      BY <2>5, Boxes DEF DropPipe, ToApp, ToMon, OwnerInv
    <3>2. QED
      BY <2>1, <2>2, <3>1 DEF ProtocolInv, AtEnd
  <2>6. QED
    BY <1>5, <2>3, <2>4, <2>5 DEF Channel, Attach, Sides
<1>6. CASE UNCHANGED vars
  <2>1. UNCHANGED <<inbox, mon, main, support, started, pc, supportStop>>
    BY <1>6 DEF vars, channelVars, startVars
  <2>2. QED
    BY <2>1, ProtocolFrame DEF ToApp, ToMon, StopSent, Returned, Idle, Serving,
       StartSent
<1>7. QED
  BY <1>1, <1>2, <1>3, <1>4, <1>5, <1>6, ProtocolStart DEF Next

-----------------------------------------------------------------------------
(* The theorems. *)

LEMMA Protocol ==
  Spec => [](TypeOK /\ HandshakeInv /\ StartInv /\ OwnerInv /\ ProtocolInv)
<1>1. Init => ProtocolInv
  BY DEF Init, ProtocolInv, AtWaitStart, Returned, Idle, SupportAt, ChannelInit,
     Sides, ToApp, ToMon, StartSent, OnlyStop, StopSent
<1>2. QED
  BY <1>1, ProtocolStep, Handshake, Started, Owner, PTL DEF Spec

\* At most two messages are on their way to a side, so a send never waits for
\* buffer space.
THEOREM QueuesBounded == Spec => []InFlightBounded
<1>1. TypeOK /\ ProtocolInv => InFlightBounded
  <2> SUFFICES ASSUME TypeOK, ProtocolInv PROVE InFlightBounded
    OBVIOUS
  <2>1. ASSUME NEW q \in Seq(Message),
               q = << >> \/ (\E x : One(q, x)) \/ (\E x, y : Two(q, x, y))
        PROVE  Len(q) <= 2
    <3>1. CASE q = << >>
      <4>1. Len(q) = 0
        BY <3>1, EmptySeq
      <4>2. QED
        BY <4>1
    <3>2. CASE (\E x : One(q, x)) \/ (\E x, y : Two(q, x, y))
      <4>1. Len(q) = 1 \/ Len(q) = 2
        BY <3>2, Zenon DEF One, Two
      <4>2. \A n \in {1, 2} : n <= 2
        OBVIOUS
      <4>3. QED
        BY <4>1, <4>2, Zenon
    <3>3. QED
      BY <2>1, <3>1, <3>2, Zenon
  <2>2. ToApp = << >> \/ (\E x : One(ToApp, x)) \/ (\E x, y : Two(ToApp, x, y))
    BY MonitorPlaces DEF ProtocolInv, AtWaitStart, AtReady, AtResponse, AtAck, AtEnd,
       Requested, Served, Answered, Abandoned, TakenForAck
  <2>3. ToMon = << >> \/ (\E x : One(ToMon, x)) \/ (\E x, y : Two(ToMon, x, y))
    BY MonitorPlaces DEF ProtocolInv, AtWaitStart, AtReady, AtResponse, AtAck, AtEnd,
       Requested, Served, Answered, Abandoned, TakenForAck, OnlyStop, ThenStop
  <2>4. Len(ToApp) <= 2 /\ Len(ToMon) <= 2
    BY <2>1, <2>2, <2>3, Boxes
  <2>5. QED
    BY <2>4 DEF InFlightBounded, Sides, ToApp, ToMon
<1>2. QED
  BY <1>1, Protocol, PTL

\* Neither the support thread nor getSample() ever throws.
THEOREM NeverThrows == Spec => []NoFatalError
<1>1. HandshakeInv /\ ProtocolInv => NoFatalError
  BY DEF HandshakeInv, ProgressInv, ProtocolInv, NoFatalError
<1>2. QED
  BY <1>1, Protocol, PTL

\* The assertion of the support thread: what it receives is a request, never
\* the acknowledgement that terminate() waits for on the same socket.
THEOREM SupportGetsRequests == Spec => []OnlyRequests
<1>1. TypeOK /\ OwnerInv /\ ProtocolInv => OnlyRequests
  <2> SUFFICES ASSUME TypeOK, OwnerInv, ProtocolInv, support.pc = "recv",
                      ToApp # << >>
               PROVE  Head(ToApp).type = "REQ"
    BY DEF OnlyRequests, ToApp
  <2>1. ~StopSent /\ ~Returned /\ Idle
    BY DEF OwnerInv, StopSent, Returned, Idle
  <2>2. One(ToApp, "REQ")
    BY <2>1, MonitorPlaces DEF ProtocolInv, AtWaitStart, AtReady, AtResponse, AtAck,
       AtEnd, Requested, Served, Answered, Abandoned, TakenForAck
  <2>3. QED
    BY <2>2, Boxes, TakeOne
<1>2. QED
  BY <1>1, Protocol, PTL

\* With a task executed, START is sent before the threads finish.
LEMMA FinishedMeansStarted ==
  ASSUME TypeOK, StartInv, MinTasks > 0, \A t \in Threads : pc[t] = "finished"
  PROVE  StartSent
<1>1. 0 \in Threads
  BY RiffAssumption DEF Threads
<1>2. PICK u \in Threads : done[u] >= MinTasks
  BY <1>1 DEF StartInv, StartOf
<1>3. done[u] > 0
  BY <1>2, RiffAssumption DEF TypeOK, HistoryTypes
<1>4. QED
  BY <1>3 DEF StartInv, StartOf, StartSent

\* The assertion of waitStart(): the first message is START, provided that some
\* thread executes a task; terminate() without any task sends STOP first.
THEOREM StartIsFirst == MinTasks > 0 => (Spec => []StartComesFirst)
<1> SUFFICES ASSUME MinTasks > 0 PROVE Spec => []StartComesFirst
  OBVIOUS
<1>1. TypeOK /\ StartInv /\ OwnerInv /\ ProtocolInv => StartComesFirst
  <2> SUFFICES ASSUME TypeOK, StartInv, OwnerInv, ProtocolInv, mon.pc = "waitStart",
                      ToMon # << >>
               PROVE  Head(ToMon).type = "START"
    BY DEF StartComesFirst, ToMon
  <2>1. StopSent => StartSent
    BY FinishedMeansStarted DEF OwnerInv, StopSent, NotTerminating
  <2>2. StartSent /\ ThenStop(ToMon, "START")
    BY <2>1 DEF ProtocolInv, AtWaitStart, OnlyStop
  <2>3. QED
    BY <2>2, Boxes, TakeOne DEF ThenStop
<1>2. QED
  BY <1>1, Protocol, PTL

-----------------------------------------------------------------------------
(* Nobody waits for everybody, and STOP is not lost. *)

\* A monitor that has acknowledged STOP has left terminate() something to
\* receive, and it closes its socket only when that has been received.
AckInv ==
  /\ mon.pc = "ended" /\ main.pc = "ack" => ToApp # << >>
  /\ mon.pc = "destroyed" => main.pc # "ack"

LEMMA AckStep ==
  ASSUME TypeOK, OwnerInv, ProtocolInv, AckInv, [Next]_vars
  PROVE  AckInv'
<1>1. ASSUME NEW t \in Threads, ApplicationThread(t)
      PROVE  AckInv'
  <2>1. main' = main
    BY <1>1 DEF ApplicationThread, Begin, Lock, notifyStart, SetStarted, Unlock,
       StartTimer, Update, FindRequest, StoreSample, LowerFlag, End, Finish,
       FinishBegin, OtherProcesses
  <2>2. main.pc # "ack"
    BY <1>1, FinishedStops DEF NotTerminating
  <2>3. QED
    BY <2>1, <2>2 DEF AckInv
<1>2. CASE Support
  <2>1. main' = main
    BY <1>2 DEF Support, SupportCheck, SupportReceive, RaiseFlag, EndWait, Collect,
       Aggregate, ReadPhaseId, ReadTotalThreads, Decide, SendResponse,
       OtherThanSupport
  <2>2. main.pc # "ack"
    BY <1>2, SupportLabels DEF OwnerInv, StopSent
  <2>3. QED
    BY <2>1, <2>2 DEF AckInv
<1>3. CASE Main
  <2>1. mon' = mon
    BY <1>3 DEF Main, terminate, SetPhaseId, setTotalThreads, CallTerminate,
       SumTasks, SetStop, JoinSupport, SendStop, ReceiveAck, DestroyApplication,
       OtherThanMain
  <2>2. main'.pc = "ack" => main.pc = "stop"
    <3>1. MainTypes
      BY DEF TypeOK
    <3>2. CASE SumTasks
      BY <3>1, <3>2 DEF SumTasks, MainTypes
    <3>3. CASE SendStop
      BY <3>3 DEF SendStop
    <3>4. CASE SetPhaseId \/ setTotalThreads \/ CallTerminate \/ SetStop \/ JoinSupport
               \/ ReceiveAck \/ DestroyApplication
      BY <3>1, <3>4 DEF SetPhaseId, setTotalThreads, CallTerminate, SetStop,
         JoinSupport, ReceiveAck, DestroyApplication, MainTypes
    <3>5. QED
      BY <1>3, <3>2, <3>3, <3>4 DEF Main, terminate
  <2>3. main.pc = "stop" => mon.pc \notin {"ended", "destroyed"}
    BY DEF ProtocolInv, AtEnd, StopSent
  <2>4. QED
    BY <2>1, <2>2, <2>3 DEF AckInv
<1>4. CASE Monitor
  <2>1. main' = main
    BY <1>4 DEF Monitor, waitStart, RequestSample, ReceiveResponse, SendAck,
       DestroyMonitor, OtherThanMonitor
  <2>2. MonitorTypes
    BY DEF TypeOK
  <2>3. CASE waitStart \/ RequestSample \/ ReceiveResponse
    <3>1. mon'.pc \in {"ready", "response", "ack", "failed"}
      BY <2>2, <2>3 DEF waitStart, RequestSample, ReceiveResponse, MonitorTypes
    <3>2. QED
      BY <3>1 DEF AckInv
  <2>4. CASE SendAck
    <3> DEFINE m == Plain("STOPACK")
    <3>1. m \in Message
      BY MsgType DEF MessageType, Plain
    <3>2. main.pc = "ack" => ToApp' = Append(ToApp, m)
      BY <2>4, SendToApp DEF SendAck, OwnerInv
    <3> HIDE DEF m
    <3>3. main.pc = "ack" => ToApp' # << >>
      BY <3>1, <3>2, Boxes
    <3>4. mon'.pc = "ended"
      BY <2>2, <2>4 DEF SendAck, MonitorTypes
    <3>5. QED
      BY <2>1, <3>3, <3>4 DEF AckInv
  <2>5. CASE DestroyMonitor
    <3>1. main.pc # "ack"
      BY <2>5 DEF DestroyMonitor, AckInv, ToApp
    <3>2. QED
      BY <2>1, <3>1 DEF AckInv
  <2>6. QED
    BY <1>4, <2>3, <2>4, <2>5 DEF Monitor
<1>5. CASE Channel
  <2>1. UNCHANGED <<main, mon>>
    BY <1>5 DEF Channel
  <2>2. ToApp' = ToApp \/ mon.pc = "destroyed"
    BY <1>5, Boxes DEF Channel, Attach, DropPipe, Sides, ToApp, OwnerInv
  <2>3. QED
    BY <2>1, <2>2 DEF AckInv
<1>6. CASE UNCHANGED vars
  BY <1>6 DEF vars, channelVars, AckInv, ToApp
<1>7. QED
  BY <1>1, <1>2, <1>3, <1>4, <1>5, <1>6 DEF Next

\* The safety half of SessionEnds: an application that waits for a message
\* while none is on its way either way has a monitor whose turn it is.
THEOREM NobodyStuck == MinTasks > 0 => (Spec => []NoMutualWait)
<1> SUFFICES ASSUME MinTasks > 0 PROVE Spec => []NoMutualWait
  OBVIOUS
<1>1. TypeOK /\ StartInv /\ OwnerInv /\ ProtocolInv /\ AckInv => NoMutualWait
  <2> SUFFICES ASSUME TypeOK, StartInv, OwnerInv, ProtocolInv, AckInv,
                      support.pc = "recv" \/ main.pc = "ack",
                      ToApp = << >>, ToMon = << >>
               PROVE  /\ mon.pc \notin {"response", "ended", "destroyed"}
                      /\ mon.pc = "waitStart" =>
                           \E t \in Threads : pc[t] # "finished"
    BY Boxes DEF NoMutualWait, ToApp, ToMon
  <2>1. \A a, b : ~One(ToApp, a) /\ ~One(ToMon, a) /\ ~Two(ToMon, a, b)
    BY Boxes, TakeOne
  <2>2. ~Returned /\ (StopSent <=> main.pc = "ack")
    BY DEF OwnerInv, StopSent, Returned
  <2>3. CASE mon.pc = "response"
    <3>1. CASE StopSent
      <4>1. ~Serving
        BY <3>1 DEF OwnerInv, Serving
      <4>2. QED
        BY <2>1, <2>2, <2>3, <3>1, <4>1 DEF ProtocolInv, AtResponse, Requested, Served,
           Answered, Abandoned, TakenForAck, OnlyStop, ThenStop
    <3>2. CASE ~StopSent
      <4>1. support.pc = "recv" /\ ~Serving
        BY <2>2, <3>2 DEF Serving
      <4>2. QED
        BY <2>1, <2>2, <2>3, <3>2, <4>1 DEF ProtocolInv, AtResponse, Requested, Served,
           Answered, Abandoned, TakenForAck, OnlyStop, ThenStop
    <3>3. QED
      BY <3>1, <3>2
  <2>4. CASE mon.pc \in {"ended", "destroyed"}
    BY <2>2, <2>4 DEF ProtocolInv, AtEnd, AckInv
  <2>5. CASE mon.pc = "waitStart"
    <3> SUFFICES ASSUME \A t \in Threads : pc[t] = "finished" PROVE FALSE
      BY <2>5
    <3>1. StartSent
      BY FinishedMeansStarted
    <3>2. QED
      BY <2>1, <2>5, <3>1 DEF ProtocolInv, AtWaitStart, ThenStop
  <2>6. QED
    BY <2>3, <2>4, <2>5
<1>2. Init => AckInv
  BY DEF Init, AckInv
<1>3. QED
  BY <1>1, <1>2, AckStep, Protocol, PTL DEF Spec

\* STOP reaches the monitor as the summary, as long as the Application is not
\* destroyed: after that the socket may lose it (ReturnsAfterStopReceived).
THEOREM StopReachesMonitor == MinTasks > 0 => (Spec => []StopNotLost)
<1> SUFFICES ASSUME MinTasks > 0 PROVE Spec => []StopNotLost
  OBVIOUS
<1>1. TypeOK /\ StartInv /\ OwnerInv /\ ProtocolInv => StopNotLost
  <2> SUFFICES ASSUME TypeOK, StartInv, OwnerInv, ProtocolInv,
                      main.pc \in {"ack", "returned"},
                      mon.pc \notin {"ack", "ended", "destroyed"}
               PROVE  \E k \in DOMAIN ToMon : ToMon[k].type = "STOP"
    BY DEF StopNotLost, ToMon
  <2>1. StopSent /\ main.pc # "destroyed"
    BY DEF StopSent
  <2>2. StartSent
    BY <2>1, FinishedMeansStarted DEF OwnerInv, NotTerminating
  <2>3. ~Serving
    BY <2>1 DEF OwnerInv, Serving
  <2>4. One(ToMon, "STOP") \/ \E a : Two(ToMon, a, "STOP")
    BY <2>1, <2>2, <2>3, MonitorPlaces DEF ProtocolInv, AtWaitStart, AtReady,
       AtResponse, Requested, Served, Answered, Abandoned, TakenForAck, OnlyStop, ThenStop
  <2>5. DOMAIN ToMon = 1 .. Len(ToMon)
    BY Boxes
  <2>6. QED
    BY <2>4, <2>5 DEF One, Two
<1>2. QED
  BY <1>1, Protocol, PTL
=============================================================================
