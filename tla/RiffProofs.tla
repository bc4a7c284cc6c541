----------------------------- MODULE RiffProofs -----------------------------
(***************************************************************************)
(* What module Riff promises for every number of threads: its types, and   *)
(* the handshake between the application threads and the support thread.   *)
(***************************************************************************)
EXTENDS Riff, TLAPS

USE DEF FirstCheck, SecondCheck, TasksAfterStore, SupportJoined

-----------------------------------------------------------------------------
(* Channel operations and records keep their types. *)

LEMMA PeerSide == ASSUME NEW s \in Sides PROVE Peer(s) \in Sides
  BY DEF Sides, Peer

LEMMA SendTypes ==
  ASSUME ChannelTypeOK(Message), NEW s \in Sides, NEW m \in Message, Send(s, m)
  PROVE  ChannelTypeOK(Message)'
  BY PeerSide DEF ChannelTypeOK, Send

LEMMA ReceiveTypes ==
  ASSUME ChannelTypeOK(Message), NEW s \in Sides, Receive(s)
  PROVE  ChannelTypeOK(Message)' /\ Head(inbox[s]) \in Message
<1>1. inbox[s] \in Seq(Message) /\ inbox[s] # << >>
  BY DEF ChannelTypeOK, Receive, CanReceive
<1>2. Head(inbox[s]) \in Message /\ Tail(inbox[s]) \in Seq(Message)
  BY <1>1
<1>3. QED
  BY <1>2 DEF ChannelTypeOK, Receive

LEMMA CloseTypes ==
  ASSUME ChannelTypeOK(Message), NEW s \in Sides, Close(s)
  PROVE  ChannelTypeOK(Message)'
<1>1. closed' \in [Sides -> BOOLEAN]
  BY Zenon DEF ChannelTypeOK, Close
<1>2. pipe' \in [Sides -> {"none", "active", "lost"}]
      /\ inbox' \in [Sides -> Seq(Message)]
  BY DEF ChannelTypeOK, Close
<1>3. QED
  BY <1>1, <1>2 DEF ChannelTypeOK

LEMMA ChannelStepTypes ==
  ASSUME ChannelTypeOK(Message), NEW s \in Sides, Attach(s) \/ DropPipe(s)
  PROVE  ChannelTypeOK(Message)'
<1>1. CASE Attach(s)
  BY <1>1 DEF ChannelTypeOK, Attach
<1>2. CASE DropPipe(s)
  <2>1. pipe' \in [Sides -> {"none", "active", "lost"}]
    BY <1>2 DEF ChannelTypeOK, DropPipe
  <2>2. inbox' \in [Sides -> Seq(Message)]
    BY <1>2 DEF ChannelTypeOK, DropPipe
  <2>3. QED
    BY <1>2, <2>1, <2>2 DEF ChannelTypeOK, DropPipe
<1>3. QED
  BY <1>1, <1>2

LEMMA MsgType ==
  ASSUME NEW type \in MessageType, NEW a \in Nat, NEW b \in Nat,
         NEW c \in Nat, NEW d \in Nat
  PROVE  Msg(type, a, b, c, d) \in Message
  BY DEF Msg, Message

LEMMA TypeInit == Init => TypeOK
<1> SUFFICES ASSUME Init PROVE TypeOK
  OBVIOUS
<1> USE RiffAssumption
<1>0. 0 \in Threads
  BY DEF Threads
<1>1. SamplingTypes
  BY DEF Init, SamplingTypes
<1>2. HandshakeTypes
  BY DEF Init, HandshakeTypes
<1>3. SharedTypes
  BY Zenon DEF Init, SharedTypes
<1>4. ThreadTypes
  BY DEF Init, ThreadTypes
<1>5. SupportTypes
  BY <1>0 DEF Init, SupportTypes, SupportAt
<1>6. MainTypes
  BY <1>0 DEF Init, MainTypes
<1>7. MonitorTypes
  BY DEF Init, MonitorTypes
<1>8. ChannelTypeOK(Message)
  BY DEF Init, ChannelInit, ChannelTypeOK
<1>9. HistoryTypes
  BY DEF Init, HistoryTypes
<1>10. QED
  BY <1>1, <1>2, <1>3, <1>4, <1>5, <1>6, <1>7, <1>8, <1>9 DEF TypeOK

-----------------------------------------------------------------------------
(* Steps of the application threads. *)

\* The sampling fields that the last part of begin() assigns.
LEMMA FinishTypes ==
  ASSUME TypeOK, NEW t \in Threads, NEW length \in Nat \ {0},
         FinishBegin(t, length), numTasks' \in [Threads -> Nat]
  PROVE  SamplingTypes' /\ ThreadTypes'
<1>1. currentSample' \in [Threads -> Nat]
  BY DEF FinishBegin, TypeOK, SamplingTypes
<1>2. samplingLength' \in [Threads -> Nat \ {0}]
  BY DEF FinishBegin, TypeOK, SamplingTypes
<1>3. begun' \in [Threads -> BOOLEAN]
  BY Zenon DEF FinishBegin, TypeOK, SamplingTypes
<1>4. totalTasks' \in [Threads -> Nat]
  BY DEF FinishBegin, TypeOK, SamplingTypes
<1>5. ThreadTypes'
  BY DEF FinishBegin, Goto, TypeOK, ThreadTypes
<1>6. QED
  BY <1>1, <1>2, <1>3, <1>4, <1>5 DEF SamplingTypes

\* What an application thread's step leaves alone keeps its type.
LEMMA OtherProcessesTypes ==
  ASSUME TypeOK, OtherProcesses
  PROVE  /\ SupportTypes' /\ MainTypes' /\ MonitorTypes'
         /\ supportStop' \in BOOLEAN /\ phaseId' \in Nat /\ totalThreads' \in Nat
<1>1. SupportTypes' /\ MainTypes' /\ MonitorTypes'
  BY DEF TypeOK, OtherProcesses, SupportTypes, MainTypes, MonitorTypes
<1>2. supportStop' = supportStop /\ phaseId' = phaseId
      /\ totalThreads' = totalThreads
  BY DEF OtherProcesses, phaseVars
<1>3. QED
  BY <1>1, <1>2 DEF TypeOK, SharedTypes

LEMMA SamplingSame ==
  ASSUME SamplingTypes, UNCHANGED samplingVars
  PROVE  SamplingTypes'
  BY DEF SamplingTypes, samplingVars

LEMMA HandshakeSame ==
  ASSUME HandshakeTypes, UNCHANGED handshakeVars
  PROVE  HandshakeTypes'
  BY DEF HandshakeTypes, handshakeVars

LEMMA ChannelSame ==
  ASSUME ChannelTypeOK(Message), UNCHANGED channelVars
  PROVE  ChannelTypeOK(Message)'
  BY DEF ChannelTypeOK, channelVars

LEMMA HistorySame ==
  ASSUME HistoryTypes, UNCHANGED ghostVars
  PROVE  HistoryTypes'
  BY DEF HistoryTypes, ghostVars

LEMMA ThreadStepTypes ==
  ASSUME TypeOK, NEW t \in Threads, ApplicationThread(t)
  PROVE  TypeOK'
<1>1. OtherProcesses
  BY DEF ApplicationThread, Begin, Lock, notifyStart, SetStarted, Unlock,
     StartTimer, Update, FindRequest, StoreSample, LowerFlag, End, Finish,
     FinishBegin
<1>2. /\ SupportTypes' /\ MainTypes' /\ MonitorTypes'
      /\ supportStop' \in BOOLEAN /\ phaseId' \in Nat /\ totalThreads' \in Nat
  BY <1>1, OtherProcessesTypes
<1>3. SamplingTypes /\ HandshakeTypes /\ SharedTypes /\ ThreadTypes
      /\ ChannelTypeOK(Message) /\ HistoryTypes
  BY DEF TypeOK
<1>4. ASSUME NEW label, Goto(t, label),
             label \in {"idle", "lock", "notify", "started", "unlock", "update",
                        "store", "lower", "task", "finished"}
      PROVE  ThreadTypes'
  BY <1>3, <1>4 DEF Goto, ThreadTypes
<1>5. UNCHANGED startVars => started' \in BOOLEAN /\ mutex' \in Threads \cup {Free}
  BY <1>3 DEF SharedTypes, startVars
<1>6. ASSUME SamplingTypes', HandshakeTypes', ThreadTypes', HistoryTypes',
             ChannelTypeOK(Message)',
             started' \in BOOLEAN, mutex' \in Threads \cup {Free}
      PROVE  TypeOK'
  BY <1>2, <1>6 DEF TypeOK, SharedTypes
<1>7. CASE Begin(t)
  <2>1. SamplingTypes'
    BY <1>3, <1>7 DEF Begin, NextSample, SamplingTypes
  <2>2. ThreadTypes'
    BY <1>4, <1>7 DEF Begin
  <2>3. QED
    BY <1>3, <1>5, <1>6, <1>7, <2>1, <2>2, HandshakeSame, ChannelSame,
       HistorySame DEF Begin
<1>8. CASE Lock(t)
  <2>1. started' = started /\ mutex' = t
    BY <1>8 DEF Lock
  <2>2. ThreadTypes'
    BY <1>4, <1>8 DEF Lock
  <2>3. QED
    BY <1>3, <1>6, <1>8, <2>1, <2>2, SamplingSame, HandshakeSame, ChannelSame,
       HistorySame DEF Lock, SharedTypes
<1>9. CASE notifyStart(t)
  <2>1. Msg("START", 0, 0, phaseId, totalThreads) \in Message
    BY <1>3, MsgType DEF SharedTypes, MessageType
  <2>2. ChannelTypeOK(Message)'
    BY <1>3, <1>9, <2>1, SendTypes DEF notifyStart, Sides
  <2>3. ThreadTypes'
    BY <1>4, <1>9 DEF notifyStart
  <2>4. QED
    BY <1>3, <1>5, <1>6, <1>9, <2>2, <2>3, SamplingSame, HandshakeSame,
       HistorySame DEF notifyStart
<1>10. CASE SetStarted(t)
  <2>1. started' \in BOOLEAN /\ mutex' = mutex
    BY <1>10, Zenon DEF SetStarted
  <2>2. ThreadTypes'
    BY <1>4, <1>10 DEF SetStarted
  <2>3. QED
    BY <1>3, <1>6, <1>10, <2>1, <2>2, SamplingSame, HandshakeSame, ChannelSame,
       HistorySame DEF SetStarted, SharedTypes
<1>11. CASE Unlock(t)
  <2>1. started' = started /\ mutex' = Free
    BY <1>11 DEF Unlock
  <2>2. ThreadTypes'
    BY <1>4, <1>11 DEF Unlock
  <2>3. QED
    BY <1>3, <1>6, <1>11, <2>1, <2>2, SamplingSame, HandshakeSame, ChannelSame,
       HistorySame DEF Unlock, SharedTypes
<1>12. ASSUME NEW length \in Nat \ {0}, FinishBegin(t, length),
              numTasks' = numTasks, HandshakeTypes'
       PROVE  TypeOK'
  <2>1. SamplingTypes' /\ ThreadTypes'
    BY <1>3, <1>12, FinishTypes DEF SamplingTypes
  <2>2. QED
    BY <1>3, <1>5, <1>6, <1>12, <2>1, ChannelSame, HistorySame DEF FinishBegin
<1>13. CASE StartTimer(t)
  <2>1. samplingLength[t] \in Nat \ {0}
    BY <1>3 DEF SamplingTypes
  <2>2. QED
    BY <1>3, <1>12, <1>13, <2>1, HandshakeSame DEF StartTimer
<1>14. CASE Update(t)
  BY <1>3, <1>12, <1>14, RiffAssumption, HandshakeSame DEF Update
<1>15. CASE FindRequest(t)
  <2>1. ThreadTypes'
    BY <1>4, <1>15 DEF FindRequest
  <2>2. QED
    BY <1>3, <1>5, <1>6, <1>15, <2>1, SamplingSame, HandshakeSame, ChannelSame,
       HistorySame DEF FindRequest
<1>16. CASE StoreSample(t)
  <2>1. SamplingTypes' /\ HandshakeTypes'
    BY <1>3, <1>16 DEF StoreSample, SamplingTypes, HandshakeTypes
  <2>2. ThreadTypes'
    BY <1>4, <1>16 DEF StoreSample
  <2>3. QED
    BY <1>3, <1>5, <1>6, <1>16, <2>1, <2>2, ChannelSame, HistorySame
    DEF StoreSample
<1>17. CASE LowerFlag(t)
  <2>1. consolidate' \in [Threads -> BOOLEAN]
    BY <1>3, <1>17, Zenon DEF LowerFlag, HandshakeTypes
  <2>2. HandshakeTypes'
    BY <1>3, <1>17, <2>1 DEF LowerFlag, HandshakeTypes
  <2>3. QED
    BY <1>12, <1>17, <2>2, RiffAssumption DEF LowerFlag
<1>18. CASE End(t)
  <2>1. SamplingTypes' /\ HistoryTypes'
    BY <1>3, <1>18 DEF End, SamplingTypes, HistoryTypes
  <2>2. ThreadTypes'
    BY <1>4, <1>18 DEF End
  <2>3. QED
    BY <1>3, <1>5, <1>6, <1>18, <2>1, <2>2, HandshakeSame, ChannelSame DEF End
<1>19. CASE Finish(t)
  <2>1. ThreadTypes'
    BY <1>4, <1>19 DEF Finish
  <2>2. QED
    BY <1>3, <1>5, <1>6, <1>19, <2>1, SamplingSame, HandshakeSame, ChannelSame,
       HistorySame DEF Finish
<1>20. QED
  BY <1>7, <1>8, <1>9, <1>10, <1>11, <1>13, <1>14, <1>15, <1>16, <1>17, <1>18,
     <1>19 DEF ApplicationThread

-----------------------------------------------------------------------------
(* Steps of the support thread. *)

\* Its loop index stays within the vector of threads.
LEMMA AdvanceTypes ==
  ASSUME SupportTypes, NEW within, NEW after,
         {within, after} \subseteq {"raise", "wait", "aggregate"}
  PROVE  /\ Advance(within, after) \in
              [pc : {"raise", "wait", "aggregate"}, i : Threads, updated : Nat,
               tasks : Nat, phaseId : Nat, totalThreads : Nat]
         /\ Advance(within, after).updated = support.updated
         /\ Advance(within, after).tasks = support.tasks
<1>1. CASE support.i + 1 < NumThreads
  <2>1. Advance(within, after) = [support EXCEPT !.i = @ + 1, !.pc = within]
    BY <1>1 DEF Advance
  <2>2. support.i + 1 \in Threads
    BY <1>1, RiffAssumption DEF SupportTypes, Threads
  <2>3. QED
    BY <2>1, <2>2 DEF SupportTypes
<1>2. CASE ~(support.i + 1 < NumThreads)
  <2>1. Advance(within, after) = [support EXCEPT !.i = 0, !.pc = after]
    BY <1>2 DEF Advance
  <2>2. 0 \in Threads
    BY RiffAssumption DEF Threads
  <2>3. QED
    BY <2>1, <2>2 DEF SupportTypes
<1>3. QED
  BY <1>1, <1>2

LEMMA SupportAtTypes ==
  ASSUME NEW label \in {"check", "recv", "raise", "exited"},
         support' = SupportAt(label)
  PROVE  SupportTypes'
<1>1. 0 \in Threads
  BY RiffAssumption DEF Threads
<1>2. QED
  BY <1>1 DEF SupportAt, SupportTypes

LEMMA SupportStepTypes ==
  ASSUME TypeOK, Support
  PROVE  TypeOK'
<1>1. OtherThanSupport
  BY DEF Support, SupportCheck, SupportReceive, RaiseFlag, EndWait, Collect,
     Aggregate, ReadPhaseId, ReadTotalThreads, Decide, SendResponse
<1>2. SamplingTypes /\ HandshakeTypes /\ SharedTypes /\ ThreadTypes
      /\ SupportTypes /\ MainTypes /\ MonitorTypes
      /\ ChannelTypeOK(Message) /\ HistoryTypes
  BY DEF TypeOK
<1>3. /\ SamplingTypes' /\ SharedTypes' /\ ThreadTypes'
      /\ MainTypes' /\ MonitorTypes'
  <2>1. SamplingTypes'
    BY <1>1, <1>2, SamplingSame DEF OtherThanSupport
  <2>2. SharedTypes'
    BY <1>1, <1>2 DEF OtherThanSupport, SharedTypes, startVars, phaseVars
  <2>3. ThreadTypes' /\ MainTypes' /\ MonitorTypes'
    BY <1>1, <1>2 DEF OtherThanSupport, ThreadTypes, MainTypes, MonitorTypes
  <2>4. QED
    BY <2>1, <2>2, <2>3
<1>4. dropped' \in Nat => HistoryTypes'
  BY <1>1, <1>2 DEF OtherThanSupport, HistoryTypes
<1>5. UNCHANGED dropped => HistoryTypes'
  BY <1>2, <1>4 DEF HistoryTypes
<1>6. ASSUME SupportTypes', HandshakeTypes', ChannelTypeOK(Message)', HistoryTypes'
      PROVE  TypeOK'
  BY <1>3, <1>6 DEF TypeOK
<1>7. CASE SupportCheck
  <2>1. SupportTypes'
    BY <1>7, SupportAtTypes DEF SupportCheck
  <2>2. QED
    BY <1>2, <1>5, <1>6, <1>7, <2>1, HandshakeSame, ChannelSame DEF SupportCheck
<1>8. CASE SupportReceive
  <2>1. SupportTypes'
    BY <1>8, SupportAtTypes DEF SupportReceive
  <2>2. ChannelTypeOK(Message)'
    BY <1>2, <1>8, ReceiveTypes DEF SupportReceive, Sides
  <2>3. QED
    BY <1>2, <1>5, <1>6, <1>8, <2>1, <2>2, HandshakeSame DEF SupportReceive
<1>9. CASE RaiseFlag
  <2>1. SupportTypes'
    BY <1>2, <1>9, AdvanceTypes DEF RaiseFlag, SupportTypes
  <2>2. consolidate' \in [Threads -> BOOLEAN]
    BY <1>2, <1>9, Zenon DEF RaiseFlag, HandshakeTypes
  <2>3. HandshakeTypes'
    BY <1>2, <1>9, <2>2 DEF RaiseFlag, HandshakeTypes
  <2>4. QED
    BY <1>2, <1>5, <1>6, <1>9, <2>1, <2>3, ChannelSame DEF RaiseFlag
<1>10. CASE EndWait
  <2>1. SupportTypes'
    BY <1>2, <1>10 DEF EndWait, SupportTypes
  <2>2. QED
    BY <1>2, <1>5, <1>6, <1>10, <2>1, HandshakeSame, ChannelSame DEF EndWait
<1>11. CASE Collect
  <2> DEFINE next == Advance("wait", "aggregate")
  <2>1. next \in [pc : {"raise", "wait", "aggregate"}, i : Threads, updated : Nat,
                  tasks : Nat, phaseId : Nat, totalThreads : Nat]
    BY <1>2, AdvanceTypes
  <2> HIDE DEF next
  <2>2. consolidatedSample[support.i] \in Nat
    BY <1>2 DEF HandshakeTypes, SupportTypes
  <2> DEFINE u == next.updated + 1
  <2> DEFINE k == next.tasks + consolidatedSample[support.i]
  <2>3. /\ u \in Nat /\ k \in Nat
        /\ support' = next \/ support' = [next EXCEPT !.updated = u, !.tasks = k]
    BY <1>11, <2>1, <2>2 DEF Collect, next
  <2> HIDE DEF u, k
  <2>4. SupportTypes'
    BY <2>1, <2>3 DEF SupportTypes
  <2>5. HandshakeTypes'
    BY <1>2, <1>11 DEF Collect, HandshakeTypes
  <2>6. QED
    BY <1>2, <1>5, <1>6, <1>11, <2>4, <2>5, ChannelSame DEF Collect
<1>12. CASE Aggregate
  <2>1. SupportTypes'
    BY <1>2, <1>12 DEF Aggregate, SupportTypes
  <2>2. QED
    BY <1>2, <1>5, <1>6, <1>12, <2>1, HandshakeSame, ChannelSame DEF Aggregate
<1>13. CASE ReadPhaseId
  <2>1. SupportTypes'
    BY <1>2, <1>13 DEF ReadPhaseId, SupportTypes, SharedTypes
  <2>2. QED
    BY <1>2, <1>5, <1>6, <1>13, <2>1, HandshakeSame, ChannelSame DEF ReadPhaseId
<1>14. CASE ReadTotalThreads
  <2>1. SupportTypes'
    BY <1>2, <1>14 DEF ReadTotalThreads, SupportTypes, SharedTypes
  <2>2. QED
    BY <1>2, <1>5, <1>6, <1>14, <2>1, HandshakeSame, ChannelSame
    DEF ReadTotalThreads
<1>15. CASE Decide
  <2>1. SupportTypes'
    <3>1. CASE AnswerWanted
      BY <1>2, <1>15, <3>1 DEF Decide, SupportTypes
    <3>2. CASE ~AnswerWanted
      BY <1>15, <3>2, SupportAtTypes DEF Decide
    <3>3. QED
      BY <3>1, <3>2
  <2>2. HistoryTypes'
    BY <1>2, <1>4, <1>5, <1>15 DEF Decide, HistoryTypes, SupportTypes
  <2>3. QED
    BY <1>2, <1>6, <1>15, <2>1, <2>2, HandshakeSame, ChannelSame DEF Decide
<1>16. CASE SendResponse
  <2>1. Msg("RES", support.tasks, support.updated, support.phaseId,
            support.totalThreads) \in Message
    BY <1>2, MsgType DEF SupportTypes, MessageType
  <2>2. ChannelTypeOK(Message)'
    BY <1>2, <1>16, <2>1, SendTypes DEF SendResponse, Sides
  <2>3. SupportTypes'
    BY <1>16, SupportAtTypes DEF SendResponse
  <2>4. QED
    BY <1>2, <1>5, <1>6, <1>16, <2>2, <2>3, HandshakeSame DEF SendResponse
<1>17. QED
  BY <1>7, <1>8, <1>9, <1>10, <1>11, <1>12, <1>13, <1>14, <1>15, <1>16
  DEF Support

-----------------------------------------------------------------------------
(* Steps of the owner of the Application, of the monitor, of the channel. *)

LEMMA MainStepTypes ==
  ASSUME TypeOK, Main
  PROVE  TypeOK'
<1>1. OtherThanMain
  BY DEF Main, terminate, SetPhaseId, setTotalThreads, CallTerminate, SumTasks,
     SetStop, JoinSupport, SendStop, ReceiveAck, DestroyApplication
<1>2. SamplingTypes /\ HandshakeTypes /\ SharedTypes /\ ThreadTypes
      /\ SupportTypes /\ MainTypes /\ MonitorTypes
      /\ ChannelTypeOK(Message) /\ HistoryTypes
  BY DEF TypeOK
<1>3. /\ HandshakeTypes' /\ ThreadTypes' /\ SupportTypes' /\ MonitorTypes'
      /\ HistoryTypes'
  <2>1. HandshakeTypes' /\ HistoryTypes'
    BY <1>1, <1>2, HandshakeSame, HistorySame DEF OtherThanMain
  <2>2. ThreadTypes' /\ SupportTypes' /\ MonitorTypes'
    BY <1>1, <1>2 DEF OtherThanMain, ThreadTypes, SupportTypes, MonitorTypes
  <2>3. QED
    BY <2>1, <2>2
<1>4. totalTasks' \in [Threads -> Nat] => SamplingTypes'
  BY <1>1, <1>2 DEF OtherThanMain, SamplingTypes
<1>5. started' = started /\ mutex' = mutex
  BY <1>1 DEF OtherThanMain, startVars
<1>6. UNCHANGED <<supportStop, phaseVars>> => SharedTypes'
  BY <1>2, <1>5 DEF SharedTypes, phaseVars
<1>7. UNCHANGED totalTasks => SamplingTypes'
  BY <1>2, <1>4 DEF SamplingTypes
<1>8. ASSUME SamplingTypes', SharedTypes', MainTypes', ChannelTypeOK(Message)'
      PROVE  TypeOK'
  BY <1>3, <1>8 DEF TypeOK
<1>9. CASE SetPhaseId
  <2>1. MainTypes' /\ SharedTypes'
    BY <1>2, <1>5, <1>9 DEF SetPhaseId, MainTypes, SharedTypes
  <2>2. QED
    BY <1>2, <1>7, <1>8, <1>9, <2>1, ChannelSame DEF SetPhaseId
<1>10. CASE setTotalThreads
  <2>1. MainTypes' /\ SharedTypes'
    BY <1>2, <1>5, <1>10 DEF setTotalThreads, MainTypes, SharedTypes
  <2>2. QED
    BY <1>2, <1>7, <1>8, <1>10, <2>1, ChannelSame DEF setTotalThreads
<1>11. CASE CallTerminate
  <2>1. MainTypes'
    BY <1>2, <1>11 DEF CallTerminate, MainTypes
  <2>2. QED
    BY <1>2, <1>6, <1>7, <1>8, <1>11, <2>1, ChannelSame DEF CallTerminate
<1>12. CASE SumTasks
  <2>1. main.i \in Threads /\ FinalTasks(main.i) \in Nat
    BY <1>2 DEF FinalTasks, MainTypes, SamplingTypes
  <2>2. totalTasks' \in [Threads -> Nat]
    BY <1>2, <1>12, <2>1 DEF SumTasks, SamplingTypes
  <2>3. MainTypes'
    <3> DEFINE next == IF main.i + 1 < NumThreads THEN main.i + 1 ELSE main.i
    <3> DEFINE label == IF main.i + 1 < NumThreads THEN main.pc ELSE "setStop"
    <3>1. next \in Threads
      BY <1>2, RiffAssumption DEF MainTypes, Threads
    <3> DEFINE sum == main.total + FinalTasks(main.i)
    <3>2. main' = [main EXCEPT !.total = sum, !.i = next, !.pc = label]
      BY <1>12 DEF SumTasks
    <3>3. label \in {main.pc, "setStop"} /\ sum \in Nat
      BY <1>2, <2>1 DEF MainTypes
    <3> HIDE DEF next, label, sum
    <3>4. QED
      BY <1>2, <2>1, <3>1, <3>2, <3>3 DEF MainTypes
  <2>4. QED
    BY <1>2, <1>4, <1>6, <1>8, <1>12, <2>2, <2>3, ChannelSame DEF SumTasks
<1>13. CASE SetStop
  <2>1. supportStop' \in BOOLEAN
    BY <1>13, Zenon DEF SetStop
  <2>2. SharedTypes'
    BY <1>2, <1>5, <1>13, <2>1 DEF SetStop, SharedTypes, phaseVars
  <2>3. MainTypes'
    BY <1>2, <1>13 DEF SetStop, MainTypes
  <2>4. QED
    BY <1>2, <1>7, <1>8, <1>13, <2>2, <2>3, ChannelSame DEF SetStop
<1>14. CASE JoinSupport
  <2>1. MainTypes'
    BY <1>2, <1>14 DEF JoinSupport, MainTypes
  <2>2. QED
    BY <1>2, <1>6, <1>7, <1>8, <1>14, <2>1, ChannelSame DEF JoinSupport
<1>15. CASE SendStop
  <2>1. Msg("STOP", main.total, 0, 0, 0) \in Message
    BY <1>2, MsgType DEF MainTypes, MessageType
  <2>2. ChannelTypeOK(Message)'
    BY <1>2, <1>15, <2>1, SendTypes DEF SendStop, Sides
  <2>3. MainTypes'
    BY <1>2, <1>15 DEF SendStop, MainTypes
  <2>4. QED
    BY <1>6, <1>7, <1>8, <1>15, <2>2, <2>3 DEF SendStop
<1>16. CASE ReceiveAck
  <2>1. ChannelTypeOK(Message)'
    BY <1>2, <1>16, ReceiveTypes DEF ReceiveAck, Sides
  <2>2. MainTypes'
    BY <1>2, <1>16 DEF ReceiveAck, MainTypes
  <2>3. QED
    BY <1>6, <1>7, <1>8, <1>16, <2>1, <2>2 DEF ReceiveAck
<1>17. CASE DestroyApplication
  <2>1. ChannelTypeOK(Message)'
    BY <1>2, <1>17, CloseTypes DEF DestroyApplication, Sides
  <2>2. MainTypes'
    BY <1>2, <1>17 DEF DestroyApplication, MainTypes
  <2>3. QED
    BY <1>6, <1>7, <1>8, <1>17, <2>1, <2>2 DEF DestroyApplication
<1>18. QED
  BY <1>9, <1>10, <1>11, <1>12, <1>13, <1>14, <1>15, <1>16, <1>17
  DEF Main, terminate

LEMMA MonitorStepTypes ==
  ASSUME TypeOK, Monitor
  PROVE  TypeOK'
<1>1. OtherThanMonitor
  BY DEF Monitor, waitStart, RequestSample, ReceiveResponse, SendAck,
     DestroyMonitor
<1>2. SamplingTypes /\ HandshakeTypes /\ SharedTypes /\ ThreadTypes
      /\ SupportTypes /\ MainTypes /\ MonitorTypes
      /\ ChannelTypeOK(Message) /\ HistoryTypes
  BY DEF TypeOK
<1>3. /\ SamplingTypes' /\ HandshakeTypes' /\ SharedTypes' /\ ThreadTypes'
      /\ SupportTypes' /\ MainTypes'
  <2>1. SamplingTypes' /\ HandshakeTypes'
    BY <1>1, <1>2, SamplingSame, HandshakeSame DEF OtherThanMonitor
  <2>2. SharedTypes'
    BY <1>1, <1>2 DEF OtherThanMonitor, SharedTypes, startVars, phaseVars
  <2>3. ThreadTypes' /\ SupportTypes' /\ MainTypes'
    BY <1>1, <1>2 DEF OtherThanMonitor, ThreadTypes, SupportTypes, MainTypes
  <2>4. QED
    BY <2>1, <2>2, <2>3
<1>4. delivered' \in Nat => HistoryTypes'
  BY <1>1, <1>2 DEF OtherThanMonitor, HistoryTypes
<1>5. UNCHANGED delivered => HistoryTypes'
  BY <1>2, <1>4 DEF HistoryTypes
<1>6. ASSUME MonitorTypes', ChannelTypeOK(Message)', HistoryTypes'
      PROVE  TypeOK'
  BY <1>3, <1>6 DEF TypeOK
<1>7. Plain("REQ") \in Message /\ Plain("STOPACK") \in Message
  BY MsgType DEF Plain, MessageType
<1>8. CASE waitStart
  <2>1. ChannelTypeOK(Message)' /\ MonitorTypes'
    BY <1>2, <1>8, ReceiveTypes DEF waitStart, Sides, MonitorTypes
  <2>2. QED
    BY <1>5, <1>6, <1>8, <2>1 DEF waitStart
<1>9. CASE RequestSample
  <2>1. ChannelTypeOK(Message)'
    BY <1>2, <1>7, <1>9, SendTypes DEF RequestSample, Sides
  <2>2. MonitorTypes'
    BY <1>2, <1>9 DEF RequestSample, MonitorTypes
  <2>3. QED
    BY <1>5, <1>6, <1>9, <2>1, <2>2 DEF RequestSample
<1>10. CASE ReceiveResponse
  <2> DEFINE m == Head(inbox["mon"])
  <2>1. ChannelTypeOK(Message)' /\ m \in Message
    BY <1>2, <1>10, ReceiveTypes DEF ReceiveResponse, Sides
  <2> HIDE DEF m
  <2>2. \/ mon' = [mon EXCEPT !.pc = "ready", !.phaseId = m.phaseId,
                              !.totalThreads = m.totalThreads]
        \/ mon' = [mon EXCEPT !.pc = "ack", !.total = m.tasks]
        \/ mon' = [mon EXCEPT !.pc = "failed"]
    BY <1>10 DEF ReceiveResponse, m
  <2>3. MonitorTypes'
    BY <1>2, <2>1, <2>2 DEF MonitorTypes, Message
  <2>4. delivered' = delivered \/ delivered' = delivered + m.tasks
    BY <1>10 DEF ReceiveResponse, m
  <2>5. HistoryTypes'
    BY <1>2, <1>4, <2>1, <2>4 DEF HistoryTypes, Message
  <2>6. QED
    BY <1>6, <2>1, <2>3, <2>5
<1>11. CASE SendAck
  <2>1. ChannelTypeOK(Message)'
    BY <1>2, <1>7, <1>11, SendTypes DEF SendAck, Sides
  <2>2. MonitorTypes'
    BY <1>2, <1>11 DEF SendAck, MonitorTypes
  <2>3. QED
    BY <1>5, <1>6, <1>11, <2>1, <2>2 DEF SendAck
<1>12. CASE DestroyMonitor
  <2>1. ChannelTypeOK(Message)'
    BY <1>2, <1>12, CloseTypes DEF DestroyMonitor, Sides
  <2>2. MonitorTypes'
    BY <1>2, <1>12 DEF DestroyMonitor, MonitorTypes
  <2>3. QED
    BY <1>5, <1>6, <1>12, <2>1, <2>2 DEF DestroyMonitor
<1>13. QED
  BY <1>8, <1>9, <1>10, <1>11, <1>12 DEF Monitor

\* The types hold in every reachable state, for any number of threads: in
\* particular no loop over the threads indexes outside their vector.
THEOREM TypeCorrect == Spec => []TypeOK
<1>1. Init => TypeOK
  BY TypeInit
<1>2. TypeOK /\ [Next]_vars => TypeOK'
  <2> SUFFICES ASSUME TypeOK, [Next]_vars
               PROVE  TypeOK'
    OBVIOUS
  <2>1. CASE Channel
    <3>1. ChannelTypeOK(Message)'
      BY <2>1, ChannelStepTypes DEF Channel, TypeOK
    <3>2. SamplingTypes' /\ HandshakeTypes' /\ HistoryTypes'
      BY <2>1, SamplingSame, HandshakeSame, HistorySame DEF Channel, TypeOK
    <3>3. SharedTypes'
      BY <2>1 DEF Channel, TypeOK, SharedTypes, startVars, phaseVars
    <3>4. ThreadTypes' /\ SupportTypes' /\ MainTypes' /\ MonitorTypes'
      BY <2>1 DEF Channel, TypeOK, ThreadTypes, SupportTypes, MainTypes,
         MonitorTypes
    <3>5. QED
      BY <3>1, <3>2, <3>3, <3>4 DEF TypeOK
  <2>2. CASE UNCHANGED vars
    <3>1. /\ UNCHANGED <<samplingVars, handshakeVars, channelVars, ghostVars>>
          /\ UNCHANGED <<startVars, phaseVars, supportStop, pc, support, main, mon>>
      BY <2>2 DEF vars
    <3>2. SamplingTypes' /\ HandshakeTypes' /\ HistoryTypes'
          /\ ChannelTypeOK(Message)'
      BY <3>1, SamplingSame, HandshakeSame, HistorySame, ChannelSame DEF TypeOK
    <3>3. SharedTypes'
      BY <3>1 DEF TypeOK, SharedTypes, startVars, phaseVars
    <3>4. ThreadTypes' /\ SupportTypes' /\ MainTypes' /\ MonitorTypes'
      BY <3>1 DEF TypeOK, ThreadTypes, SupportTypes, MainTypes, MonitorTypes
    <3>5. QED
      BY <3>2, <3>3, <3>4 DEF TypeOK
  <2>3. QED
    BY <2>1, <2>2, ThreadStepTypes, SupportStepTypes, MainStepTypes,
       MonitorStepTypes DEF Next
<1>3. QED
  BY <1>1, <1>2, PTL DEF Spec
=============================================================================
