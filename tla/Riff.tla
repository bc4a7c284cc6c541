-------------------------------- MODULE Riff --------------------------------
(***************************************************************************)
(* A riff session: an Application with NumThreads instrumented threads,    *)
(* its support thread and its main thread (setPhaseId(), terminate() and   *)
(* the destructor), and the Monitor that polls it, over a PairChannel.     *)
(*                                                                         *)
(* begin() is cut at its accesses to data that other threads use (_started,*)
(* _mutex, the socket, consolidate, consolidatedSample); the support       *)
(* thread, terminate() and getSample() likewise.  Time is abstracted: the  *)
(* length that adaptive sampling computes is any member of Lengths (module *)
(* Sampling has the computation), and a sample is its number of tasks.     *)
(***************************************************************************)
EXTENDS PairChannel, Integers, Sums

CONSTANTS
  NumThreads,   \* numThreads of the constructor
  Lengths,      \* the sampling lengths updateSamplingLength() may return
  MinTasks,     \* some thread executes at least so many iterations
  MaxTasks,     \* bound: iterations of a thread
  MaxPhase,     \* bound: number of setPhaseId() calls
  Destroy       \* the Application is destroyed after terminate()

ASSUME RiffAssumption ==
  /\ NumThreads \in Nat \ {0}
  /\ Lengths \subseteq Nat \ {0}
  /\ MinTasks \in Nat /\ MaxTasks \in Nat /\ MaxPhase \in Nat
  /\ Destroy \in BOOLEAN

Threads == 0 .. NumThreads - 1

VARIABLES
  \* The fields of ThreadData, one value per thread.
  currentSample, samplingLength,
  begun,               \* computeStart # 0
  numTasks,            \* sample.numTasks
  consolidatedSample,  \* consolidatedSample.numTasks
  consolidate,
  totalTasks,
  \* The fields of Application that several threads use.
  started, mutex, supportStop, phaseId, totalThreads,
  \* Where the threads of the two processes are, and their local variables.
  pc,       \* pc[t] of application thread t
  support,  \* [pc, i, updated, tasks, phaseId, totalThreads]: the support thread
  main,     \* [pc, i, total]: the thread that owns the Application
  mon,      \* [pc, phaseId, totalThreads, total]: the Monitor
  \* History, which no action reads.
  done,       \* done[t]: tasks that t has ended
  delivered,  \* numTasks of all the samples the monitor has received
  dropped     \* numTasks collected for an answer that was never sent

samplingVars == <<currentSample, samplingLength, begun, numTasks, totalTasks>>
handshakeVars == <<consolidatedSample, consolidate>>
startVars == <<started, mutex>>
phaseVars == <<phaseId, totalThreads>>
ghostVars == <<done, delivered, dropped>>

vars == <<samplingVars, handshakeVars, startVars, phaseVars, supportStop,
          channelVars, pc, support, main, mon, ghostVars>>

Free == -1

MessageType == {"START", "REQ", "RES", "STOP", "STOPACK"}

\* threads is the number of samples the answer was made from; the code sends
\* their sum and average only.
Msg(type, tasks, threads, phase, total) ==
  [type |-> type, tasks |-> tasks, threads |-> threads,
   phaseId |-> phase, totalThreads |-> total]

Plain(type) == Msg(type, 0, 0, 0, 0)

Message == [type : MessageType, tasks : Nat, threads : Nat,
            phaseId : Nat, totalThreads : Nat]

\* The support thread with its loop variables reset.
SupportAt(label) ==
  [pc |-> label, i |-> 0, updated |-> 0, tasks |-> 0,
   phaseId |-> 0, totalThreads |-> 0]

Init ==
  /\ currentSample = [t \in Threads |-> 0]
  /\ samplingLength = [t \in Threads |-> 1]
  /\ begun = [t \in Threads |-> FALSE]
  /\ numTasks = [t \in Threads |-> 0]
  /\ consolidatedSample = [t \in Threads |-> 0]
  /\ consolidate = [t \in Threads |-> FALSE]
  /\ totalTasks = [t \in Threads |-> 0]
  /\ started = FALSE /\ mutex = Free /\ supportStop = FALSE
  /\ phaseId = 0 /\ totalThreads = 0
  /\ pc = [t \in Threads |-> "idle"]
  /\ support = SupportAt("check")
  /\ main = [pc |-> "run", i |-> 0, total |-> 0]
  /\ mon = [pc |-> "waitStart", phaseId |-> 0, totalThreads |-> 0, total |-> 0]
  /\ ChannelInit
  /\ done = [t \in Threads |-> 0] /\ delivered = 0 /\ dropped = 0

-----------------------------------------------------------------------------
(* Application threads: begin() *)

Goto(t, label) == pc' = [pc EXCEPT ![t] = label]

NextSample(t) ==
  IF currentSample[t] + 1 >= samplingLength[t] THEN 0 ELSE currentSample[t] + 1

\* Steps of thread t leave the other processes' state alone.
OtherProcesses == UNCHANGED <<phaseVars, supportStop, support, main, mon>>

\* Mutant: the first test of _started is inverted.
FirstCheck_Inverted == ~started

FirstCheck == started

\* begin() up to the unprotected test of _started.
Begin(t) ==
  /\ pc[t] = "idle" /\ done[t] < MaxTasks
  /\ currentSample' = [currentSample EXCEPT ![t] = NextSample(t)]
  /\ Goto(t, IF NextSample(t) > 1 THEN "task"
             ELSE IF FirstCheck THEN "update" ELSE "lock")
  /\ UNCHANGED <<samplingLength, begun, numTasks, totalTasks, handshakeVars,
                 startVars, channelVars, ghostVars>>
  /\ OtherProcesses

\* Mutant: _started is not tested again under the mutex.
SecondCheck_Skipped == FALSE

SecondCheck == started

\* The mutex is acquired and _started, which is written under it, tested again.
Lock(t) ==
  /\ pc[t] = "lock" /\ mutex = Free
  /\ mutex' = t
  /\ Goto(t, IF SecondCheck THEN "unlock" ELSE "notify")
  /\ UNCHANGED <<started, samplingVars, handshakeVars, channelVars, ghostVars>>
  /\ OtherProcesses

notifyStart(t) ==
  /\ pc[t] = "notify"
  /\ Send("app", Msg("START", 0, 0, phaseId, totalThreads))
  /\ Goto(t, "started")
  /\ UNCHANGED <<samplingVars, handshakeVars, startVars, ghostVars>>
  /\ OtherProcesses

SetStarted(t) ==
  /\ pc[t] = "started"
  /\ started' = TRUE
  /\ Goto(t, "unlock")
  /\ UNCHANGED <<mutex, samplingVars, handshakeVars, channelVars, ghostVars>>
  /\ OtherProcesses

Unlock(t) ==
  /\ pc[t] = "unlock"
  /\ mutex' = Free
  /\ Goto(t, "update")
  /\ UNCHANGED <<started, samplingVars, handshakeVars, channelVars, ghostVars>>
  /\ OtherProcesses

ClosesInterval(t) ==
  begun[t] /\ (currentSample[t] = 1 \/ samplingLength[t] = 1)

\* The assignments at the end of begin(): the new length, the counter
\* realigned with it, computeStart.
FinishBegin(t, length) ==
  /\ samplingLength' = [samplingLength EXCEPT ![t] = length]
  /\ currentSample' =
       [currentSample EXCEPT ![t] =
          IF samplingLength[t] = 1 /\ length > 1 THEN 1
          ELSE IF samplingLength[t] > 1 /\ length = 1 THEN 0
          ELSE @]
  /\ begun' = [begun EXCEPT ![t] = TRUE]
  /\ Goto(t, "task")
  /\ UNCHANGED <<totalTasks, startVars, channelVars, ghostVars>>
  /\ OtherProcesses

\* begin() with nothing to close: it starts the latency timer.
StartTimer(t) ==
  /\ pc[t] = "update" /\ ~ClosesInterval(t)
  /\ FinishBegin(t, samplingLength[t])
  /\ UNCHANGED <<numTasks, handshakeVars>>

\* begin() closes an interval and finds no request for a sample.
Update(t) ==
  /\ pc[t] = "update" /\ ClosesInterval(t) /\ ~consolidate[t]
  /\ \E length \in Lengths : FinishBegin(t, length)
  /\ UNCHANGED <<numTasks, handshakeVars>>

\* Mutant: the flag is lowered before the sample has been stored.
FindRequest_LowersFirst(t) ==
  /\ pc[t] = "update" /\ ClosesInterval(t) /\ consolidate[t]
  /\ consolidate' = [consolidate EXCEPT ![t] = FALSE]
  /\ Goto(t, "store")
  /\ UNCHANGED <<samplingVars, consolidatedSample, startVars, channelVars,
                 ghostVars>>
  /\ OtherProcesses

\* begin() closes an interval and finds the flag raised.
FindRequest(t) ==
  /\ pc[t] = "update" /\ ClosesInterval(t) /\ consolidate[t]
  /\ Goto(t, "store")
  /\ UNCHANGED <<samplingVars, handshakeVars, startVars, channelVars, ghostVars>>
  /\ OtherProcesses

\* Mutant: the running sample is not reset after it was consolidated.
TasksAfterStore_Kept(t) == numTasks[t]

\* sample = ApplicationSample()
TasksAfterStore(t) == 0

StoreSample(t) ==
  /\ pc[t] = "store"
  /\ consolidatedSample' = [consolidatedSample EXCEPT ![t] = numTasks[t]]
  /\ numTasks' = [numTasks EXCEPT ![t] = TasksAfterStore(t)]
  /\ Goto(t, "lower")
  /\ UNCHANGED <<currentSample, samplingLength, begun, totalTasks, consolidate,
                 startVars, channelVars, ghostVars>>
  /\ OtherProcesses

LowerFlag(t) ==
  /\ pc[t] = "lower"
  /\ consolidate' = [consolidate EXCEPT ![t] = FALSE]
  /\ \E length \in Lengths : FinishBegin(t, length)
  /\ UNCHANGED <<numTasks, consolidatedSample>>

(* end(), and the end of the parallel part *)

End(t) ==
  /\ pc[t] = "task"
  /\ done' = [done EXCEPT ![t] = @ + 1]
  /\ LET counted == IF currentSample[t] = 0 THEN samplingLength[t] ELSE 0
     IN  /\ numTasks' = [numTasks EXCEPT ![t] = @ + counted]
         /\ totalTasks' = [totalTasks EXCEPT ![t] = @ + counted]
  /\ Goto(t, "idle")
  /\ UNCHANGED <<currentSample, samplingLength, begun, handshakeVars, startVars,
                 channelVars, delivered, dropped>>
  /\ OtherProcesses

Finish(t) ==
  /\ pc[t] = "idle"
  /\ \E u \in Threads : done[u] >= MinTasks
  /\ Goto(t, "finished")
  /\ UNCHANGED <<samplingVars, handshakeVars, startVars, channelVars, ghostVars>>
  /\ OtherProcesses

ApplicationThread(t) ==
  \/ Begin(t) \/ Lock(t) \/ notifyStart(t) \/ SetStarted(t) \/ Unlock(t)
  \/ StartTimer(t) \/ Update(t) \/ FindRequest(t) \/ StoreSample(t)
  \/ LowerFlag(t) \/ End(t) \/ Finish(t)

-----------------------------------------------------------------------------
(* The support thread: applicationSupportThread() *)

\* Steps of the support thread leave the other processes' state alone.
OtherThanSupport ==
  UNCHANGED <<samplingVars, startVars, phaseVars, supportStop, pc, main, mon,
              done, delivered>>

\* while(!_supportStop)
SupportCheck ==
  /\ support.pc = "check"
  /\ support' = SupportAt(IF supportStop THEN "exited" ELSE "recv")
  /\ UNCHANGED <<handshakeVars, channelVars, dropped>>
  /\ OtherThanSupport

\* The type of the message is only looked at by an assertion, which the
\* release build leaves out.
SupportReceive ==
  /\ support.pc = "recv"
  /\ Receive("app")
  /\ support' = SupportAt("raise")
  /\ UNCHANGED <<handshakeVars, dropped>>
  /\ OtherThanSupport

\* Mutant: the loop runs once too often.
Advance_OffByOne(within, after) ==
  IF support.i + 1 <= NumThreads
  THEN [support EXCEPT !.i = @ + 1, !.pc = within]
  ELSE [support EXCEPT !.i = 0, !.pc = after]

\* Moves on to the next thread, or to the label after the loop.
Advance(within, after) ==
  IF support.i + 1 < NumThreads
  THEN [support EXCEPT !.i = @ + 1, !.pc = within]
  ELSE [support EXCEPT !.i = 0, !.pc = after]

RaiseFlag ==
  /\ support.pc = "raise"
  /\ consolidate' = [consolidate EXCEPT ![support.i] = TRUE]
  /\ support' = Advance("raise", "wait")
  /\ UNCHANGED <<consolidatedSample, channelVars, dropped>>
  /\ OtherThanSupport

\* Mutant: the support thread does not wait for the threads.
keepWaitingSample_Never(t) == FALSE

\* Mutant: the waiting loop does not look at _supportStop.
keepWaitingSample_NoStop(t) == consolidate[t]

keepWaitingSample(t) == consolidate[t] /\ ~supportStop

\* The polling loop ends; while it goes on, usleep() changes nothing.
EndWait ==
  /\ support.pc = "wait"
  /\ ~keepWaitingSample(support.i)
  /\ support' = [support EXCEPT !.pc = "collect"]
  /\ UNCHANGED <<handshakeVars, channelVars, dropped>>
  /\ OtherThanSupport

\* Mutant: the flag is not tested before the sample is added.
Collectable_Always(t) == TRUE

Collectable(t) == ~consolidate[t]

\* The sample of thread i is added to the answer and reset, if the thread
\* has stored one.
Collect ==
  /\ support.pc = "collect"
  /\ IF Collectable(support.i)
     THEN /\ support' = [Advance("wait", "aggregate") EXCEPT
                           !.updated = @ + 1,
                           !.tasks = @ + consolidatedSample[support.i]]
          /\ consolidatedSample' = [consolidatedSample EXCEPT ![support.i] = 0]
     ELSE /\ support' = Advance("wait", "aggregate")
          /\ UNCHANGED consolidatedSample
  /\ UNCHANGED <<consolidate, channelVars, dropped>>
  /\ OtherThanSupport

\* _configuration.adjustThroughput has its default value, true.
MissingSamples == support.updated = 0 \/ support.updated # NumThreads

\* The answer is completed, or "FATAL ERROR: !_supportStop" is thrown.
Aggregate ==
  /\ support.pc = "aggregate"
  /\ support' = [support EXCEPT !.pc =
                   IF MissingSamples /\ ~supportStop THEN "failed" ELSE "phase"]
  /\ UNCHANGED <<handshakeVars, channelVars, dropped>>
  /\ OtherThanSupport

ReadPhaseId ==
  /\ support.pc = "phase"
  /\ support' = [support EXCEPT !.phaseId = phaseId, !.pc = "threads"]
  /\ UNCHANGED <<handshakeVars, channelVars, dropped>>
  /\ OtherThanSupport

ReadTotalThreads ==
  /\ support.pc = "threads"
  /\ support' = [support EXCEPT !.totalThreads = totalThreads, !.pc = "decide"]
  /\ UNCHANGED <<handshakeVars, channelVars, dropped>>
  /\ OtherThanSupport

\* Mutant: the answer is sent even when terminate() has begun.
AnswerWanted_Always == TRUE

\* Mutant: the test is inverted.
AnswerWanted_Inverted == supportStop

AnswerWanted == ~supportStop

\* if(!_supportStop) send
Decide ==
  /\ support.pc = "decide"
  /\ IF AnswerWanted
     THEN /\ support' = [support EXCEPT !.pc = "send"]
          /\ UNCHANGED dropped
     ELSE /\ support' = SupportAt("check")
          /\ dropped' = dropped + support.tasks
  /\ UNCHANGED <<handshakeVars, channelVars>>
  /\ OtherThanSupport

SendResponse ==
  /\ support.pc = "send"
  /\ Send("app", Msg("RES", support.tasks, support.updated,
                     support.phaseId, support.totalThreads))
  /\ support' = SupportAt("check")
  /\ UNCHANGED <<handshakeVars, dropped>>
  /\ OtherThanSupport

Support ==
  \/ SupportCheck \/ SupportReceive \/ RaiseFlag \/ EndWait \/ Collect
  \/ Aggregate \/ ReadPhaseId \/ ReadTotalThreads \/ Decide \/ SendResponse

-----------------------------------------------------------------------------
(* The owner of the Application *)

OtherThanMain ==
  UNCHANGED <<currentSample, samplingLength, begun, numTasks, handshakeVars,
              startVars, pc, support, mon, ghostVars>>

\* setPhaseId(n, n): the two fields are written one after the other.
SetPhaseId ==
  /\ main.pc = "run" /\ phaseId < MaxPhase
  /\ phaseId' = phaseId + 1
  /\ main' = [main EXCEPT !.pc = "setTotalThreads"]
  /\ UNCHANGED <<totalThreads, totalTasks, supportStop, channelVars>>
  /\ OtherThanMain

setTotalThreads ==
  /\ main.pc = "setTotalThreads"
  /\ totalThreads' = phaseId
  /\ main' = [main EXCEPT !.pc = "run"]
  /\ UNCHANGED <<phaseId, totalTasks, supportStop, channelVars>>
  /\ OtherThanMain

\* Mutant: the tasks since the last sampled one are forgotten.
FinalTasks_NoRemainder(t) == totalTasks[t]

\* What terminate() counts for thread t.
FinalTasks(t) == totalTasks[t] + currentSample[t]

\* terminate() is called once the threads have been joined.
CallTerminate ==
  /\ main.pc = "run" /\ \A t \in Threads : pc[t] = "finished"
  /\ main' = [main EXCEPT !.pc = "sum"]
  /\ UNCHANGED <<totalTasks, supportStop, phaseVars, channelVars>>
  /\ OtherThanMain

\* One round of its loop over the threads.
SumTasks ==
  /\ main.pc = "sum"
  /\ totalTasks' = [totalTasks EXCEPT ![main.i] = FinalTasks(main.i)]
  /\ main' = [main EXCEPT !.total = @ + FinalTasks(main.i),
                          !.i = IF @ + 1 < NumThreads THEN @ + 1 ELSE @,
                          !.pc = IF main.i + 1 < NumThreads THEN @ ELSE "setStop"]
  /\ UNCHANGED <<supportStop, phaseVars, channelVars>>
  /\ OtherThanMain

SetStop ==
  /\ main.pc = "setStop"
  /\ supportStop' = TRUE
  /\ main' = [main EXCEPT !.pc = "join"]
  /\ UNCHANGED <<totalTasks, phaseVars, channelVars>>
  /\ OtherThanMain

\* Mutant: the support thread is not joined.
SupportJoined_Always == TRUE

\* pthread_join
SupportJoined == support.pc = "exited"

JoinSupport ==
  /\ main.pc = "join" /\ SupportJoined
  /\ main' = [main EXCEPT !.pc = "stop"]
  /\ UNCHANGED <<totalTasks, supportStop, phaseVars, channelVars>>
  /\ OtherThanMain

SendStop ==
  /\ main.pc = "stop"
  /\ Send("app", Msg("STOP", main.total, 0, 0, 0))
  /\ main' = [main EXCEPT !.pc = "ack"]
  /\ UNCHANGED <<totalTasks, supportStop, phaseVars>>
  /\ OtherThanMain

\* Any message ends the wait: its type is not looked at.
ReceiveAck ==
  /\ main.pc = "ack"
  /\ Receive("app")
  /\ main' = [main EXCEPT !.pc = "returned"]
  /\ UNCHANGED <<totalTasks, supportStop, phaseVars>>
  /\ OtherThanMain

\* ~Application()
DestroyApplication ==
  /\ Destroy /\ main.pc = "returned"
  /\ Close("app")
  /\ main' = [main EXCEPT !.pc = "destroyed"]
  /\ UNCHANGED <<totalTasks, supportStop, phaseVars>>
  /\ OtherThanMain

terminate ==
  \/ CallTerminate \/ SumTasks \/ SetStop \/ JoinSupport \/ SendStop
  \/ ReceiveAck \/ DestroyApplication

Main == SetPhaseId \/ setTotalThreads \/ terminate

-----------------------------------------------------------------------------
(* The Monitor *)

OtherThanMonitor ==
  UNCHANGED <<samplingVars, handshakeVars, startVars, phaseVars, supportStop,
              pc, support, main, done, dropped>>

waitStart ==
  /\ mon.pc = "waitStart"
  /\ Receive("mon")
  /\ mon' = [mon EXCEPT !.pc = "ready"]
  /\ UNCHANGED delivered
  /\ OtherThanMonitor

\* getSample() sends its request...
RequestSample ==
  /\ mon.pc = "ready"
  /\ Send("mon", Plain("REQ"))
  /\ mon' = [mon EXCEPT !.pc = "response"]
  /\ UNCHANGED delivered
  /\ OtherThanMonitor

\* ...and takes what comes back: a sample, the summary, or an exception.
ReceiveResponse ==
  /\ mon.pc = "response"
  /\ Receive("mon")
  /\ LET m == Head(inbox["mon"])
     IN  /\ mon' = CASE m.type = "RES"  -> [mon EXCEPT !.pc = "ready",
                                              !.phaseId = m.phaseId,
                                              !.totalThreads = m.totalThreads]
                     [] m.type = "STOP" -> [mon EXCEPT !.pc = "ack",
                                              !.total = m.tasks]
                     [] OTHER           -> [mon EXCEPT !.pc = "failed"]
         /\ delivered' = IF m.type = "RES" THEN delivered + m.tasks ELSE delivered
  /\ OtherThanMonitor

SendAck ==
  /\ mon.pc = "ack"
  /\ Send("mon", Plain("STOPACK"))
  /\ mon' = [mon EXCEPT !.pc = "ended"]
  /\ UNCHANGED delivered
  /\ OtherThanMonitor

\* ~Monitor(), after sleep(1): one second is taken to be enough for the
\* application to read what was sent to it.
DestroyMonitor ==
  /\ Destroy /\ mon.pc = "ended" /\ inbox["app"] = << >>
  /\ Close("mon")
  /\ mon' = [mon EXCEPT !.pc = "destroyed"]
  /\ UNCHANGED delivered
  /\ OtherThanMonitor

Monitor ==
  waitStart \/ RequestSample \/ ReceiveResponse \/ SendAck \/ DestroyMonitor

-----------------------------------------------------------------------------
Channel ==
  /\ \E s \in Sides : Attach(s) \/ DropPipe(s)
  /\ UNCHANGED <<samplingVars, handshakeVars, startVars, phaseVars, supportStop,
                 pc, support, main, mon, ghostVars>>

Next ==
  \/ \E t \in Threads : ApplicationThread(t)
  \/ Support
  \/ Main
  \/ Monitor
  \/ Channel

Spec == Init /\ [][Next]_vars

\* Every thread is scheduled, the parallel part ends, its owner then calls
\* terminate(), and the monitor calls getSample() until it returns false.
Fairness ==
  /\ \A t \in Threads : WF_vars(ApplicationThread(t))
  /\ WF_vars(Support)
  /\ WF_vars(setTotalThreads \/ terminate)
  /\ WF_vars(Monitor)
  /\ WF_vars(Channel)

FairSpec == Spec /\ Fairness

-----------------------------------------------------------------------------
(* Properties *)

SamplingTypes ==
  /\ currentSample \in [Threads -> Nat]
  /\ samplingLength \in [Threads -> Nat \ {0}]
  /\ begun \in [Threads -> BOOLEAN]
  /\ numTasks \in [Threads -> Nat]
  /\ totalTasks \in [Threads -> Nat]

HandshakeTypes ==
  /\ consolidatedSample \in [Threads -> Nat]
  /\ consolidate \in [Threads -> BOOLEAN]

SharedTypes ==
  /\ started \in BOOLEAN /\ mutex \in Threads \cup {Free}
  /\ supportStop \in BOOLEAN /\ phaseId \in Nat /\ totalThreads \in Nat

ThreadTypes ==
  pc \in [Threads -> {"idle", "lock", "notify", "started", "unlock", "update",
                      "store", "lower", "task", "finished"}]

SupportTypes ==
  support \in [pc : {"check", "recv", "raise", "wait", "collect", "aggregate",
                     "phase", "threads", "decide", "send", "exited", "failed"},
               i : Threads, updated : Nat, tasks : Nat,
               phaseId : Nat, totalThreads : Nat]

MainTypes ==
  main \in [pc : {"run", "setTotalThreads", "sum", "setStop", "join", "stop",
                  "ack", "returned", "destroyed"},
            i : Threads, total : Nat]

MonitorTypes ==
  mon \in [pc : {"waitStart", "ready", "response", "ack", "ended", "destroyed",
                 "failed"},
           phaseId : Nat, totalThreads : Nat, total : Nat]

HistoryTypes ==
  /\ done \in [Threads -> Nat] /\ delivered \in Nat /\ dropped \in Nat

\* Types: in particular the loops of the support thread and of terminate()
\* index the vector of threads within its bounds.
TypeOK ==
  /\ SamplingTypes /\ HandshakeTypes /\ SharedTypes /\ ThreadTypes
  /\ SupportTypes /\ MainTypes /\ MonitorTypes
  /\ ChannelTypeOK(Message) /\ HistoryTypes

\* No more than two messages are on their way to a side, so a send that finds
\* a pipe does not wait for buffer space.
InFlightBounded == \A s \in Sides : Len(inbox[s]) <= 2

\* The support thread reads and resets a thread's consolidated sample only
\* while the thread is not writing it: the consolidate flag, an atomic,
\* hands the plain struct back and forth.
ExclusiveSample ==
  \A t \in Threads :
    ~ /\ pc[t] = "store"
      /\ support.pc = "collect" /\ support.i = t /\ Collectable(t)

\* A sample that is added to an answer holds at least one task, so the
\* average latency is not a division by zero.
CollectedNotEmpty ==
  support.pc = "collect" /\ Collectable(support.i) =>
    consolidatedSample[support.i] > 0

\* Every answer on its way to the monitor, or about to be sent, is made of a
\* sample of each thread, also when terminate() interrupts the collection.
CompleteAnswers ==
  /\ support.pc = "send" => support.updated = NumThreads
  /\ \A k \in DOMAIN inbox["mon"] :
       inbox["mon"][k].type = "RES" => inbox["mon"][k].threads = NumThreads

\* Neither process throws: the support thread not "FATAL ERROR: !_supportStop",
\* the monitor not "Unexpected message type."
NoFatalError == support.pc # "failed" /\ mon.pc # "failed"

\* The assertion of waitStart(): the first message is START.
StartComesFirst ==
  mon.pc = "waitStart" /\ inbox["mon"] # << >> => Head(inbox["mon"]).type = "START"

\* The assertion of the support thread: it receives requests only, never the
\* acknowledgement that terminate() waits for on the same socket.
OnlyRequests ==
  support.pc = "recv" /\ inbox["app"] # << >> => Head(inbox["app"]).type = "REQ"

\* When the application waits for a message, in the support thread or in
\* terminate(), and none is on its way in either direction, then it is the
\* monitor's turn: it does not wait for an answer, has not finished with the
\* session, and in waitStart() it can still count on a thread's first begin().
NoMutualWait ==
  (support.pc = "recv" \/ main.pc = "ack") /\ (\A s \in Sides : inbox[s] = << >>) =>
    /\ mon.pc \notin {"response", "ended", "destroyed"}
    /\ mon.pc = "waitStart" => \E t \in Threads : pc[t] # "finished"

\* Until the Application is destroyed, the STOP that terminate() sent is
\* either received by getSample() as the summary or still on its way; neither
\* waitStart() nor a late answer uses it up.
StopNotLost ==
  main.pc \in {"ack", "returned"} =>
    \/ mon.pc \in {"ack", "ended", "destroyed"}
    \/ \E k \in DOMAIN inbox["mon"] : inbox["mon"][k].type = "STOP"

TasksOf(m) == IF m.type = "RES" THEN m.tasks ELSE 0

InFlightTasks ==
  SumOver([k \in DOMAIN inbox["mon"] |-> TasksOf(inbox["mon"][k])])

\* Until terminate() is called, every task that end() counted
\* is in exactly one place on the way to the monitor: running sample,
\* consolidated sample, answer being built, message, or received sample.
TasksAccounted ==
  main.pc \in {"run", "setTotalThreads"} =>
    SumOver(totalTasks) =
      SumOver(numTasks) + SumOver(consolidatedSample) + support.tasks
        + InFlightTasks + delivered

\* The summary the monitor gets is the number of tasks the threads executed,
\* and its samples never add up to more.
SummaryExact ==
  mon.pc \in {"ack", "ended", "destroyed"} =>
    /\ mon.total = SumOver(done)
    /\ delivered + dropped <= mon.total

\* The comment in terminate(): "Wait for ack before leaving (otherwise if
\* object is destroyed the monitor could never receive the stop)".
ReturnsAfterStopReceived ==
  main.pc \in {"returned", "destroyed"} =>
    mon.pc \in {"ack", "ended", "destroyed"}

\* riff.hpp, setPhaseId: totalThreads is "The number of threads contributing
\* to this phase"; the calls modelled pass n for the n-th phase.
PhaseMatchesThreads == mon.totalThreads = mon.phaseId

\* terminate() returns once it has been called.
TerminateReturns == main.pc = "join" ~> main.pc = "returned"

\* The session ends on both sides, and no getSample() call stays unanswered.
SessionEnds == <>(main.pc = "returned" /\ mon.pc = "ended")

-----------------------------------------------------------------------------
(* Refinement *)

\* A sample is in its mailbox once the flag is lowered; from StoreSample to
\* LowerFlag it is still the thread's.
Mailbox == INSTANCE Handover WITH
  Amounts <- Lengths \cup {1},
  running <- [t \in Threads |-> IF pc[t] = "lower" THEN consolidatedSample[t]
                                ELSE numTasks[t]],
  wanted <- consolidate,
  content <- [t \in Threads |-> IF consolidate[t] THEN 0
                                ELSE consolidatedSample[t]]

MonitorSees == INSTANCE Session WITH
  executed <- SumOver(done),
  reported <- delivered,
  state <- CASE mon.pc = "waitStart" -> "waiting"
             [] mon.pc \in {"ready", "response"} -> "running"
             [] mon.pc \in {"ack", "ended", "destroyed"} -> "ended"
             [] OTHER -> "failed",
  summary <- mon.total

\* The flag, the two samples and the steps of begin() and of the support
\* thread between which others may run implement a mailbox: whole samples,
\* handed over when asked for, each taken exactly once.
ImplementsHandover == Mailbox!Spec

\* Threads, support thread, terminate() and messages together give the
\* Monitor's user the session of module Session: complete samples, no task
\* reported twice or before it was executed, an exact summary at the end, and
\* no exception.
ImplementsSession == MonitorSees!Spec
=============================================================================
