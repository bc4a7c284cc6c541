---------------------------- MODULE ReportsProofs ----------------------------
(***************************************************************************)
(* What the support thread computes, for every number of threads, of       *)
(* custom fields and every set of measurements.                            *)
(*                                                                         *)
(* ShapeInv has the types, with natural numbers for the integers, and how  *)
(* far the collecting loop has come; TakenInv relates the partial sums to  *)
(* the samples taken; AnswerInv carries what they become to the monitor;   *)
(* and FieldsInv orders the custom values of the first thread.  The last   *)
(* part is about the text form of a sample: what is left of a text after k *)
(* fields (Suffix), or of a log after k samples (Rest), is a closed form   *)
(* of the loops that read it.                                              *)
(***************************************************************************)
EXTENDS Reports, SumProofs, SequenceTheorems

USE DEF FieldsAfterStore, Updated

-----------------------------------------------------------------------------
(* Arithmetic and samples. *)

\* Products and quotients of naturals.
LEMMA ProductNat == ASSUME NEW a \in Nat, NEW b \in Nat PROVE a * b \in Nat
  OBVIOUS

LEMMA QuotientNat ==
  ASSUME NEW a \in Nat, NEW b \in Nat \ {0} PROVE a \div b \in Nat
  OBVIOUS

\* A sample without negative numbers, as all are that begin() measures.
NatSample ==
  [inconsistent : BOOLEAN, loadPercentage : Nat, throughput : Nat, latency : Nat,
   numTasks : Nat, customFields : [Fields -> Nat]]

LEMMA NatSampleIsSample == NatSample \subseteq Sample
  BY DEF NatSample, Sample

LEMMA EmptyIsNat == EmptySample \in NatSample
  BY DEF EmptySample, NatSample

\* Copying loses nothing.
LEMMA CopyIsSame == ASSUME NEW s \in NatSample PROVE Copy(s) = s
  BY DEF Copy, NatSample

\* The sample that begin() stores.
Stored(m, fields) ==
  [f \in DOMAIN EmptySample |-> IF f = "customFields" THEN fields ELSE m[f]]

\* It has a task, and the fields of the running sample.
LEMMA StoredSample ==
  ASSUME NEW m \in Measured, NEW fields \in [Fields -> Nat]
  PROVE  /\ Stored(m, fields) \in NatSample
         /\ Stored(m, fields).numTasks > 0
         /\ Stored(m, fields).customFields = fields
  BY ReportsAssumption DEF Stored, EmptySample, NatSample

-----------------------------------------------------------------------------
(* Types, and how far the collecting loop has come. *)

SupportShape ==
  support \in [pc : {"check", "recv", "collect", "aggregate", "reply", "exited",
                     "failed"},
               i : Threads, sample : NatSample, updated : Nat, inconsistent : Nat,
               customVec : Seq([Fields -> Nat])]

NatRequest == [marked : BOOLEAN, taken : Seq(NatSample)]

ProgramShape ==
  /\ customFields \in [Threads -> [Fields -> Nat]]
  /\ begun \in [Threads -> BOOLEAN]
  /\ inconsistentSample \in BOOLEAN /\ supportStop \in BOOLEAN
  /\ adjustThroughput \in BOOLEAN /\ aggregator \in {"none", "sum"}
  /\ stores \in Nat

MailboxShape ==
  /\ consolidatedSample \in [Threads -> NatSample]
  /\ consolidate \in [Threads -> BOOLEAN]

AnswersShape ==
  /\ request \in NatRequest /\ answered \in NatRequest /\ received \in Seq(NatSample)

Shapes == ProgramShape /\ MailboxShape /\ SupportShape /\ AnswersShape

\* The loop has a sample of every thread it has passed, unless terminate() was
\* called, and one row of custom fields for each.
LoopInv ==
  /\ support.inconsistent <= support.updated
  /\ support.updated <= NumThreads
  /\ support.pc = "collect" => support.updated <= support.i
  /\ support.pc = "collect" => support.updated = support.i \/ supportStop
  /\ support.pc \in {"aggregate", "reply"} =>
       support.updated = NumThreads \/ supportStop
  /\ Len(support.customVec) = support.updated
  /\ support.pc # "failed"

\* A thread that has lowered its flag has left a sample with a task in it.
FreshInv ==
  support.pc = "collect" =>
    \A t \in Threads :
      t >= support.i => consolidate[t] \/ consolidatedSample[t].numTasks > 0

ShapeInv == Shapes /\ LoopInv /\ FreshInv

\* Threads are numbers.
LEMMA ThreadNumber == ASSUME NEW t \in Threads PROVE t \in Nat /\ t < NumThreads
  BY ReportsAssumption DEF Threads

\* The three hold at the beginning.
LEMMA ShapeInit == Init => ShapeInv
<1> SUFFICES ASSUME Init PROVE ShapeInv
  OBVIOUS
<1>1. EmptySample \in NatSample /\ EmptySample.customFields \in [Fields -> Nat]
  BY EmptyIsNat DEF NatSample
<1>2. 0 \in Threads /\ << >> \in Seq(NatSample) /\ << >> \in Seq([Fields -> Nat])
  BY ReportsAssumption DEF Threads
<1>3. ProgramShape
  BY <1>1 DEF Init, ProgramShape
<1>4. MailboxShape
  BY <1>1 DEF Init, MailboxShape
<1>5. SupportShape /\ support.pc = "check" /\ support.updated = 0
      /\ support.inconsistent = 0 /\ support.customVec = << >>
  BY <1>1, <1>2 DEF Init, SupportShape, SupportAt
<1>6. AnswersShape
  BY <1>2 DEF Init, AnswersShape, NatRequest, NoRequest
<1>7. LoopInv /\ FreshInv
  BY <1>5, ReportsAssumption DEF LoopInv, FreshInv
<1>8. QED
  BY <1>3, <1>4, <1>5, <1>6, <1>7 DEF ShapeInv, Shapes

\* The steps of the instrumented program.
Program ==
  \/ \E t \in Threads : FirstBegin(t) \/ StoreSample(t)
  \/ \E t \in Threads, j \in Fields : storeCustomValue(t, j)
  \/ markInconsistentSamples \/ SetStop

\* begin(), storeCustomValue() and the flags keep them: in particular a stored
\* sample has a task.
LEMMA ShapeProgram ==
  ASSUME ShapeInv, Program
  PROVE  ShapeInv'
<1> USE DEF ShapeInv, Shapes
<1>1. ASSUME NEW t \in Threads, FirstBegin(t) PROVE ShapeInv'
  <2>1. ProgramShape'
    BY <1>1 DEF FirstBegin, OtherThanProgram, configVars, ProgramShape
  <2>2. MailboxShape' /\ SupportShape' /\ AnswersShape' /\ LoopInv' /\ FreshInv'
    BY <1>1 DEF FirstBegin, OtherThanProgram, answers, handshakeVars, MailboxShape,
                SupportShape, AnswersShape, LoopInv, FreshInv
  <2>3. QED
    BY <2>1, <2>2
<1>2. ASSUME NEW t \in Threads, StoreSample(t) PROVE ShapeInv'
  <2>0. PICK m \in Measured :
          consolidatedSample' = [consolidatedSample EXCEPT ![t] =
                                   Copy(Stored(m, customFields[t]))]
    BY <1>2 DEF StoreSample, Stored
  <2> DEFINE s == Stored(m, customFields[t])
  <2>1. s \in NatSample /\ s.numTasks > 0 /\ Copy(s) = s
    <3>1. customFields[t] \in [Fields -> Nat]
      BY DEF ProgramShape
    <3>2. QED
      BY <3>1, StoredSample, CopyIsSame
  <2>2. consolidatedSample' = [consolidatedSample EXCEPT ![t] = s]
    BY <2>0, <2>1
  <2> HIDE DEF s
  <2>3. ProgramShape'
    <3>1. EmptySample.customFields \in [Fields -> Nat]
      BY EmptyIsNat DEF NatSample
    <3>2. QED
      BY <1>2, <3>1 DEF StoreSample, OtherThanProgram, configVars, ProgramShape
  <2>4. MailboxShape'
    <3>1. consolidatedSample' \in [Threads -> NatSample]
      BY <2>1, <2>2 DEF MailboxShape
    <3>2. consolidate' \in [Threads -> BOOLEAN]
      BY <1>2 DEF StoreSample, MailboxShape
    <3>3. QED
      BY <3>1, <3>2 DEF MailboxShape
  <2>5. SupportShape' /\ AnswersShape' /\ LoopInv'
    BY <1>2 DEF StoreSample, OtherThanProgram, answers, SupportShape, AnswersShape,
                LoopInv
  <2>6. FreshInv'
    <3>1. support' = support /\ consolidate' = [consolidate EXCEPT ![t] = FALSE]
      BY <1>2 DEF StoreSample, OtherThanProgram
    <3>2. \A u \in Threads : u # t => consolidate'[u] = consolidate[u]
                                      /\ consolidatedSample'[u] = consolidatedSample[u]
      BY <2>2, <3>1 DEF MailboxShape
    <3>3. consolidatedSample'[t] = s
      BY <2>2 DEF MailboxShape
    <3>4. QED
      BY <2>1, <3>1, <3>2, <3>3 DEF FreshInv
  <2>7. QED
    BY <2>3, <2>4, <2>5, <2>6
<1>3. ASSUME NEW t \in Threads, NEW j \in Fields, storeCustomValue(t, j) PROVE ShapeInv'
  <2>1. ProgramShape'
    <3>1. stores + 1 \in Nat /\ customFields[t] \in [Fields -> Nat]
      BY DEF ProgramShape
    <3>2. customFields' = [customFields EXCEPT
                             ![t] = [customFields[t] EXCEPT ![j] = stores + 1]]
      BY <1>3 DEF storeCustomValue
    <3>3. [customFields[t] EXCEPT ![j] = stores + 1] \in [Fields -> Nat]
      BY <3>1
    <3>4. customFields' \in [Threads -> [Fields -> Nat]]
      BY <3>2, <3>3 DEF ProgramShape
    <3>5. QED
      BY <1>3, <3>1, <3>4 DEF storeCustomValue, OtherThanProgram, configVars,
                              ProgramShape
  <2>2. MailboxShape' /\ SupportShape' /\ AnswersShape' /\ LoopInv' /\ FreshInv'
    BY <1>3 DEF storeCustomValue, OtherThanProgram, answers, handshakeVars,
                MailboxShape, SupportShape, AnswersShape, LoopInv, FreshInv
  <2>3. QED
    BY <2>1, <2>2
<1>4. ASSUME markInconsistentSamples \/ SetStop PROVE ShapeInv'
  <2>1. ProgramShape'
    BY <1>4 DEF markInconsistentSamples, SetStop, OtherThanProgram, configVars,
                threadVars, ProgramShape
  <2>2. MailboxShape' /\ SupportShape' /\ AnswersShape' /\ FreshInv'
    BY <1>4 DEF markInconsistentSamples, SetStop, OtherThanProgram, answers,
                handshakeVars, MailboxShape, SupportShape, AnswersShape, FreshInv
  <2>3. LoopInv'
    BY <1>4 DEF markInconsistentSamples, SetStop, OtherThanProgram, LoopInv
  <2>4. QED
    BY <2>1, <2>2, <2>3
<1>5. QED
  BY <1>1, <1>2, <1>3, <1>4 DEF Program

\* The fresh answer that the support thread starts from.
LEMMA FreshAnswer ==
  ASSUME NEW label \in {"check", "recv", "collect", "exited"},
         support' = SupportAt(label)
  PROVE  SupportShape' /\ support'.pc = label /\ support'.i = 0
         /\ support'.updated = 0 /\ support'.inconsistent = 0
         /\ support'.customVec = << >> /\ support'.sample = EmptySample
<1>1. 0 \in Threads /\ << >> \in Seq([Fields -> Nat])
  BY ReportsAssumption DEF Threads
<1>2. QED
  BY <1>1, EmptyIsNat DEF SupportShape, SupportAt

\* An empty answer agrees with the loop that starts.
LEMMA FreshLoop ==
  ASSUME NEW label \in {"check", "recv", "collect", "exited"},
         support' = SupportAt(label)
  PROVE  LoopInv'
  BY FreshAnswer, ReportsAssumption DEF LoopInv

\* The three steps of the support thread that start with a fresh answer.
LEMMA ShapeCheck == ASSUME ShapeInv, SupportCheck PROVE ShapeInv'
<1> USE DEF ShapeInv, Shapes
<1>1. PICK label \in {"check", "recv", "collect", "exited"} :
        label # "collect" /\ support' = SupportAt(label)
  BY DEF SupportCheck
<1>2. ProgramShape' /\ MailboxShape' /\ AnswersShape'
  BY DEF SupportCheck, OtherThanSupport, threadVars, configVars, handshakeVars,
         answers, ProgramShape, MailboxShape, AnswersShape
<1>3. SupportShape' /\ support'.pc # "collect"
  BY <1>1, FreshAnswer
<1>4. LoopInv'
  BY <1>1, FreshLoop
<1>5. QED
  BY <1>2, <1>3, <1>4 DEF FreshInv

LEMMA ShapeReceive == ASSUME ShapeInv, SupportReceive PROVE ShapeInv'
<1> USE DEF ShapeInv, Shapes
<1>1. support' = SupportAt("collect") /\ consolidate' = [t \in Threads |-> TRUE]
  BY DEF SupportReceive
<1>2. ProgramShape' /\ MailboxShape'
  BY DEF SupportReceive, OtherThanSupport, threadVars, configVars, ProgramShape,
         MailboxShape
<1>3. SupportShape' /\ LoopInv'
  BY <1>1, FreshAnswer, FreshLoop
<1>4. AnswersShape'
  <2>1. << >> \in Seq(NatSample)
    OBVIOUS
  <2>2. QED
    BY <2>1 DEF SupportReceive, ProgramShape, AnswersShape, NatRequest, NoRequest
<1>5. QED
  BY <1>1, <1>2, <1>3, <1>4 DEF FreshInv

LEMMA ShapeReply == ASSUME ShapeInv, Reply PROVE ShapeInv'
<1> USE DEF ShapeInv, Shapes
<1>1. support' = SupportAt("check")
  BY DEF Reply
<1>2. ProgramShape' /\ MailboxShape'
  BY DEF Reply, OtherThanSupport, threadVars, configVars, handshakeVars,
         ProgramShape, MailboxShape
<1>3. SupportShape' /\ LoopInv' /\ support'.pc = "check"
  BY <1>1, FreshAnswer, FreshLoop
<1>4. AnswersShape'
  <2>1. NoRequest \in NatRequest
    BY DEF NatRequest, NoRequest
  <2>2. support.sample \in NatSample
    BY DEF SupportShape
  <2>3. Copy(support.sample) \in NatSample
    BY <2>2, CopyIsSame
  <2>4. received' \in Seq(NatSample) /\ answered' \in NatRequest
    BY <2>3, AppendProperties DEF Reply, AnswersShape
  <2>5. QED
    BY <2>1, <2>4 DEF Reply, AnswersShape
<1>5. QED
  BY <1>2, <1>3, <1>4 DEF FreshInv

-----------------------------------------------------------------------------
(* One round of the collecting loop. *)

\* Its effect on the answer, whose numbers stay naturals.
LEMMA SummedSample ==
  ASSUME NEW sum \in NatSample, NEW s \in NatSample, s.numTasks > 0
  PROVE  /\ Summed(sum, s) \in NatSample
         /\ Summed(sum, s).inconsistent = sum.inconsistent
         /\ Summed(sum, s).throughput = sum.throughput + s.throughput
         /\ Summed(sum, s).numTasks = sum.numTasks + s.numTasks
         /\ Summed(sum, s).loadPercentage =
              sum.loadPercentage + (IF s.inconsistent THEN 0 ELSE s.loadPercentage)
         /\ Summed(sum, s).latency =
              sum.latency + (IF s.inconsistent THEN 0 ELSE s.latency \div s.numTasks)
         /\ Summed(sum, s).customFields = sum.customFields
<1>1. s.latency \div s.numTasks \in Nat
  BY QuotientNat DEF NatSample
<1> DEFINE reliable(x) == IF s.inconsistent THEN 0 ELSE x
           load == sum.loadPercentage + reliable(s.loadPercentage)
           latency == sum.latency + reliable(s.latency \div s.numTasks)
           throughput == sum.throughput + s.throughput
           numTasks == sum.numTasks + s.numTasks
<1>2. load \in Nat /\ latency \in Nat /\ throughput \in Nat /\ numTasks \in Nat
  BY <1>1 DEF NatSample
<1>3. Summed(sum, s) = [sum EXCEPT !.loadPercentage = load, !.latency = latency,
                                   !.throughput = throughput, !.numTasks = numTasks]
  BY DEF Summed, NatSample
<1> HIDE DEF load, latency, throughput, numTasks
<1>4. /\ Summed(sum, s) \in NatSample
      /\ Summed(sum, s).inconsistent = sum.inconsistent
      /\ Summed(sum, s).throughput = throughput
      /\ Summed(sum, s).numTasks = numTasks
      /\ Summed(sum, s).loadPercentage = load
      /\ Summed(sum, s).latency = latency
      /\ Summed(sum, s).customFields = sum.customFields
  BY <1>2, <1>3 DEF NatSample
<1>5. QED
  BY <1>4 DEF load, latency, throughput, numTasks

\* The loop moves on to the next thread, or ends.
Advances(i) ==
  /\ support'.i = IF i + 1 < NumThreads THEN i + 1 ELSE 0
  /\ support'.pc = IF i + 1 < NumThreads THEN "collect" ELSE "aggregate"

\* The thread has not answered, which only terminate() makes the loop accept.
Skips(i) ==
  /\ consolidate[i] /\ supportStop
  /\ support'.sample = support.sample
  /\ support'.updated = support.updated
  /\ support'.inconsistent = support.inconsistent
  /\ support'.customVec = support.customVec
  /\ UNCHANGED <<consolidatedSample, request>>

\* The sample of the thread joins the answer.
Takes(i, s) ==
  /\ ~consolidate[i] /\ s = consolidatedSample[i]
  /\ support'.sample = Summed(support.sample, s)
  /\ support'.updated = support.updated + 1
  /\ support'.inconsistent = support.inconsistent + (IF s.inconsistent THEN 1 ELSE 0)
  /\ support'.customVec = Append(support.customVec, s.customFields)
  /\ consolidatedSample' = [consolidatedSample EXCEPT ![i] = EmptySample]
  /\ request'.marked = request.marked
  /\ request'.taken = Append(request.taken, s)

\* A round of the loop does one or the other.
LEMMA CollectRound ==
  ASSUME Shapes, Collect
  PROVE  /\ Advances(support.i)
         /\ Skips(support.i) \/ Takes(support.i, consolidatedSample[support.i])
<1>1. /\ support \in [pc : {"check", "recv", "collect", "aggregate", "reply", "exited",
                            "failed"},
                      i : Threads, sample : NatSample, updated : Nat,
                      inconsistent : Nat, customVec : Seq([Fields -> Nat])]
      /\ support.pc = "collect" /\ request \in [marked : BOOLEAN, taken : Seq(NatSample)]
      /\ consolidate \in [Threads -> BOOLEAN] /\ supportStop \in BOOLEAN
  BY DEF Shapes, SupportShape, AnswersShape, NatRequest, MailboxShape, ProgramShape,
         Collect
<1>2. CASE consolidate[support.i]
  <2>1. supportStop
    BY <1>1, <1>2 DEF Collect, keepWaitingSample
  <2>2. QED
    BY <1>1, <1>2, <2>1 DEF Collect, Advances, Skips
<1>3. CASE ~consolidate[support.i]
  <2>1. support.inconsistent \in Nat
    BY <1>1
  <2> DEFINE s == consolidatedSample[support.i]
             j == IF support.i + 1 < NumThreads THEN support.i + 1 ELSE 0
             label == IF support.i + 1 < NumThreads THEN support.pc ELSE "aggregate"
             next == [support EXCEPT !.i = j, !.pc = label]
  <2>2. next.sample = support.sample /\ next.updated = support.updated
        /\ next.inconsistent = support.inconsistent
        /\ next.customVec = support.customVec /\ DOMAIN next = DOMAIN support
        /\ next.i = j /\ next.pc = label
    <3> HIDE DEF j, label
    <3>1. QED
      BY <1>1
  <2>3. /\ support' = AddSample(next, s)
        /\ consolidatedSample' = [consolidatedSample EXCEPT ![support.i] = EmptySample]
        /\ request' = [request EXCEPT !.taken = Append(@, s)]
    BY <1>1, <1>3 DEF Collect
  <2> HIDE DEF next, s, j, label
  <2>4. DOMAIN support = {"pc", "i", "sample", "updated", "inconsistent", "customVec"}
    BY <1>1
  <2>5. Advances(support.i)
    <3>1. support'.i = j /\ support'.pc = label
      BY <2>2, <2>3, <2>4 DEF AddSample
    <3>2. QED
      BY <1>1, <3>1 DEF Advances, j, label
  <2>6. /\ support'.sample = Summed(support.sample, s)
        /\ support'.updated = support.updated + 1
        /\ support'.customVec = Append(support.customVec, s.customFields)
        /\ support'.inconsistent = IF s.inconsistent THEN support.inconsistent + 1
                                                    ELSE support.inconsistent
    BY <2>2, <2>3, <2>4 DEF AddSample
  <2>7. request'.marked = request.marked /\ request'.taken = Append(request.taken, s)
    BY <1>1, <2>3
  <2>8. support'.inconsistent = support.inconsistent + (IF s.inconsistent THEN 1 ELSE 0)
    BY <2>1, <2>6
  <2>9. QED
    BY <1>3, <2>3, <2>5, <2>6, <2>7, <2>8 DEF Takes, s
<1>4. QED
  BY <1>2, <1>3

\* A round keeps the count of the rows, the flags and the threads passed.
LEMMA ShapeCollect == ASSUME ShapeInv, Collect PROVE ShapeInv'
<1> USE DEF ShapeInv, Shapes
<1> DEFINE i == support.i
           s == consolidatedSample[i]
<1>1. /\ Advances(i) /\ support.pc = "collect"
      /\ Skips(i) \/ Takes(i, s)
  BY CollectRound DEF Collect
<1>2. i \in Threads /\ i \in Nat /\ i < NumThreads /\ NumThreads \in Nat
  BY ThreadNumber, ReportsAssumption DEF SupportShape
<1>3. s \in NatSample /\ (Takes(i, s) => s.numTasks > 0)
  <2>1. i >= support.i
    BY <1>2
  <2>2. QED
    BY <1>1, <1>2, <2>1 DEF MailboxShape, FreshInv, Takes
<1> HIDE DEF i, s
<1>4. ProgramShape'
  BY DEF Collect, OtherThanSupport, threadVars, configVars, ProgramShape
<1>5. MailboxShape'
  BY <1>1, EmptyIsNat DEF Skips, Takes, Collect, MailboxShape
<1>6. SupportShape'
  <2>1. /\ support.sample \in NatSample /\ support.updated \in Nat
        /\ support.inconsistent \in Nat /\ support.customVec \in Seq([Fields -> Nat])
    BY DEF SupportShape
  <2>2. /\ support'.sample \in NatSample /\ support'.updated \in Nat
        /\ support'.inconsistent \in Nat
    BY <1>1, <1>3, <2>1, SummedSample DEF Skips, Takes
  <2>3. support'.customVec \in Seq([Fields -> Nat])
    <3>1. s.customFields \in [Fields -> Nat]
      BY <1>3 DEF NatSample
    <3>2. Append(support.customVec, s.customFields) \in Seq([Fields -> Nat])
      BY <2>1, <3>1, AppendProperties
    <3>3. QED
      BY <1>1, <2>1, <3>2 DEF Skips, Takes
  <2>4. support'.i \in Threads /\ support'.pc \in {"collect", "aggregate"}
    BY <1>1, <1>2 DEF Advances, Threads
  <2>5. support' = [pc |-> support'.pc, i |-> support'.i, sample |-> support'.sample,
                    updated |-> support'.updated, inconsistent |-> support'.inconsistent,
                    customVec |-> support'.customVec]
    BY DEF Collect, AddSample, SupportShape
  <2>6. QED
    BY <2>2, <2>3, <2>4, <2>5 DEF SupportShape
<1>7. AnswersShape'
  <2>1. request'.marked \in BOOLEAN /\ request'.taken \in Seq(NatSample)
    <3>1. request.marked \in BOOLEAN /\ request.taken \in Seq(NatSample)
      BY DEF AnswersShape, NatRequest
    <3>2. Append(request.taken, s) \in Seq(NatSample)
      BY <1>3, <3>1, AppendProperties
    <3>3. QED
      BY <1>1, <3>1, <3>2 DEF Skips, Takes
  <2>2. request' = [marked |-> request'.marked, taken |-> request'.taken]
    BY DEF Collect, AnswersShape, NatRequest
  <2>3. request' \in NatRequest
    BY <2>1, <2>2 DEF NatRequest
  <2>4. QED
    BY <2>3 DEF Collect, AnswersShape
<1>8. LoopInv'
  <2>1. /\ support.updated \in Nat /\ support.inconsistent \in Nat
        /\ support.customVec \in Seq([Fields -> Nat]) /\ i = support.i
    BY DEF SupportShape, i
  <2>2. supportStop' = supportStop
    BY DEF Collect, OtherThanSupport
  <2>3. CASE Skips(i)
    BY <1>1, <1>2, <2>1, <2>2, <2>3 DEF Skips, Advances, LoopInv
  <2>4. CASE Takes(i, s)
    <3>1. Len(support'.customVec) = Len(support.customVec) + 1
      <4>1. s.customFields \in [Fields -> Nat]
        BY <1>3 DEF NatSample
      <4>2. QED
        BY <2>1, <2>4, <4>1, AppendProperties DEF Takes
    <3>2. QED
      BY <1>1, <1>2, <2>1, <2>2, <2>4, <3>1 DEF Takes, Advances, LoopInv
  <2>5. QED
    BY <1>1, <2>3, <2>4
<1>9. FreshInv'
  <2> SUFFICES ASSUME support'.pc = "collect", NEW t \in Threads, t >= support'.i
               PROVE  consolidate'[t] \/ consolidatedSample'[t].numTasks > 0
    BY DEF FreshInv
  <2>1. t \in Nat /\ t >= i /\ t # i
    BY <1>1, <1>2, ThreadNumber DEF Advances
  <2>2. consolidate[t] \/ consolidatedSample[t].numTasks > 0
    BY <1>1, <2>1 DEF FreshInv, i
  <2>3. consolidatedSample'[t] = consolidatedSample[t] /\ consolidate' = consolidate
    BY <1>1, <2>1 DEF Skips, Takes, MailboxShape, Collect
  <2>4. QED
    BY <2>2, <2>3
<1>10. QED
  BY <1>4, <1>5, <1>6, <1>7, <1>8, <1>9

-----------------------------------------------------------------------------
(* The answer is completed. *)

\* The adjusted throughput divides by the samples there are.
LEMMA AdjustedNat ==
  ASSUME ShapeInv, support.updated # 0
  PROVE  AdjustedThroughput(support) \in Nat
<1> DEFINE sum == support.sample.throughput
           n == support.updated
<1>1. sum \in Nat /\ n \in Nat \ {0} /\ NumThreads \in Nat /\ n <= NumThreads
  BY ReportsAssumption DEF ShapeInv, Shapes, SupportShape, LoopInv, NatSample
<1> HIDE DEF sum, n
<1>2. sum \div n \in Nat /\ NumThreads - n \in Nat
  BY <1>1, QuotientNat
<1> DEFINE share == sum \div n
           rest == NumThreads - n
<1> HIDE DEF share, rest
<1>3. share * rest \in Nat
  BY <1>2, ProductNat DEF share, rest
<1>4. sum + share * rest \in Nat
  BY <1>1, <1>3
<1>5. QED
  BY <1>1, <1>4 DEF AdjustedThroughput, sum, n, share, rest

\* The averages divide by a positive number.
LEMMA ReliableNat ==
  ASSUME ShapeInv
  PROVE  /\ Reliable(support) \in Nat
         /\ ~Unreliable(support) => Reliable(support) \in Nat \ {0}
  BY DEF ShapeInv, Shapes, SupportShape, LoopInv, Reliable, Unreliable

\* What the averages leave alone, and what they divide.
LEMMA AveragedSample ==
  ASSUME ShapeInv, support.updated # 0
  PROVE  /\ Averaged(support) \in NatSample
         /\ Averaged(support).inconsistent =
              IF Unreliable(support) THEN TRUE ELSE support.sample.inconsistent
         /\ Averaged(support).throughput = AdjustedThroughput(support)
         /\ Averaged(support).numTasks = support.sample.numTasks
         /\ ~Unreliable(support) =>
              /\ Averaged(support).latency = support.sample.latency \div Reliable(support)
              /\ Averaged(support).loadPercentage =
                   support.sample.loadPercentage \div Reliable(support)
<1> DEFINE sum == support.sample
           n == Reliable(support)
           throughput == AdjustedThroughput(support)
           load == sum.loadPercentage \div n
           latency == sum.latency \div n
<1>1. sum \in NatSample /\ throughput \in Nat
  BY AdjustedNat DEF ShapeInv, Shapes, SupportShape
<1>2. CASE Unreliable(support)
  <2>1. Averaged(support) = [sum EXCEPT !.inconsistent = TRUE, !.throughput = throughput]
    BY <1>2 DEF Averaged
  <2> HIDE DEF sum, throughput
  <2>2. QED
    BY <1>1, <1>2, <2>1 DEF NatSample, sum, throughput
<1>3. CASE ~Unreliable(support)
  <2>1. Averaged(support) = [sum EXCEPT !.loadPercentage = load, !.latency = latency,
                                        !.throughput = throughput]
    BY <1>3 DEF Averaged
  <2>2. n \in Nat \ {0}
    BY <1>3, ReliableNat
  <2> HIDE DEF sum, throughput, n
  <2>3. load \in Nat /\ latency \in Nat
    BY <1>1, <2>2, QuotientNat DEF NatSample
  <2> HIDE DEF load, latency
  <2>4. /\ Averaged(support) \in NatSample
        /\ Averaged(support).inconsistent = sum.inconsistent
        /\ Averaged(support).throughput = throughput
        /\ Averaged(support).numTasks = sum.numTasks
        /\ Averaged(support).latency = latency
        /\ Averaged(support).loadPercentage = load
    BY <1>1, <2>1, <2>3 DEF NatSample
  <2>5. QED
    BY <1>3, <2>4 DEF sum, throughput, n, load, latency
<1>4. QED
  BY <1>2, <1>3

\* The custom fields of the answer, the first row without an aggregator.
LEMMA AggregatedNat ==
  ASSUME ShapeInv
  PROVE  /\ AggregatedFields(support) \in [Fields -> Nat]
         /\ \A j \in Fields : aggregator = "none" =>
              AggregatedFields(support)[j] =
                IF support.customVec # << >> THEN support.customVec[1][j]
                ELSE support.sample.customFields[j]
<1>1. /\ support.customVec \in Seq([Fields -> Nat])
      /\ support.sample.customFields \in [Fields -> Nat]
      /\ aggregator \in {"none", "sum"}
  BY DEF ShapeInv, Shapes, SupportShape, ProgramShape, NatSample
<1> DEFINE rows == support.customVec
           column(j) == [k \in DOMAIN rows |-> rows[k][j]]
           value(j) == IF aggregator = "sum" THEN aggregate(column(j))
                       ELSE IF column(j) # << >> THEN column(j)[1]
                       ELSE support.sample.customFields[j]
<1>2. AggregatedFields(support) = [j \in Fields |-> value(j)]
  BY DEF AggregatedFields
<1>3. ASSUME NEW j \in Fields
      PROVE  /\ value(j) \in Nat
             /\ aggregator = "none" =>
                  value(j) = IF rows # << >> THEN rows[1][j]
                             ELSE support.sample.customFields[j]
  <2>1. DOMAIN rows = 1 .. Len(rows) /\ Len(rows) \in Nat
    BY <1>1, LenProperties
  <2>2. \A k \in 1 .. Len(rows) : rows[k] \in [Fields -> Nat]
    BY <1>1, ElementOfSeq
  <2>3. column(j) \in [1 .. Len(rows) -> Nat]
    BY <2>1, <2>2
  <2>4. aggregate(column(j)) \in Nat
    <3> HIDE DEF column
    <3>1. IsFiniteSet(1 .. Len(rows))
      BY <2>1, FS_Interval
    <3>2. QED
      BY <2>3, <3>1, SumNat DEF aggregate
  <2>5. column(j) # << >> <=> rows # << >>
    <3>1. rows = << >> <=> Len(rows) = 0
      BY <1>1, EmptySeq
    <3>2. column(j) \in Seq(Nat) /\ Len(column(j)) = Len(rows)
      BY <2>1, <2>3
    <3> HIDE DEF column
    <3>3. column(j) = << >> <=> Len(column(j)) = 0
      BY <3>2, EmptySeq
    <3>4. QED
      BY <3>1, <3>2, <3>3
  <2>6. rows # << >> => column(j)[1] = rows[1][j] /\ column(j)[1] \in Nat
    <3>1. rows # << >> => 1 \in 1 .. Len(rows)
      BY <1>1, <2>1, EmptySeq
    <3>2. QED
      BY <2>1, <2>2, <3>1
  <2> HIDE DEF column
  <2>7. QED
    BY <1>1, <2>4, <2>5, <2>6
<1> HIDE DEF value
<1>4. QED
  BY <1>2, <1>3

\* The answer without its custom fields.
Completed == IF support.updated = 0 THEN support.sample ELSE Averaged(support)

\* The error is never thrown: either every sample is there, or terminate() was
\* called.
LEMMA AggregateRound ==
  ASSUME ShapeInv, Aggregate
  PROVE  /\ support' = [support EXCEPT
                          !.pc = "reply",
                          !.sample = [Completed EXCEPT
                                        !.customFields = AggregatedFields(support)]]
         /\ Completed \in NatSample
         /\ support'.sample \in NatSample
         /\ support'.pc = "reply" /\ support'.i = support.i
         /\ support'.updated = support.updated
         /\ support'.inconsistent = support.inconsistent
         /\ support'.customVec = support.customVec
         /\ support'.sample.customFields = AggregatedFields(support)
         /\ support'.sample.inconsistent = Completed.inconsistent
         /\ support'.sample.throughput = Completed.throughput
         /\ support'.sample.numTasks = Completed.numTasks
         /\ support'.sample.latency = Completed.latency
         /\ support'.sample.loadPercentage = Completed.loadPercentage
<1>1. support.updated = NumThreads \/ supportStop
  BY DEF ShapeInv, LoopInv, Aggregate
<1>2. support' = [support EXCEPT
                    !.pc = "reply",
                    !.sample = [Completed EXCEPT
                                  !.customFields = AggregatedFields(support)]]
  BY <1>1, ReportsAssumption DEF Aggregate, Completed
<1>3. Completed \in NatSample /\ AggregatedFields(support) \in [Fields -> Nat]
  BY AveragedSample, AggregatedNat DEF Completed, ShapeInv, Shapes, SupportShape
<1> DEFINE s == [Completed EXCEPT !.customFields = AggregatedFields(support)]
<1>4. /\ s \in NatSample
      /\ s.customFields = AggregatedFields(support)
      /\ s.inconsistent = Completed.inconsistent
      /\ s.throughput = Completed.throughput
      /\ s.numTasks = Completed.numTasks
      /\ s.latency = Completed.latency
      /\ s.loadPercentage = Completed.loadPercentage
  BY <1>3 DEF NatSample
<1>5. support' = [support EXCEPT !.pc = "reply", !.sample = s]
  BY <1>2
<1> HIDE DEF s
<1>6. /\ support'.sample = s
      /\ support'.pc = "reply" /\ support'.i = support.i
      /\ support'.updated = support.updated
      /\ support'.inconsistent = support.inconsistent
      /\ support'.customVec = support.customVec
  BY <1>5 DEF ShapeInv, Shapes, SupportShape
<1>7. QED
  BY <1>2, <1>3, <1>4, <1>6

\* Completing the answer keeps the types, whatever is missing.
LEMMA ShapeAggregate == ASSUME ShapeInv, Aggregate PROVE ShapeInv'
<1> USE DEF ShapeInv, Shapes
<1> DEFINE s == [Completed EXCEPT !.customFields = AggregatedFields(support)]
<1>1. /\ support' = [support EXCEPT !.pc = "reply", !.sample = s]
      /\ support'.sample \in NatSample /\ support'.pc = "reply"
      /\ support'.updated = support.updated
      /\ support'.inconsistent = support.inconsistent
      /\ support'.customVec = support.customVec
  BY AggregateRound
<1> HIDE DEF s
<1>2. ProgramShape' /\ MailboxShape' /\ AnswersShape'
  BY DEF Aggregate, OtherThanSupport, threadVars, configVars, handshakeVars, answers,
         ProgramShape, MailboxShape, AnswersShape
<1>3. SupportShape'
  <2>1. s \in NatSample
    BY <1>1 DEF SupportShape
  <2>2. QED
    BY <1>1, <2>1 DEF SupportShape
<1>4. LoopInv'
  <2>1. supportStop' = supportStop /\ support.pc = "aggregate"
    BY DEF Aggregate, OtherThanSupport
  <2>2. QED
    BY <1>1, <2>1 DEF LoopInv
<1>5. FreshInv'
  BY <1>1 DEF FreshInv
<1>6. QED
  BY <1>2, <1>3, <1>4, <1>5

\* Every step keeps the three.
LEMMA ShapeStep == ShapeInv /\ [Next]_vars => ShapeInv'
<1> SUFFICES ASSUME ShapeInv, [Next]_vars PROVE ShapeInv'
  OBVIOUS
<1>1. CASE Program
  BY <1>1, ShapeProgram
<1>2. CASE SupportCheck
  BY <1>2, ShapeCheck
<1>3. CASE SupportReceive
  BY <1>3, ShapeReceive
<1>4. CASE Collect
  BY <1>4, ShapeCollect
<1>5. CASE Aggregate
  BY <1>5, ShapeAggregate
<1>6. CASE Reply
  BY <1>6, ShapeReply
<1>7. CASE UNCHANGED vars
  BY <1>7 DEF vars, threadVars, handshakeVars, configVars, answers, ShapeInv, Shapes,
              ProgramShape, MailboxShape, SupportShape, AnswersShape, LoopInv, FreshInv
<1>8. QED
  BY <1>1, <1>2, <1>3, <1>4, <1>5, <1>6, <1>7 DEF Next, Program

LEMMA ShapeAlways == Spec => []ShapeInv
  BY ShapeInit, ShapeStep, PTL DEF Spec

\* Every variable has its type in every reachable state: in particular the
\* support thread never counts more inconsistent samples than it collected,
\* its loop stays within the vector of the threads, and the answer is a sample
\* whatever was measured and whichever threads did not answer.
THEOREM ReportsTyped == Spec => []TypeOK
<1>1. ShapeInv => TypeOK
  <2> SUFFICES ASSUME ShapeInv PROVE TypeOK
    OBVIOUS
  <2> USE DEF ShapeInv, Shapes
  <2>1. /\ customFields \in [Threads -> [Fields -> Nat]]
        /\ consolidate \in [Threads -> BOOLEAN] /\ begun \in [Threads -> BOOLEAN]
        /\ adjustThroughput \in BOOLEAN /\ aggregator \in {"none", "sum"}
        /\ inconsistentSample \in BOOLEAN /\ supportStop \in BOOLEAN
        /\ stores \in Nat
    BY DEF ProgramShape, MailboxShape
  <2>2. consolidatedSample \in [Threads -> Sample]
    BY NatSampleIsSample DEF MailboxShape
  <2>3. Seq(NatSample) \subseteq Seq(Sample)
    BY NatSampleIsSample
  <2>4. request \in Request /\ answered \in Request /\ received \in Seq(Sample)
    BY <2>3 DEF AnswersShape, NatRequest, Request
  <2>5. support.customVec \in Seq([Fields -> Int])
    <3>1. [Fields -> Nat] \subseteq [Fields -> Int]
      OBVIOUS
    <3>2. Seq([Fields -> Nat]) \subseteq Seq([Fields -> Int])
      BY <3>1
    <3>3. QED
      BY <3>2 DEF SupportShape
  <2>6. /\ support.updated \in 0 .. NumThreads /\ support.inconsistent \in 0 .. NumThreads
        /\ support.inconsistent <= support.updated
    BY ReportsAssumption DEF SupportShape, LoopInv
  <2>7. support \in [pc : {"check", "recv", "collect", "aggregate", "reply",
                           "exited", "failed"},
                     i : Threads, sample : Sample, updated : 0 .. NumThreads,
                     inconsistent : 0 .. NumThreads, customVec : Seq([Fields -> Int])]
    BY <2>5, <2>6, NatSampleIsSample DEF SupportShape
  <2>8. QED
    BY <2>1, <2>2, <2>4, <2>6, <2>7 DEF TypeOK
<1>2. QED
  BY <1>1, ShapeAlways, PTL

\* The aggregator is called with one value of every thread unless terminate()
\* has begun, and always when its result is sent: only terminate() lets the
\* loop pass a thread that did not answer.
THEOREM AggregatorSeesAllThreads == Spec => []AggregatedOverAllThreads
<1>1. ShapeInv => AggregatedOverAllThreads
  BY DEF ShapeInv, LoopInv, AggregatedOverAllThreads
<1>2. QED
  BY <1>1, ShapeAlways, PTL

-----------------------------------------------------------------------------
(* Means: the quotient of a sum by its number of summands lies between them. *)

\* Facts about products and quotients that the means need.
LEMMA ProductOfNext ==
  ASSUME NEW n \in Nat, NEW x \in Nat PROVE (n + 1) * x = n * x + x
  OBVIOUS

LEMMA ProductMonotone ==
  ASSUME NEW n \in Nat, NEW x \in Nat, NEW y \in Nat, x <= y PROVE n * x <= n * y
  OBVIOUS

LEMMA QuotientAbove ==
  ASSUME NEW n \in Nat \ {0}, NEW sum \in Nat, NEW x \in Nat, n * x <= sum
  PROVE  x <= sum \div n
  OBVIOUS

LEMMA QuotientBelow ==
  ASSUME NEW n \in Nat \ {0}, NEW sum \in Nat, NEW x \in Nat, sum <= n * x
  PROVE  sum \div n <= x
  OBVIOUS

\* sum has n summands, those of f at the arguments where the sample is
\* consistent: it is at least n times one of them, and at most n times one.
Spread(sum, n, taken, f) ==
  /\ n = 0 => sum = 0
  /\ n # 0 => \E a, b \in DOMAIN taken :
                /\ ~taken[a].inconsistent /\ ~taken[b].inconsistent
                /\ n * f[a] <= sum /\ sum <= n * f[b]

\* A consistent sample joins: it is the new smallest or the new largest, or
\* the ones there were still are.
LEMMA SpreadAppend ==
  ASSUME NEW taken \in Seq(NatSample), NEW s \in NatSample, ~s.inconsistent,
         NEW sum \in Nat, NEW n \in Nat, NEW f \in [DOMAIN taken -> Nat],
         NEW g \in [DOMAIN Append(taken, s) -> Nat],
         \A k \in DOMAIN taken : f[k] = g[k],
         Spread(sum, n, taken, f)
  PROVE  Spread(sum + g[Len(taken) + 1], n + 1, Append(taken, s), g)
<1> DEFINE more == Append(taken, s)
           last == Len(taken) + 1
           x == g[last]
<1>1. /\ DOMAIN taken = 1 .. Len(taken) /\ Len(taken) \in Nat
      /\ DOMAIN more = 1 .. last /\ last \in DOMAIN more
      /\ \A k \in DOMAIN taken : more[k] = taken[k] /\ k \in DOMAIN more
      /\ more[last] = s
  <2>1. /\ Len(taken) \in Nat /\ DOMAIN taken = 1 .. Len(taken)
    BY LenProperties
  <2>2. more \in Seq(NatSample) /\ Len(more) = last /\ more[last] = s
        /\ \A k \in 1 .. Len(taken) : more[k] = taken[k]
    BY AppendProperties
  <2>3. DOMAIN more = 1 .. last
    BY <2>2, LenProperties
  <2>4. QED
    BY <2>1, <2>2, <2>3
<1> HIDE DEF more
<1>2. x \in Nat
  BY <1>1 DEF more
<1> HIDE DEF last, x
<1>3. CASE n = 0
  <2>1. (n + 1) * x <= sum + x /\ sum + x <= (n + 1) * x
    BY <1>2, <1>3 DEF Spread
  <2>2. QED
    BY <1>1, <1>3, <2>1 DEF Spread, more, last, x
<1>4. CASE n # 0
  <2>1. PICK a, b \in DOMAIN taken :
          /\ ~taken[a].inconsistent /\ ~taken[b].inconsistent
          /\ n * f[a] <= sum /\ sum <= n * f[b]
    BY <1>4 DEF Spread
  <2>2. /\ a \in DOMAIN more /\ b \in DOMAIN more /\ last \in DOMAIN more
        /\ ~more[a].inconsistent /\ ~more[b].inconsistent /\ ~more[last].inconsistent
        /\ f[a] = g[a] /\ f[b] = g[b] /\ g[a] \in Nat /\ g[b] \in Nat /\ x = g[last]
    BY <1>1, <2>1 DEF x, more
  <2>3. \E c \in DOMAIN more : ~more[c].inconsistent /\ (n + 1) * g[c] <= sum + x
    <3> DEFINE y == g[a]
    <3>1. y \in Nat /\ n * y <= sum
      BY <2>1, <2>2
    <3> HIDE DEF y
    <3>2. n * y \in Nat /\ n * x \in Nat
      BY <1>2, <3>1, ProductNat
    <3>3. CASE y <= x
      <4>1. (n + 1) * y = n * y + y
        BY <3>1, ProductOfNext
      <4>2. (n + 1) * y <= sum + x
        BY <1>2, <3>1, <3>2, <3>3, <4>1
      <4>3. QED
        BY <2>2, <4>2 DEF y
    <3>4. CASE x <= y
      <4>1. (n + 1) * x = n * x + x /\ n * x <= n * y
        BY <1>2, <3>1, <3>4, ProductOfNext, ProductMonotone
      <4>2. (n + 1) * x <= sum + x
        <5> DEFINE p == n * x
                   q == n * y
        <5>1. p \in Nat /\ q \in Nat /\ p <= q /\ q <= sum /\ (n + 1) * x = p + x
          BY <3>1, <3>2, <4>1
        <5> HIDE DEF p, q
        <5>2. p + x <= sum + x
          BY <1>2, <5>1
        <5>3. QED
          BY <5>1, <5>2
      <4>3. QED
        BY <2>2, <4>2
    <3>5. QED
      BY <1>2, <3>1, <3>3, <3>4
  <2>4. \E c \in DOMAIN more : ~more[c].inconsistent /\ sum + x <= (n + 1) * g[c]
    <3> DEFINE y == g[b]
    <3>1. y \in Nat /\ sum <= n * y
      BY <2>1, <2>2
    <3> HIDE DEF y
    <3>2. n * y \in Nat /\ n * x \in Nat
      BY <1>2, <3>1, ProductNat
    <3>3. CASE x <= y
      <4>1. (n + 1) * y = n * y + y
        BY <3>1, ProductOfNext
      <4>2. sum + x <= (n + 1) * y
        BY <1>2, <3>1, <3>2, <3>3, <4>1
      <4>3. QED
        BY <2>2, <4>2 DEF y
    <3>4. CASE y <= x
      <4>1. (n + 1) * x = n * x + x /\ n * y <= n * x
        BY <1>2, <3>1, <3>4, ProductOfNext, ProductMonotone
      <4>2. sum + x <= (n + 1) * x
        <5> DEFINE p == n * x
                   q == n * y
        <5>1. p \in Nat /\ q \in Nat /\ q <= p /\ sum <= q /\ (n + 1) * x = p + x
          BY <3>1, <3>2, <4>1
        <5> HIDE DEF p, q
        <5>2. sum + x <= p + x
          BY <1>2, <5>1
        <5>3. QED
          BY <5>1, <5>2
      <4>3. QED
        BY <2>2, <4>2
    <3>5. QED
      BY <1>2, <3>1, <3>3, <3>4
  <2>5. n + 1 # 0
    OBVIOUS
  <2>6. Spread(sum + x, n + 1, more, g)
    BY <2>3, <2>4, <2>5 DEF Spread
  <2>7. QED
    BY <2>6 DEF more, last, x
<1>5. QED
  BY <1>3, <1>4

\* An inconsistent sample joins, and leaves the sum as it is.
LEMMA SpreadKept ==
  ASSUME NEW taken \in Seq(NatSample), NEW s \in NatSample,
         NEW sum, NEW n, NEW f \in [DOMAIN taken -> Nat],
         NEW g \in [DOMAIN Append(taken, s) -> Nat],
         \A k \in DOMAIN taken : f[k] = g[k],
         Spread(sum, n, taken, f)
  PROVE  Spread(sum, n, Append(taken, s), g)
<1> DEFINE more == Append(taken, s)
<1>1. \A k \in DOMAIN taken : more[k] = taken[k] /\ k \in DOMAIN more
  <2>1. /\ Len(taken) \in Nat /\ DOMAIN taken = 1 .. Len(taken)
    BY LenProperties
  <2>2. more \in Seq(NatSample) /\ Len(more) = Len(taken) + 1
        /\ \A k \in 1 .. Len(taken) : more[k] = taken[k]
    BY AppendProperties
  <2>3. DOMAIN more = 1 .. Len(taken) + 1
    BY <2>2, LenProperties
  <2>4. QED
    BY <2>1, <2>2, <2>3
<1> HIDE DEF more
<1>2. Spread(sum, n, more, g)
  BY <1>1 DEF Spread
<1>3. QED
  BY <1>2 DEF more

\* The mean of values that are spread lies between two of them.
LEMMA SpreadMean ==
  ASSUME NEW taken, NEW sum \in Nat, NEW n \in Nat \ {0},
         NEW f \in [DOMAIN taken -> Nat], Spread(sum, n, taken, f)
  PROVE  \E a, b \in DOMAIN taken :
           /\ ~taken[a].inconsistent /\ ~taken[b].inconsistent
           /\ f[a] <= sum \div n /\ sum \div n <= f[b]
<1>1. PICK a, b \in DOMAIN taken :
        /\ ~taken[a].inconsistent /\ ~taken[b].inconsistent
        /\ n * f[a] <= sum /\ sum <= n * f[b]
  BY DEF Spread
<1>2. f[a] \in Nat /\ f[b] \in Nat
  OBVIOUS
<1>3. f[a] <= sum \div n /\ sum \div n <= f[b]
  BY <1>1, <1>2, QuotientAbove, QuotientBelow
<1>4. QED
  BY <1>1, <1>3

-----------------------------------------------------------------------------
(* The partial answer and the samples taken for it. *)

Throughputs(taken) == [k \in DOMAIN taken |-> taken[k].throughput]
Counts(taken) == [k \in DOMAIN taken |-> taken[k].numTasks]
Loads(taken) == [k \in DOMAIN taken |-> taken[k].loadPercentage]
Means(taken) == [k \in DOMAIN taken |-> taken[k].latency \div taken[k].numTasks]

\* n samples, bad of them inconsistent.
Counted(n, bad, taken) ==
  /\ Len(taken) = n
  /\ \A k \in DOMAIN taken : taken[k].numTasks > 0
  /\ bad = n <=> \A k \in DOMAIN taken : taken[k].inconsistent

\* The sums so far.
PartSums(sum, good, taken) ==
  /\ ~sum.inconsistent
  /\ sum.throughput = SumOver(Throughputs(taken))
  /\ sum.numTasks = SumOver(Counts(taken))
  /\ Spread(sum.latency, good, taken, Means(taken))
  /\ Spread(sum.loadPercentage, good, taken, Loads(taken))

\* An empty answer sums up nothing.
LEMMA NothingTaken ==
  ASSUME NEW sum, sum = EmptySample
  PROVE  Counted(0, 0, << >>) /\ PartSums(sum, 0, << >>)
<1>1. Len(<< >>) = 0 /\ DOMAIN << >> = {}
  OBVIOUS
<1>2. Counted(0, 0, << >>)
  BY <1>1 DEF Counted
<1>3. SumOver(Throughputs(<< >>)) = 0 /\ SumOver(Counts(<< >>)) = 0
  <2>1. Throughputs(<< >>) \in [{} -> Nat] /\ Counts(<< >>) \in [{} -> Nat]
    BY <1>1 DEF Throughputs, Counts
  <2>2. IsFiniteSet({})
    BY FS_EmptySet
  <2>3. QED
    BY <2>1, <2>2, SumZero
<1>4. /\ ~sum.inconsistent /\ sum.throughput = 0 /\ sum.numTasks = 0
      /\ sum.latency = 0 /\ sum.loadPercentage = 0
  BY DEF EmptySample
<1>5. QED
  BY <1>2, <1>3, <1>4 DEF PartSums, Spread

\* The sequence with one sample more.
LEMMA Longer ==
  ASSUME NEW taken \in Seq(NatSample), NEW s \in NatSample
  PROVE  /\ Append(taken, s) \in Seq(NatSample) /\ Len(taken) \in Nat
         /\ DOMAIN taken = 1 .. Len(taken)
         /\ Len(Append(taken, s)) = Len(taken) + 1
         /\ DOMAIN Append(taken, s) = 1 .. Len(taken) + 1
         /\ \A k \in DOMAIN taken : /\ Append(taken, s)[k] = taken[k]
                                    /\ k \in DOMAIN Append(taken, s)
         /\ Append(taken, s)[Len(taken) + 1] = s
         /\ Len(taken) + 1 \in DOMAIN Append(taken, s)
         /\ \A k \in DOMAIN Append(taken, s) : k \in DOMAIN taken \/ k = Len(taken) + 1
<1> DEFINE more == Append(taken, s)
<1>1. Len(taken) \in Nat /\ DOMAIN taken = 1 .. Len(taken)
  BY LenProperties
<1>2. /\ more \in Seq(NatSample) /\ Len(more) = Len(taken) + 1
      /\ more[Len(taken) + 1] = s
      /\ \A k \in 1 .. Len(taken) : more[k] = taken[k]
  BY AppendProperties
<1>3. DOMAIN more = 1 .. Len(taken) + 1
  BY <1>2, LenProperties
<1> HIDE DEF more
<1>4. /\ \A k \in DOMAIN taken : k \in DOMAIN more
      /\ Len(taken) + 1 \in DOMAIN more
      /\ \A k \in DOMAIN more : k \in DOMAIN taken \/ k = Len(taken) + 1
  BY <1>1, <1>3
<1>5. QED
  BY <1>1, <1>2, <1>3, <1>4 DEF more

\* One sample more is counted.
LEMMA CountedAppend ==
  ASSUME NEW taken \in Seq(NatSample), NEW s \in NatSample, s.numTasks > 0,
         NEW n \in Nat, NEW bad \in Nat, bad <= n, Counted(n, bad, taken)
  PROVE  Counted(n + 1, bad + (IF s.inconsistent THEN 1 ELSE 0), Append(taken, s))
<1> DEFINE more == Append(taken, s)
<1>1. /\ Len(more) = Len(taken) + 1
      /\ \A k \in DOMAIN taken : more[k] = taken[k] /\ k \in DOMAIN more
      /\ more[Len(taken) + 1] = s
      /\ Len(taken) + 1 \in DOMAIN more
      /\ \A k \in DOMAIN more : k \in DOMAIN taken \/ k = Len(taken) + 1
  BY Longer
<1> HIDE DEF more
<1>2. \A k \in DOMAIN more : more[k].numTasks > 0
  BY <1>1 DEF Counted
<1>3. (\A k \in DOMAIN more : more[k].inconsistent)
      <=> s.inconsistent /\ \A k \in DOMAIN taken : taken[k].inconsistent
  BY <1>1
<1>4. bad + (IF s.inconsistent THEN 1 ELSE 0) = n + 1 <=> s.inconsistent /\ bad = n
  OBVIOUS
<1>5. QED
  BY <1>1, <1>2, <1>3, <1>4 DEF Counted, more

\* One sample more is added.
LEMMA PartSumsAppend ==
  ASSUME NEW taken \in Seq(NatSample), NEW s \in NatSample, s.numTasks > 0,
         \A k \in DOMAIN taken : taken[k].numTasks > 0,
         NEW sum \in NatSample, NEW good \in Nat, PartSums(sum, good, taken)
  PROVE  PartSums(Summed(sum, s), IF s.inconsistent THEN good ELSE good + 1,
                  Append(taken, s))
<1> DEFINE more == Append(taken, s)
           last == Len(taken) + 1
           S == DOMAIN taken
           T == DOMAIN more
<1>1. /\ more \in Seq(NatSample) /\ S \in SUBSET T /\ last \in T /\ last \notin S
      /\ \A k \in T : k = last \/ k \in S
      /\ \A k \in S : more[k] = taken[k]
      /\ more[last] = s
  BY Longer
<1>3. /\ \A k \in S : taken[k] \in NatSample /\ taken[k].numTasks > 0
      /\ \A k \in T : more[k] \in NatSample /\ more[k].numTasks > 0
  <2>1. \A k \in S : taken[k] \in NatSample
    BY Longer, ElementOfSeq
  <2>2. QED
    BY <1>1, <2>1
<1> HIDE DEF more, last, S, T
<1>4. /\ Throughputs(taken) \in [S -> Nat] /\ Counts(taken) \in [S -> Nat]
      /\ Loads(taken) \in [S -> Nat] /\ Means(taken) \in [S -> Nat]
  <2>1. \A k \in S : taken[k].latency \div taken[k].numTasks \in Nat
    BY <1>3, QuotientNat DEF NatSample
  <2>2. QED
    BY <1>3, <2>1 DEF Throughputs, Counts, Loads, Means, NatSample, S
<1>5. /\ Throughputs(more) \in [T -> Nat] /\ Counts(more) \in [T -> Nat]
      /\ Loads(more) \in [T -> Nat] /\ Means(more) \in [T -> Nat]
  <2>1. \A k \in T : more[k].latency \div more[k].numTasks \in Nat
    BY <1>3, QuotientNat DEF NatSample
  <2>2. QED
    BY <1>3, <2>1 DEF Throughputs, Counts, Loads, Means, NatSample, T
<1>6. \A k \in S : /\ Throughputs(taken)[k] = Throughputs(more)[k]
                   /\ Counts(taken)[k] = Counts(more)[k]
                   /\ Loads(taken)[k] = Loads(more)[k]
                   /\ Means(taken)[k] = Means(more)[k]
  BY <1>1 DEF Throughputs, Counts, Loads, Means, S, T
<1>7. /\ Throughputs(more)[last] = s.throughput /\ Counts(more)[last] = s.numTasks
      /\ Loads(more)[last] = s.loadPercentage
      /\ Means(more)[last] = s.latency \div s.numTasks
  BY <1>1 DEF Throughputs, Counts, Loads, Means, T
<1>8. /\ SumOver(Throughputs(more)) = SumOver(Throughputs(taken)) + s.throughput
      /\ SumOver(Counts(more)) = SumOver(Counts(taken)) + s.numTasks
  <2>1. ASSUME NEW f \in [S -> Nat], NEW g \in [T -> Nat], \A k \in S : f[k] = g[k]
        PROVE  SumOver(g) = SumOver(f) + g[last]
    <3>1. /\ Len(taken) \in Nat /\ S = 1 .. Len(taken) /\ T = 1 .. Len(taken) + 1
      BY Longer DEF S, T, more
    <3>2. QED
      BY <2>1, <3>1, SumLonger DEF last
  <2>2. SumOver(Throughputs(more)) = SumOver(Throughputs(taken)) + Throughputs(more)[last]
    BY <1>4, <1>5, <1>6, <2>1
  <2>3. SumOver(Counts(more)) = SumOver(Counts(taken)) + Counts(more)[last]
    BY <1>4, <1>5, <1>6, <2>1
  <2>4. QED
    BY <1>7, <2>2, <2>3
<1> DEFINE new == Summed(sum, s)
<1>9. /\ new.inconsistent = sum.inconsistent
      /\ new.throughput = sum.throughput + s.throughput
      /\ new.numTasks = sum.numTasks + s.numTasks
      /\ new.loadPercentage =
           sum.loadPercentage + (IF s.inconsistent THEN 0 ELSE s.loadPercentage)
      /\ new.latency =
           sum.latency + (IF s.inconsistent THEN 0 ELSE s.latency \div s.numTasks)
  BY SummedSample
<1> HIDE DEF new
<1>10. ~new.inconsistent /\ new.throughput = SumOver(Throughputs(more))
       /\ new.numTasks = SumOver(Counts(more))
  BY <1>8, <1>9 DEF PartSums
<1>11. sum.latency \in Nat /\ sum.loadPercentage \in Nat
  BY DEF NatSample
<1>12. CASE s.inconsistent
  <2>1. new.latency = sum.latency /\ new.loadPercentage = sum.loadPercentage
    BY <1>9, <1>11, <1>12
  <2>2. Spread(sum.latency, good, more, Means(more))
    BY <1>4, <1>5, <1>6, SpreadKept DEF PartSums, more, S, T
  <2>3. Spread(sum.loadPercentage, good, more, Loads(more))
    BY <1>4, <1>5, <1>6, SpreadKept DEF PartSums, more, S, T
  <2>4. QED
    BY <1>10, <1>12, <2>1, <2>2, <2>3 DEF PartSums, new, more
<1>13. CASE ~s.inconsistent
  <2>1. /\ new.latency = sum.latency + Means(more)[last]
        /\ new.loadPercentage = sum.loadPercentage + Loads(more)[last]
    BY <1>7, <1>9, <1>13
  <2>2. Spread(new.latency, good + 1, more, Means(more))
    BY <1>4, <1>5, <1>6, <1>11, <1>13, <2>1, SpreadAppend DEF PartSums, more, last, S, T
  <2>3. Spread(new.loadPercentage, good + 1, more, Loads(more))
    BY <1>4, <1>5, <1>6, <1>11, <1>13, <2>1, SpreadAppend DEF PartSums, more, last, S, T
  <2>4. QED
    BY <1>10, <1>13, <2>2, <2>3 DEF PartSums, new, more
<1>14. QED
  BY <1>12, <1>13

\* What the support thread has collected is what it took for this request.
TakenInv ==
  /\ support.pc \in {"collect", "aggregate", "reply"} =>
       Counted(support.updated, support.inconsistent, request.taken)
  /\ support.pc \in {"collect", "aggregate"} =>
       PartSums(support.sample, Reliable(support), request.taken)

LEMMA TakenInit == Init => TakenInv
  BY DEF Init, SupportAt, TakenInv

\* The program does not touch the answer.
LEMMA ProgramAside ==
  ASSUME Program
  PROVE  UNCHANGED <<support, request, answered, received, adjustThroughput, aggregator>>
  BY DEF Program, FirstBegin, StoreSample, storeCustomValue, markInconsistentSamples,
         SetStop, OtherThanProgram, configVars, answers

\* Every step keeps the sums those of the samples taken.
LEMMA TakenStep == ShapeInv /\ TakenInv /\ [Next]_vars => TakenInv'
<1> SUFFICES ASSUME ShapeInv, TakenInv, [Next]_vars PROVE TakenInv'
  OBVIOUS
<1>1. CASE Program \/ UNCHANGED vars
  <2>1. support' = support /\ request' = request
    BY <1>1, ProgramAside DEF vars, answers
  <2>2. QED
    BY <2>1 DEF TakenInv, Reliable
<1>2. CASE SupportCheck
  BY <1>2 DEF SupportCheck, SupportAt, TakenInv
<1>3. CASE SupportReceive
  <2>1. support' = SupportAt("collect") /\ request'.taken = << >>
    BY <1>3 DEF SupportReceive, NoRequest
  <2>2. /\ support'.updated = 0 /\ support'.inconsistent = 0
        /\ support'.sample = EmptySample
    BY <2>1, FreshAnswer
  <2>3. Reliable(support') = 0
    BY <2>2 DEF Reliable
  <2>4. QED
    BY <2>1, <2>2, <2>3, NothingTaken DEF TakenInv
<1>4. CASE Collect
  <2> DEFINE i == support.i
             s == consolidatedSample[i]
             n == support.updated
             bad == support.inconsistent
             taken == request.taken
  <2>1. /\ support.pc = "collect" /\ support'.pc \in {"collect", "aggregate"}
        /\ Skips(i) \/ Takes(i, s)
    BY <1>4, CollectRound DEF ShapeInv, Advances, Collect
  <2>2. /\ Counted(n, bad, taken)
        /\ PartSums(support.sample, Reliable(support), taken)
    BY <2>1 DEF TakenInv
  <2>3. CASE Skips(i)
    BY <2>1, <2>2, <2>3 DEF TakenInv, Skips, Reliable
  <2>4. CASE Takes(i, s)
    <3>1. /\ s \in NatSample /\ s.numTasks > 0
      <4>1. i \in Threads /\ i >= i
        BY ThreadNumber DEF ShapeInv, Shapes, SupportShape
      <4>2. QED
        BY <2>1, <2>4, <4>1 DEF ShapeInv, Shapes, MailboxShape, FreshInv, Takes
    <3>2. /\ taken \in Seq(NatSample) /\ support.sample \in NatSample
          /\ n \in Nat /\ bad \in Nat /\ bad <= n
          /\ Reliable(support) \in Nat /\ Reliable(support) = n - bad
      BY ReliableNat DEF ShapeInv, Shapes, SupportShape, AnswersShape, NatRequest,
                         LoopInv, Reliable
    <3>3. /\ support'.sample = Summed(support.sample, s)
          /\ support'.updated = n + 1
          /\ support'.inconsistent = bad + (IF s.inconsistent THEN 1 ELSE 0)
          /\ request'.taken = Append(taken, s)
      BY <2>4 DEF Takes
    <3> DEFINE good == Reliable(support)
    <3>4. Reliable(support') = IF s.inconsistent THEN good ELSE good + 1
      BY <3>2, <3>3 DEF Reliable
    <3> HIDE DEF i, s, n, bad, taken, good
    <3>5. Counted(n + 1, bad + (IF s.inconsistent THEN 1 ELSE 0), Append(taken, s))
      BY <2>2, <3>1, <3>2, CountedAppend
    <3>6. PartSums(Summed(support.sample, s), IF s.inconsistent THEN good ELSE good + 1,
                   Append(taken, s))
      BY <2>2, <3>1, <3>2, PartSumsAppend DEF Counted, good
    <3>7. QED
      BY <3>3, <3>4, <3>5, <3>6 DEF TakenInv
  <2>5. QED
    BY <2>1, <2>3, <2>4
<1>5. CASE Aggregate
  <2>1. /\ support'.pc = "reply" /\ support'.updated = support.updated
        /\ support'.inconsistent = support.inconsistent
        /\ request' = request /\ support.pc = "aggregate"
    BY <1>5, AggregateRound DEF Aggregate, answers
  <2>2. QED
    BY <2>1 DEF TakenInv
<1>6. CASE Reply
  BY <1>6 DEF Reply, SupportAt, TakenInv
<1>7. QED
  BY <1>1, <1>2, <1>3, <1>4, <1>5, <1>6 DEF Next, Program

-----------------------------------------------------------------------------
(* What the answer says of the samples behind it. *)

ReliableIn(taken) == {s \in ToSet(taken) : ~s.inconsistent}

\* The answer of a request, flag telling whether markInconsistentSamples() has
\* been called by now.
Truthful(sample, req, flag) ==
  /\ ~sample.inconsistent =>
       /\ Within(sample.latency,
                 {s.latency \div s.numTasks : s \in ReliableIn(req.taken)})
       /\ Within(sample.loadPercentage,
                 {s.loadPercentage : s \in ReliableIn(req.taken)})
  /\ req.marked \/ ReliableIn(req.taken) = {} => sample.inconsistent
  /\ sample.inconsistent => flag \/ ReliableIn(req.taken) = {}
  /\ Len(req.taken) = NumThreads
  /\ sample.throughput = SumOver(Throughputs(req.taken))
  /\ sample.numTasks = SumOver(Counts(req.taken))

AnswerInv ==
  /\ request.marked => inconsistentSample
  /\ support.pc = "reply" /\ ~supportStop =>
       Truthful(support.sample, request, inconsistentSample)
  /\ received # << >> => Truthful(Last(received), answered, inconsistentSample)

LEMMA AnswerInit == Init => AnswerInv
  BY DEF Init, SupportAt, NoRequest, AnswerInv

\* A flag once raised stays so.
LEMMA TruthfulStays ==
  ASSUME NEW sample, NEW req, NEW f, NEW g, f => g, Truthful(sample, req, f)
  PROVE  Truthful(sample, req, g)
  BY DEF Truthful

\* The completed answer is right about the samples taken.
LEMMA TruthfulAggregate ==
  ASSUME ShapeInv, TakenInv, AnswerInv, Aggregate, ~supportStop
  PROVE  Truthful(support'.sample, request, inconsistentSample)
<1> DEFINE taken == request.taken
           n == support.updated
           sum == support.sample
           good == Reliable(support)
           answer == support'.sample
<1>1. /\ n = NumThreads /\ n # 0 /\ support.pc = "aggregate" /\ n \in Nat
      /\ support.inconsistent \in Nat
  BY ReportsAssumption DEF ShapeInv, Shapes, SupportShape, LoopInv, Aggregate
<1>2. Counted(n, support.inconsistent, taken) /\ PartSums(sum, good, taken)
  BY <1>1 DEF TakenInv
<1>3. /\ answer.inconsistent = Averaged(support).inconsistent
      /\ answer.throughput = Averaged(support).throughput
      /\ answer.numTasks = Averaged(support).numTasks
      /\ answer.latency = Averaged(support).latency
      /\ answer.loadPercentage = Averaged(support).loadPercentage
  BY <1>1, AggregateRound DEF Completed
<1>4. answer.throughput = sum.throughput
  BY <1>1, <1>3, AveragedSample DEF AdjustedThroughput
<1>5. answer.inconsistent = Unreliable(support) /\ answer.numTasks = sum.numTasks
  <2>1. ~sum.inconsistent
    BY <1>2 DEF PartSums
  <2>2. /\ Averaged(support).inconsistent =
             IF Unreliable(support) THEN TRUE ELSE sum.inconsistent
        /\ Averaged(support).numTasks = sum.numTasks
    BY <1>1, AveragedSample
  <2>3. sum.inconsistent \in BOOLEAN /\ Unreliable(support) \in BOOLEAN
    BY DEF ShapeInv, Shapes, SupportShape, ProgramShape, NatSample, Unreliable
  <2> HIDE DEF sum, answer
  <2>4. QED
    BY <1>3, <2>1, <2>2, <2>3
<1>6. /\ taken \in Seq(NatSample) /\ sum \in NatSample
  BY DEF ShapeInv, Shapes, SupportShape, AnswersShape, NatRequest
<1>7. support.inconsistent = n <=> ReliableIn(taken) = {}
  <2>1. ToSet(taken) = {taken[k] : k \in DOMAIN taken}
    BY DEF ToSet
  <2>2. (\A k \in DOMAIN taken : taken[k].inconsistent) <=> ReliableIn(taken) = {}
    BY <2>1, Zenon DEF ReliableIn
  <2>3. QED
    BY <1>2, <2>2 DEF Counted
<1>8. ASSUME ~answer.inconsistent
      PROVE  /\ Within(answer.latency,
                       {s.latency \div s.numTasks : s \in ReliableIn(taken)})
             /\ Within(answer.loadPercentage,
                       {s.loadPercentage : s \in ReliableIn(taken)})
  <2>1. ~Unreliable(support)
    BY <1>5, <1>8
  <2>2. good \in Nat \ {0}
    BY <2>1, ReliableNat
  <2>3. answer.latency = sum.latency \div good
        /\ answer.loadPercentage = sum.loadPercentage \div good
    BY <1>1, <1>3, <2>1, AveragedSample
  <2>4. DOMAIN taken = 1 .. Len(taken) /\ \A k \in DOMAIN taken : taken[k] \in NatSample
    BY <1>6, LenProperties, ElementOfSeq
  <2>5. sum.latency \in Nat /\ sum.loadPercentage \in Nat
    BY <1>6 DEF NatSample
  <2>6. Means(taken) \in [DOMAIN taken -> Nat] /\ Loads(taken) \in [DOMAIN taken -> Nat]
    <3>1. \A k \in DOMAIN taken : taken[k].latency \div taken[k].numTasks \in Nat
      BY <1>2, <2>4, QuotientNat DEF NatSample, Counted
    <3>2. QED
      BY <2>4, <3>1 DEF Means, Loads, NatSample
  <2> HIDE DEF taken, good, sum, answer
  <2>7. ASSUME NEW k \in DOMAIN taken, ~taken[k].inconsistent
        PROVE  /\ Means(taken)[k] \in
                    {s.latency \div s.numTasks : s \in ReliableIn(taken)}
               /\ Loads(taken)[k] \in {s.loadPercentage : s \in ReliableIn(taken)}
    <3>1. taken[k] \in ReliableIn(taken)
      BY <2>7 DEF ReliableIn, ToSet
    <3>2. /\ Means(taken)[k] = taken[k].latency \div taken[k].numTasks
          /\ Loads(taken)[k] = taken[k].loadPercentage
      BY DEF Means, Loads
    <3>3. QED
      BY <3>1, <3>2
  <2>8. Within(answer.latency, {s.latency \div s.numTasks : s \in ReliableIn(taken)})
    <3>1. Spread(sum.latency, good, taken, Means(taken))
      BY <1>2 DEF PartSums
    <3>2. PICK a, b \in DOMAIN taken :
            /\ ~taken[a].inconsistent /\ ~taken[b].inconsistent
            /\ Means(taken)[a] <= sum.latency \div good
            /\ sum.latency \div good <= Means(taken)[b]
      BY <2>2, <2>5, <2>6, <3>1, SpreadMean
    <3>3. QED
      BY <2>3, <2>7, <3>2 DEF Within
  <2>9. Within(answer.loadPercentage, {s.loadPercentage : s \in ReliableIn(taken)})
    <3>1. Spread(sum.loadPercentage, good, taken, Loads(taken))
      BY <1>2 DEF PartSums
    <3>2. PICK a, b \in DOMAIN taken :
            /\ ~taken[a].inconsistent /\ ~taken[b].inconsistent
            /\ Loads(taken)[a] <= sum.loadPercentage \div good
            /\ sum.loadPercentage \div good <= Loads(taken)[b]
      BY <2>2, <2>5, <2>6, <3>1, SpreadMean
    <3>3. QED
      BY <2>3, <2>7, <3>2 DEF Within
  <2>10. QED
    BY <2>8, <2>9
<1>9. /\ request.marked \/ ReliableIn(taken) = {} => answer.inconsistent
      /\ answer.inconsistent => inconsistentSample \/ ReliableIn(taken) = {}
  BY <1>5, <1>7 DEF Unreliable, AnswerInv
<1>10. /\ Len(taken) = NumThreads
       /\ answer.throughput = SumOver(Throughputs(taken))
       /\ answer.numTasks = SumOver(Counts(taken))
  BY <1>1, <1>2, <1>4, <1>5 DEF Counted, PartSums
<1> HIDE DEF taken, answer
<1>11. QED
  BY <1>8, <1>9, <1>10 DEF Truthful, taken, answer

\* The right answer stays so until it is sent, and when it has arrived.
LEMMA AnswerStep == ShapeInv /\ TakenInv /\ AnswerInv /\ [Next]_vars => AnswerInv'
<1> SUFFICES ASSUME ShapeInv, TakenInv, AnswerInv, [Next]_vars PROVE AnswerInv'
  OBVIOUS
<1>1. (inconsistentSample => inconsistentSample') /\ (~supportStop' => ~supportStop)
  BY DEF Next, FirstBegin, StoreSample, storeCustomValue, markInconsistentSamples,
         SetStop, SupportCheck, SupportReceive, Collect, Aggregate, Reply,
         OtherThanSupport, vars
<1>2. CASE UNCHANGED <<answered, received>>
  <2>1. received' # << >> => Truthful(Last(received'), answered', inconsistentSample')
    <3> SUFFICES ASSUME received # << >>
                 PROVE  Truthful(Last(received), answered, inconsistentSample')
      BY <1>2
    <3>1. Truthful(Last(received), answered, inconsistentSample)
      BY DEF AnswerInv
    <3>2. QED
      BY <1>1, <3>1, TruthfulStays
  <2>2. CASE Program \/ UNCHANGED vars
    <3>1. support' = support /\ request' = request
      BY <2>2, ProgramAside DEF vars, answers
    <3>2. support.pc = "reply" /\ ~supportStop' =>
            Truthful(support.sample, request, inconsistentSample')
      BY <1>1, TruthfulStays DEF AnswerInv
    <3>3. QED
      BY <1>1, <2>1, <3>1, <3>2 DEF AnswerInv
  <2>3. CASE SupportCheck \/ SupportReceive \/ Collect
    <3>1. support'.pc # "reply"
      <4>1. CASE SupportCheck \/ SupportReceive
        BY <4>1 DEF SupportCheck, SupportReceive, SupportAt
      <4>2. CASE Collect
        BY <4>2, CollectRound DEF ShapeInv, Advances
      <4>3. QED
        BY <2>3, <4>1, <4>2
    <3>2. request'.marked => inconsistentSample'
      <4>1. CASE SupportCheck
        BY <1>1, <4>1 DEF SupportCheck, answers, AnswerInv
      <4>2. CASE SupportReceive
        BY <1>1, <4>2 DEF SupportReceive, NoRequest
      <4>3. CASE Collect
        BY <1>1, <4>3, CollectRound DEF ShapeInv, Skips, Takes, AnswerInv
      <4>4. QED
        BY <2>3, <4>1, <4>2, <4>3
    <3>3. QED
      BY <2>1, <3>1, <3>2 DEF AnswerInv
  <2>4. CASE Aggregate
    <3>1. request' = request /\ inconsistentSample' = inconsistentSample
      BY <2>4 DEF Aggregate, OtherThanSupport, answers
    <3>2. ~supportStop' => Truthful(support'.sample, request, inconsistentSample)
      BY <1>1, <2>4, TruthfulAggregate
    <3>3. QED
      BY <2>1, <3>1, <3>2 DEF AnswerInv
  <2>5. CASE Reply
    BY <2>1, <2>5 DEF Reply, SupportAt, NoRequest, AnswerInv
  <2>6. QED
    BY <2>2, <2>3, <2>4, <2>5 DEF Next, Program
<1>3. CASE ~UNCHANGED <<answered, received>>
  <2>1. Reply /\ ~supportStop
    BY <1>3, ProgramAside DEF Next, Program, SupportCheck, SupportReceive, Collect,
                              Aggregate, Reply, vars, answers
  <2>2. /\ support.sample \in NatSample /\ received \in Seq(NatSample)
        /\ support.pc = "reply"
    BY <2>1 DEF ShapeInv, Shapes, SupportShape, AnswersShape, Reply
  <2>3. /\ received' = Append(received, support.sample) /\ answered' = request
        /\ request' = NoRequest /\ support'.pc = "check"
        /\ inconsistentSample' = inconsistentSample
    BY <2>1, <2>2, CopyIsSame DEF Reply, SupportAt, OtherThanSupport
  <2>4. Last(received') = support.sample
    <3>1. /\ Len(received') = Len(received) + 1
          /\ received'[Len(received) + 1] = support.sample
      BY <2>2, <2>3, AppendProperties
    <3>2. QED
      BY <3>1 DEF Last
  <2>5. Truthful(support.sample, request, inconsistentSample)
    BY <2>1, <2>2 DEF AnswerInv
  <2>6. QED
    BY <2>3, <2>4, <2>5 DEF AnswerInv, NoRequest
<1>4. QED
  BY <1>2, <1>3

LEMMA AnswersAlways == Spec => []AnswerInv
<1>1. ShapeInv /\ TakenInv /\ AnswerInv /\ [Next]_vars => TakenInv' /\ AnswerInv'
  BY TakenStep, AnswerStep
<1>2. QED
  BY <1>1, TakenInit, AnswerInit, ShapeAlways, PTL DEF Spec

\* The latency and the load of a consistent answer lie between those of the
\* threads with consistent samples, for every number of threads: the division
\* is by the number of values that were added, and never by zero.
THEOREM AveragesAreMeans == Spec => []AveragesWithinSamples
<1>1. AnswerInv => AveragesWithinSamples
  BY DEF AnswerInv, Truthful, AveragesWithinSamples, ReliableOnes, ReliableIn
<1>2. QED
  BY <1>1, AnswersAlways, PTL

\* An answer is inconsistent when the request came after
\* markInconsistentSamples() or no thread had reliable values, and only if the
\* application has called it or no thread had.
THEOREM FlagIsRight == Spec => []InconsistentWhenUnreliable
<1>1. AnswerInv => InconsistentWhenUnreliable
  BY DEF AnswerInv, Truthful, InconsistentWhenUnreliable, ReliableOnes, ReliableIn
<1>2. QED
  BY <1>1, AnswersAlways, PTL

\* Throughput and tasks of every answer are the sums over all the threads,
\* inconsistent ones included, with both values of adjustThroughput.
THEOREM SumsAreComplete == Spec => []ThroughputOfAllThreads
<1>1. AnswerInv => ThroughputOfAllThreads
  BY DEF AnswerInv, Truthful, ThroughputOfAllThreads, Throughputs, Counts
<1>2. QED
  BY <1>1, AnswersAlways, PTL

-----------------------------------------------------------------------------
(* The custom values of the first thread, which is the one that is reported  *)
(* without an aggregator: a value moves from the running sample to the       *)
(* stored one, to the row of the answer and to the monitor, and at each of   *)
(* these places it is newer than those further on.                           *)

Running(j) == customFields[0][j]
Waiting(j) == consolidatedSample[0].customFields[j]
Row(j) == IF support.customVec # << >> THEN support.customVec[1][j] ELSE 0
Reported(j) == {received[k].customFields[j] : k \in DOMAIN received}

\* x was stored after y, or not at all.
Newer(x, y) == x = 0 \/ y < x

FieldInv(j) ==
  /\ Running(j) <= stores /\ Waiting(j) <= stores /\ Row(j) <= stores
  /\ Newer(Running(j), Waiting(j)) /\ Newer(Running(j), Row(j))
  /\ Newer(Waiting(j), Row(j))
  /\ \A y \in Reported(j) : /\ y <= stores /\ Newer(Running(j), y)
                            /\ Newer(Waiting(j), y) /\ Newer(Row(j), y)
  /\ support.pc = "reply" => support.sample.customFields[j] = Row(j)

FieldsInv == aggregator = "none" /\ ~supportStop => \A j \in Fields : FieldInv(j)

\* All these values are naturals.
LEMMA FieldTypes ==
  ASSUME ShapeInv, NEW j \in Fields
  PROVE  /\ Running(j) \in Nat /\ Waiting(j) \in Nat /\ Row(j) \in Nat /\ stores \in Nat
         /\ Reported(j) \subseteq Nat /\ 0 \in Threads
<1> USE DEF ShapeInv, Shapes
<1>1. 0 \in Threads /\ stores \in Nat
  BY ReportsAssumption DEF Threads, ProgramShape
<1>2. Running(j) \in Nat
  BY <1>1 DEF Running, ProgramShape
<1>3. Waiting(j) \in Nat
  BY <1>1 DEF Waiting, MailboxShape, NatSample
<1>4. Row(j) \in Nat
  <2>1. support.customVec \in Seq([Fields -> Nat])
    BY DEF SupportShape
  <2>2. CASE support.customVec # << >>
    <3>1. 1 \in 1 .. Len(support.customVec)
      BY <2>1, <2>2, EmptySeq
    <3>2. support.customVec[1] \in [Fields -> Nat]
      BY <2>1, <3>1, ElementOfSeq
    <3>3. QED
      BY <2>2, <3>2 DEF Row
  <2>3. CASE support.customVec = << >>
    BY <2>3 DEF Row
  <2>4. QED
    BY <2>2, <2>3
<1>5. Reported(j) \subseteq Nat
  <2>1. received \in Seq(NatSample)
    BY DEF AnswersShape
  <2>2. \A k \in DOMAIN received : received[k] \in NatSample
    BY <2>1, LenProperties, ElementOfSeq
  <2>3. \A k \in DOMAIN received : received[k].customFields[j] \in Nat
    BY <2>2 DEF NatSample
  <2>4. QED
    BY <2>3 DEF Reported
<1>6. QED
  BY <1>1, <1>2, <1>3, <1>4, <1>5

\* Nothing has been stored at the beginning.
LEMMA FieldsInit == Init => FieldsInv
<1> SUFFICES ASSUME Init, NEW j \in Fields PROVE FieldInv(j)
  BY DEF FieldsInv
<1>1. 0 \in Threads
  BY ReportsAssumption DEF Threads
<1>2. /\ Running(j) = 0 /\ Waiting(j) = 0 /\ Row(j) = 0 /\ stores = 0
      /\ support.pc = "check"
  BY <1>1 DEF Init, SupportAt, Running, Waiting, Row, EmptySample
<1>3. Reported(j) = {}
  BY DEF Init, Reported
<1>4. QED
  BY <1>2, <1>3 DEF FieldInv, Newer

\* The program stores a new value, or moves it to the stored sample.
LEMMA FieldProgram ==
  ASSUME ShapeInv, NEW j \in Fields, FieldInv(j), Program
  PROVE  FieldInv(j)'
<1>1. /\ Row(j)' = Row(j) /\ Reported(j)' = Reported(j) /\ support' = support
  BY ProgramAside DEF Row, Reported
<1>2. /\ Running(j) \in Nat /\ Waiting(j) \in Nat /\ Row(j) \in Nat /\ stores \in Nat
      /\ Reported(j) \subseteq Nat /\ 0 \in Threads
  BY FieldTypes
<1>3. CASE Running(j)' = Running(j) /\ Waiting(j)' = Waiting(j)
           /\ stores' \in {stores, stores + 1}
  BY <1>1, <1>2, <1>3 DEF FieldInv, Newer
<1>4. ASSUME NEW t \in Threads, StoreSample(t) PROVE FieldInv(j)'
  <2>1. PICK m \in Measured :
          consolidatedSample' = [consolidatedSample EXCEPT ![t] =
                                   Copy(Stored(m, customFields[t]))]
    BY <1>4 DEF StoreSample, Stored
  <2>2. /\ customFields' = [customFields EXCEPT ![t] = EmptySample.customFields]
        /\ stores' = stores
    BY <1>4 DEF StoreSample
  <2>3. CASE t = 0
    <3>1. customFields[0] \in [Fields -> Nat]
      BY <1>2 DEF ShapeInv, Shapes, ProgramShape
    <3>2. /\ Stored(m, customFields[0]) \in NatSample
          /\ Stored(m, customFields[0]).customFields = customFields[0]
      BY <3>1, StoredSample
    <3>3. consolidatedSample'[0] = Stored(m, customFields[0])
      BY <1>2, <2>1, <2>3, <3>2, CopyIsSame DEF ShapeInv, Shapes, MailboxShape
    <3>4. Waiting(j)' = Running(j)
      BY <3>2, <3>3 DEF Waiting, Running
    <3>5. Running(j)' = 0
      BY <1>2, <2>2, <2>3 DEF Running, EmptySample, ShapeInv, Shapes,
                              ProgramShape
    <3>6. QED
      BY <1>1, <1>2, <2>2, <3>4, <3>5 DEF FieldInv, Newer
  <2>4. CASE t # 0
    <3>1. consolidatedSample'[0] = consolidatedSample[0]
          /\ customFields'[0] = customFields[0]
      BY <1>2, <2>1, <2>2, <2>4 DEF ShapeInv, Shapes, MailboxShape, ProgramShape
    <3>2. QED
      BY <1>3, <2>2, <3>1 DEF Running, Waiting
  <2>5. QED
    BY <2>3, <2>4
<1>5. ASSUME NEW t \in Threads, NEW i \in Fields, storeCustomValue(t, i)
      PROVE  FieldInv(j)'
  <2>1. /\ customFields' = [customFields EXCEPT
                              ![t] = [customFields[t] EXCEPT ![i] = stores + 1]]
        /\ stores' = stores + 1 /\ consolidatedSample' = consolidatedSample
    BY <1>5 DEF storeCustomValue, handshakeVars
  <2>2. Waiting(j)' = Waiting(j)
    BY <2>1 DEF Waiting
  <2>3. Running(j)' \in {Running(j), stores + 1}
    BY <1>2, <2>1 DEF Running, ShapeInv, Shapes, ProgramShape
  <2>4. CASE Running(j)' = stores + 1
    BY <1>1, <1>2, <2>1, <2>2, <2>4 DEF FieldInv, Newer
  <2>5. QED
    BY <1>3, <2>1, <2>2, <2>3, <2>4
<1>6. CASE UNCHANGED <<customFields, consolidatedSample, stores>>
  BY <1>3, <1>6 DEF Running, Waiting
<1>7. QED
  BY <1>4, <1>5, <1>6 DEF Program, FirstBegin, markInconsistentSamples, SetStop,
                          threadVars, handshakeVars

\* The loop takes the waiting value in its first round.
LEMMA FieldCollect ==
  ASSUME ShapeInv, NEW j \in Fields, FieldInv(j), Collect, ~supportStop
  PROVE  FieldInv(j)'
<1> DEFINE i == support.i
           s == consolidatedSample[i]
           rows == support.customVec
<1>1. Takes(i, s) /\ support.pc = "collect" /\ support'.pc # "reply"
  BY CollectRound DEF ShapeInv, Skips, Advances, Collect
<1>2. /\ Running(j) \in Nat /\ Waiting(j) \in Nat /\ Row(j) \in Nat /\ stores \in Nat
      /\ Reported(j) \subseteq Nat /\ 0 \in Threads
  BY FieldTypes
<1>3. /\ customFields' = customFields /\ stores' = stores /\ received' = received
  BY DEF Collect, OtherThanSupport, threadVars
<1>4. Running(j)' = Running(j) /\ Reported(j)' = Reported(j)
  BY <1>3 DEF Running, Reported
<1>5. /\ rows \in Seq([Fields -> Nat]) /\ Len(rows) = i /\ i \in Threads /\ i \in Nat
      /\ s.customFields \in [Fields -> Nat] /\ s \in NatSample
  BY <1>1, ThreadNumber DEF ShapeInv, Shapes, SupportShape, MailboxShape, NatSample,
                            LoopInv
<1>6. /\ support'.customVec = Append(rows, s.customFields)
      /\ consolidatedSample' = [consolidatedSample EXCEPT ![i] = EmptySample]
  BY <1>1 DEF Takes
<1>7. /\ Append(rows, s.customFields) # << >>
      /\ \A k \in 1 .. Len(rows) : Append(rows, s.customFields)[k] = rows[k]
      /\ Append(rows, s.customFields)[Len(rows) + 1] = s.customFields
  <2> DEFINE row == s.customFields
             Rows == [Fields -> Nat]
  <2>1. rows \in Seq(Rows) /\ row \in Rows
    BY <1>5
  <2> HIDE DEF rows, row, Rows
  <2>2. QED
    BY <2>1, AppendProperties DEF row
<1>8. CASE i = 0
  <2>1. Row(j)' = Waiting(j)
    <3>1. support'.customVec[1] = s.customFields /\ support'.customVec # << >>
      BY <1>5, <1>6, <1>7, <1>8
    <3>2. QED
      BY <1>8, <3>1 DEF Row, Waiting
  <2>2. Waiting(j)' = 0
    BY <1>2, <1>6, <1>8 DEF Waiting, EmptySample, ShapeInv, Shapes,
                            MailboxShape
  <2>3. QED
    BY <1>1, <1>2, <1>3, <1>4, <2>1, <2>2 DEF FieldInv, Newer
<1>9. CASE i # 0
  <2>1. Row(j)' = Row(j)
    <3>1. 1 \in 1 .. Len(rows) /\ rows # << >>
      BY <1>5, <1>9
    <3>2. support'.customVec[1] = rows[1] /\ support'.customVec # << >>
      BY <1>6, <1>7, <3>1
    <3>3. QED
      BY <3>1, <3>2 DEF Row
  <2>2. Waiting(j)' = Waiting(j)
    BY <1>2, <1>6, <1>9 DEF Waiting, ShapeInv, Shapes, MailboxShape
  <2>3. QED
    BY <1>1, <1>2, <1>3, <1>4, <2>1, <2>2 DEF FieldInv
<1>10. QED
  BY <1>8, <1>9

\* Without an aggregator the answer has the fields of the first row, which is
\* there.
LEMMA FieldAggregate ==
  ASSUME ShapeInv, NEW j \in Fields, FieldInv(j), Aggregate, ~supportStop,
         aggregator = "none"
  PROVE  FieldInv(j)'
<1>1. /\ support'.sample.customFields = AggregatedFields(support)
      /\ support'.customVec = support.customVec
  BY AggregateRound
<1>2. /\ UNCHANGED <<customFields, consolidatedSample, received, stores>>
      /\ support.pc = "aggregate"
  BY DEF Aggregate, OtherThanSupport, threadVars, handshakeVars, answers
<1>3. /\ Running(j)' = Running(j) /\ Waiting(j)' = Waiting(j) /\ Row(j)' = Row(j)
      /\ Reported(j)' = Reported(j) /\ stores' = stores
  BY <1>1, <1>2 DEF Running, Waiting, Row, Reported
<1>4. support.customVec # << >>
  BY <1>2, ReportsAssumption DEF ShapeInv, LoopInv
<1>5. support'.sample.customFields[j] = Row(j)
  BY <1>1, <1>4, AggregatedNat DEF Row
<1>6. QED
  BY <1>3, <1>5 DEF FieldInv

\* The monitor gets the value of the row, and the next answer starts afresh.
LEMMA FieldReply ==
  ASSUME ShapeInv, NEW j \in Fields, FieldInv(j), Reply, ~supportStop
  PROVE  FieldInv(j)'
<1>1. /\ support.sample \in NatSample /\ received \in Seq(NatSample)
      /\ support.pc = "reply"
  BY DEF ShapeInv, Shapes, SupportShape, AnswersShape, Reply
<1>2. /\ UNCHANGED <<customFields, consolidatedSample, stores>>
      /\ support' = SupportAt("check")
      /\ received' = Append(received, support.sample)
  BY <1>1, CopyIsSame DEF Reply, OtherThanSupport, threadVars, handshakeVars
<1>3. /\ Running(j)' = Running(j) /\ Waiting(j)' = Waiting(j) /\ Row(j)' = 0
      /\ stores' = stores /\ support'.pc = "check"
  BY <1>2 DEF Running, Waiting, Row, SupportAt
<1>4. \A y \in Reported(j)' : y \in Reported(j) \/ y = Row(j)
  <2>1. support.sample.customFields[j] = Row(j)
    BY <1>1 DEF FieldInv
  <2>2. /\ \A k \in DOMAIN received : received'[k] = received[k]
        /\ received'[Len(received) + 1] = support.sample
        /\ \A k \in DOMAIN received' : k \in DOMAIN received \/ k = Len(received) + 1
    BY <1>1, <1>2, Longer
  <2>3. QED
    BY <2>1, <2>2 DEF Reported
<1>5. /\ Running(j) \in Nat /\ Waiting(j) \in Nat /\ Row(j) \in Nat /\ stores \in Nat
      /\ Reported(j) \subseteq Nat
  BY FieldTypes
<1>6. QED
  BY <1>3, <1>4, <1>5 DEF FieldInv, Newer

\* Every step keeps the order, until terminate() ends the answers.
LEMMA FieldsStep == ShapeInv /\ FieldsInv /\ [Next]_vars => FieldsInv'
<1> SUFFICES ASSUME ShapeInv, FieldsInv, [Next]_vars,
                    aggregator' = "none", ~supportStop', NEW j \in Fields
             PROVE  FieldInv(j)'
  BY DEF FieldsInv
<1>1. aggregator = "none" /\ ~supportStop
  BY DEF Next, FirstBegin, StoreSample, storeCustomValue, markInconsistentSamples,
         SetStop, SupportCheck, SupportReceive, Collect, Aggregate, Reply,
         OtherThanSupport, OtherThanProgram, configVars, vars
<1>2. FieldInv(j)
  BY <1>1 DEF FieldsInv
<1>3. CASE Program
  BY <1>2, <1>3, FieldProgram
<1>4. CASE SupportCheck \/ SupportReceive
  <2>1. /\ UNCHANGED <<customFields, consolidatedSample, received, stores>>
        /\ support'.customVec = << >> /\ support'.pc # "reply"
    BY <1>4 DEF SupportCheck, SupportReceive, SupportAt, OtherThanSupport, threadVars,
                handshakeVars, answers
  <2>2. /\ Running(j)' = Running(j) /\ Waiting(j)' = Waiting(j) /\ Row(j)' = 0
        /\ Reported(j)' = Reported(j) /\ stores' = stores
    BY <2>1 DEF Running, Waiting, Row, Reported
  <2>3. /\ Running(j) \in Nat /\ Waiting(j) \in Nat /\ stores \in Nat
        /\ Reported(j) \subseteq Nat
    BY FieldTypes
  <2>4. QED
    BY <1>2, <2>1, <2>2, <2>3 DEF FieldInv, Newer
<1>5. CASE Collect
  BY <1>1, <1>2, <1>5, FieldCollect
<1>6. CASE Aggregate
  BY <1>1, <1>2, <1>6, FieldAggregate
<1>7. CASE Reply
  BY <1>1, <1>2, <1>7, FieldReply
<1>8. CASE UNCHANGED vars
  <2>1. UNCHANGED <<customFields, consolidatedSample, received, stores, support>>
    BY <1>8 DEF vars, threadVars, handshakeVars, answers
  <2>2. QED
    BY <1>2, <2>1 DEF FieldInv, Running, Waiting, Row, Reported
<1>9. QED
  BY <1>3, <1>4, <1>5, <1>6, <1>7, <1>8 DEF Next, Program

\* So the value that arrives is newer than those that arrived before.
LEMMA NotRepeatedStep ==
  ShapeInv /\ FieldsInv /\ CustomValueNotRepeated /\ [Next]_vars
    => CustomValueNotRepeated'
<1> SUFFICES ASSUME ShapeInv, FieldsInv, CustomValueNotRepeated, [Next]_vars,
                    aggregator' = "none"
             PROVE  CustomValueNotRepeated'
  BY DEF CustomValueNotRepeated
<1>1. aggregator = "none"
  BY DEF Next, FirstBegin, StoreSample, storeCustomValue, markInconsistentSamples,
         SetStop, SupportCheck, SupportReceive, Collect, Aggregate, Reply,
         OtherThanSupport, OtherThanProgram, configVars, vars
<1>2. CASE received' = received
  BY <1>1, <1>2 DEF CustomValueNotRepeated
<1>3. CASE received' # received
  <2>1. Reply /\ ~supportStop
    BY <1>3, ProgramAside DEF Next, Program, SupportCheck, SupportReceive, Collect,
       Aggregate, Reply, vars, answers
  <2>2. /\ support.sample \in NatSample /\ received \in Seq(NatSample)
        /\ support.pc = "reply"
    BY <2>1 DEF ShapeInv, Shapes, SupportShape, AnswersShape, Reply
  <2>3. received' = Append(received, support.sample)
    BY <2>1, <2>2, CopyIsSame DEF Reply
  <2> DEFINE n == Len(received)
  <2>4. /\ n \in Nat /\ DOMAIN received = 1 .. n /\ DOMAIN received' = 1 .. n + 1
        /\ \A k \in 1 .. n : received'[k] = received[k]
        /\ received'[n + 1] = support.sample
    BY <2>2, <2>3, Longer
  <2> HIDE DEF n
  <2> SUFFICES ASSUME NEW k \in 1 .. n + 1, NEW l \in 1 .. n + 1, k < l, NEW j \in Fields
               PROVE  \/ received'[l].customFields[j] = 0
                      \/ received'[k].customFields[j] < received'[l].customFields[j]
    BY <2>4 DEF CustomValueNotRepeated
  <2>5. k \in 1 .. n /\ received'[k] = received[k]
    BY <2>4
  <2>6. CASE l \in 1 .. n
    BY <1>1, <2>4, <2>5, <2>6 DEF CustomValueNotRepeated
  <2>7. CASE l = n + 1
    <3>1. FieldInv(j)
      BY <1>1, <2>1 DEF FieldsInv
    <3>2. received'[l].customFields[j] = Row(j)
      BY <2>2, <2>4, <2>7, <3>1 DEF FieldInv
    <3>3. received[k].customFields[j] \in Reported(j)
      BY <2>4, <2>5 DEF Reported
    <3>4. Newer(Row(j), received[k].customFields[j])
      BY <3>1, <3>3 DEF FieldInv
    <3>5. QED
      BY <2>5, <3>2, <3>4 DEF Newer
  <2>8. QED
    BY <2>4, <2>6, <2>7
<1>4. QED
  BY <1>2, <1>3

\* Without an aggregator, a custom value of the first thread reaches the
\* monitor in one answer at most: later answers have later values, or 0.
THEOREM ValuesReportedOnce == Spec => []CustomValueNotRepeated
<1>1. Init => CustomValueNotRepeated
  BY DEF Init, CustomValueNotRepeated
<1>2. QED
  BY <1>1, FieldsInit, FieldsStep, NotRepeatedStep, ShapeAlways, PTL DEF Spec
-----------------------------------------------------------------------------
(* Texts: concatenations, read from the front. *)

\* A set of naturals, not empty, has a smallest element.
LEMMA SmallestNat ==
  ASSUME NEW B, B \subseteq Nat, B # {}
  PROVE  \E n \in B : \A m \in B : n <= m
<1>1. PICK n \in B : \A m \in B : <<m, n>> \notin OpToRel(<, Nat)
  BY NatLessThanWellFounded, WFMin
<1>2. ASSUME NEW m \in B PROVE n <= m
  <2>1. n \in Nat /\ m \in Nat
    OBVIOUS
  <2>2. ~(m < n)
    BY <1>1, <2>1, Zenon DEF OpToRel
  <2>3. QED
    BY <2>1, <2>2
<1>3. QED
  BY <1>2

\* Induction over the naturals; G is the set of those for which the claim holds.
LEMMA NatSets ==
  ASSUME NEW G, 0 \in G, \A n \in Nat : n \in G => n + 1 \in G
  PROVE  \A n \in Nat : n \in G
<1> DEFINE B == Nat \ G
<1> SUFFICES ASSUME B # {} PROVE FALSE
  OBVIOUS
<1>1. PICK n \in B : \A m \in B : n <= m
  <2>1. B \subseteq Nat
    OBVIOUS
  <2> HIDE DEF B
  <2>2. QED
    BY <2>1, SmallestNat
<1>2. n # 0 /\ n - 1 \in Nat /\ n - 1 \notin G
  OBVIOUS
<1>3. QED
  BY <1>1, <1>2

\* The same up to n.
LEMMA IntervalSets ==
  ASSUME NEW n \in Nat, NEW G, 0 \in G, \A k \in 0 .. n - 1 : k \in G => k + 1 \in G
  PROVE  \A k \in 0 .. n : k \in G
<1> DEFINE H == {k \in Nat : k <= n => k \in G}
<1>1. 0 \in H /\ \A k \in Nat : k \in H => k + 1 \in H
  OBVIOUS
<1>2. \A k \in Nat : k \in H
  <2> HIDE DEF H
  <2>1. QED
    BY <1>1, NatSets
<1>3. QED
  BY <1>2

\* The same from 1 to n.
LEMMA IndexSets ==
  ASSUME NEW n \in Nat, NEW G, n # 0 => 1 \in G,
         \A k \in 1 .. n - 1 : k \in G => k + 1 \in G
  PROVE  \A k \in 1 .. n : k \in G
<1> DEFINE H == {k \in Nat : k + 1 <= n => k + 1 \in G}
<1>1. 0 \in H /\ \A k \in Nat : k \in H => k + 1 \in H
  OBVIOUS
<1>2. \A k \in Nat : k \in H
  <2> HIDE DEF H
  <2>1. QED
    BY <1>1, NatSets
<1>3. ASSUME NEW k \in 1 .. n PROVE k \in G
  <2>1. k - 1 \in H /\ (k - 1) + 1 = k
    BY <1>2
  <2>2. QED
    BY <2>1
<1>4. QED
  BY <1>3

\* g concatenates the first sequences of s, up to n of them.
FlatTo(g, s, n) ==
  g = [i \in 1 .. n |-> IF i = 1 THEN s[i] ELSE g[i - 1] \o s[i]]

Flat(s) == CHOOSE g : FlatTo(g, s, Len(s))

\* FlattenSeq ends with all of them.
LEMMA FlattenIsFlat ==
  ASSUME NEW s PROVE FlattenSeq(s) = IF Len(s) = 0 THEN s ELSE Flat(s)[Len(s)]
  BY Zenon DEF FlattenSeq, Flat, FlatTo

\* There is one.
LEMMA FlatExists ==
  ASSUME NEW s, NEW m \in Nat PROVE \E g : FlatTo(g, s, m)
<1> DEFINE G == {n \in Nat : \E g : FlatTo(g, s, n)}
<1>1. 0 \in G
  <2> DEFINE g == [i \in 1 .. 0 |-> IF i = 1 THEN s[i] ELSE << >> \o s[i]]
  <2>1. FlatTo(g, s, 0)
    BY DEF FlatTo
  <2>2. QED
    BY <2>1
<1>2. ASSUME NEW n \in Nat, n \in G PROVE n + 1 \in G
  <2>1. PICK g : FlatTo(g, s, n)
    BY <1>2
  <2>2. \A i \in 1 .. n : g[i] = IF i = 1 THEN s[i] ELSE g[i - 1] \o s[i]
    BY <2>1 DEF FlatTo
  <2> DEFINE last == IF n = 0 THEN s[1] ELSE g[n] \o s[n + 1]
             h == [i \in 1 .. n + 1 |-> IF i = n + 1 THEN last ELSE g[i]]
  <2>3. ASSUME NEW i \in 1 .. n + 1
        PROVE  h[i] = IF i = 1 THEN s[i] ELSE h[i - 1] \o s[i]
    <3>1. CASE i = n + 1
      <4>1. CASE n = 0
        BY <3>1, <4>1
      <4>2. CASE n # 0
        <5>1. i # 1 /\ i - 1 = n /\ n \in 1 .. n + 1 /\ n # n + 1
          BY <3>1, <4>2
        <5>2. h[i] = last /\ h[i - 1] = g[n]
          BY <3>1, <5>1
        <5>3. QED
          BY <3>1, <4>2, <5>1, <5>2
      <4>3. QED
        BY <4>1, <4>2
    <3>2. CASE i # n + 1
      <4>1. i \in 1 .. n /\ h[i] = g[i]
        BY <3>2
      <4>2. CASE i = 1
        BY <2>2, <4>1, <4>2
      <4>3. CASE i # 1
        <5>1. i - 1 \in 1 .. n + 1 /\ i - 1 # n + 1
          BY <4>1, <4>3
        <5>2. h[i - 1] = g[i - 1]
          BY <5>1
        <5> HIDE DEF h
        <5>3. QED
          BY <2>2, <4>1, <4>3, <5>2
      <4>4. QED
        BY <4>2, <4>3
    <3>3. QED
      BY <3>1, <3>2
  <2>4. h = [i \in 1 .. n + 1 |-> h[i]]
    OBVIOUS
  <2>5. FlatTo(h, s, n + 1)
    <3> HIDE DEF h
    <3>1. QED
      BY <2>3, <2>4 DEF FlatTo
  <2>6. QED
    BY <2>5
<1>3. \A n \in Nat : n \in G
  <2> HIDE DEF G
  <2>1. QED
    BY <1>1, <1>2, NatSets
<1>4. QED
  BY <1>3

\* What it computes.
LEMMA FlatStep ==
  ASSUME NEW s, Len(s) \in Nat, NEW i \in 1 .. Len(s)
  PROVE  Flat(s)[i] = IF i = 1 THEN s[i] ELSE Flat(s)[i - 1] \o s[i]
<1>1. FlatTo(Flat(s), s, Len(s))
  <2>1. \E g : FlatTo(g, s, Len(s))
    BY FlatExists
  <2>2. QED
    BY <2>1, Zenon DEF Flat
<1>2. QED
  BY <1>1 DEF FlatTo

\* Its values are sequences.
LEMMA FlatTyped ==
  ASSUME NEW T, NEW s \in Seq(Seq(T))
  PROVE  \A i \in 1 .. Len(s) : Flat(s)[i] \in Seq(T)
<1> DEFINE n == Len(s)
           F == Flat(s)
           G == {i \in 1 .. n : F[i] \in Seq(T)}
<1>1. n \in Nat /\ \A i \in 1 .. n : s[i] \in Seq(T)
  BY LenProperties, ElementOfSeq
<1>2. \A i \in 1 .. n : F[i] = IF i = 1 THEN s[i] ELSE F[i - 1] \o s[i]
  BY <1>1, FlatStep
<1> HIDE DEF F, n
<1>3. n # 0 => 1 \in G
  BY <1>1, <1>2
<1>4. ASSUME NEW i \in 1 .. n - 1, F[i] \in Seq(T) PROVE F[i + 1] \in Seq(T)
  <2>1. i + 1 \in 1 .. n /\ i + 1 # 1 /\ (i + 1) - 1 = i
    BY <1>1
  <2>2. F[i + 1] = F[i] \o s[i + 1] /\ s[i + 1] \in Seq(T)
    BY <1>1, <1>2, <2>1
  <2>3. QED
    BY <1>4, <2>2, ConcatProperties
<1>5. \A i \in 1 .. n - 1 : i \in G => i + 1 \in G
  BY <1>1, <1>4
<1>6. \A i \in 1 .. n : i \in G
  <2> HIDE DEF G
  <2>1. QED
    BY <1>1, <1>3, <1>5, IndexSets
<1>7. QED
  BY <1>6 DEF F, n

\* A concatenation of sequences is one.
LEMMA FlattenTyped ==
  ASSUME NEW T, NEW s \in Seq(Seq(T)) PROVE FlattenSeq(s) \in Seq(T)
<1>1. Len(s) \in Nat
  BY LenProperties
<1>2. CASE Len(s) = 0
  <2>1. s = << >>
    BY <1>2, EmptySeq
  <2>2. QED
    BY <1>2, <2>1, FlattenIsFlat, EmptySeq
<1>3. CASE Len(s) # 0
  <2>1. Len(s) \in 1 .. Len(s)
    BY <1>1, <1>3
  <2>2. QED
    BY <1>3, <2>1, FlattenIsFlat, FlatTyped
<1>4. QED
  BY <1>2, <1>3

\* The first sequence comes first.
LEMMA FlattenFront ==
  ASSUME NEW T, NEW s \in Seq(Seq(T)), s # << >>
  PROVE  FlattenSeq(s) = s[1] \o FlattenSeq(Tail(s))
<1> DEFINE t == Tail(s)
           n == Len(t)
           F == Flat(s)
           H == Flat(t)
           P(i) == F[i + 1] = s[1] \o H[i]
           G == {i \in 1 .. n : P(i)}
<1>1. /\ t \in Seq(Seq(T)) /\ n \in Nat /\ Len(s) = n + 1
      /\ \A i \in 1 .. n : t[i] = s[i + 1]
  BY HeadTailProperties, LenProperties
<1>2. \A i \in 1 .. n + 1 : F[i] = IF i = 1 THEN s[i] ELSE F[i - 1] \o s[i]
  BY <1>1, FlatStep
<1>3. \A i \in 1 .. n : H[i] = IF i = 1 THEN t[i] ELSE H[i - 1] \o t[i]
  <2>1. Len(t) \in Nat
    BY <1>1
  <2> HIDE DEF t
  <2>2. QED
    BY <2>1, FlatStep
<1>4. \A i \in 1 .. n : H[i] \in Seq(T) /\ t[i] \in Seq(T)
  <2> HIDE DEF t
  <2>1. QED
    BY <1>1, FlatTyped, ElementOfSeq
<1>5. s[1] \in Seq(T)
  BY <1>1, ElementOfSeq
<1> HIDE DEF t, n, F, H
<1>6. ASSUME n # 0 PROVE P(1)
  <2>1. /\ 1 \in 1 .. n /\ 1 \in 1 .. n + 1
        /\ 1 + 1 \in 1 .. n + 1 /\ 1 + 1 # 1 /\ (1 + 1) - 1 = 1
    BY <1>1, <1>6
  <2>2. F[1] = s[1] /\ H[1] = t[1] /\ t[1] = s[1 + 1]
    BY <1>1, <1>2, <1>3, <2>1
  <2>3. F[1 + 1] = F[1] \o s[1 + 1]
    BY <1>2, <2>1, Zenon
  <2>4. QED
    BY <2>2, <2>3, Zenon
<1>7. ASSUME NEW i \in 1 .. n - 1, P(i) PROVE P(i + 1)
  <2>1. /\ i \in 1 .. n /\ i + 1 \in 1 .. n /\ i + 1 # 1 /\ (i + 1) - 1 = i
        /\ (i + 1) + 1 \in 1 .. n + 1 /\ (i + 1) + 1 # 1 /\ ((i + 1) + 1) - 1 = i + 1
    BY <1>1
  <2>2. F[(i + 1) + 1] = F[i + 1] \o t[i + 1]
    BY <1>1, <1>2, <2>1
  <2>3. H[i + 1] = H[i] \o t[i + 1]
    BY <1>3, <2>1
  <2>4. H[i] \in Seq(T) /\ t[i + 1] \in Seq(T)
    BY <1>4, <2>1
  <2>5. (s[1] \o H[i]) \o t[i + 1] = s[1] \o (H[i] \o t[i + 1])
    <3> DEFINE a == s[1]
               b == H[i]
               c == t[i + 1]
    <3>1. a \in Seq(T) /\ b \in Seq(T) /\ c \in Seq(T)
      BY <1>5, <2>4
    <3> HIDE DEF a, b, c
    <3>2. (a \o b) \o c = a \o (b \o c)
      BY <3>1
    <3>3. QED
      BY <3>2 DEF a, b, c
  <2>6. QED
    BY <1>7, <2>2, <2>3, <2>5
<1>8. \A i \in 1 .. n : P(i)
  <2>1. (n # 0 => 1 \in G) /\ \A i \in 1 .. n - 1 : i \in G => i + 1 \in G
    <3> HIDE DEF P
    <3>1. QED
      BY <1>1, <1>6, <1>7
  <2>2. \A i \in 1 .. n : i \in G
    <3> HIDE DEF G
    <3>1. QED
      BY <1>1, <2>1, IndexSets
  <2>3. QED
    BY <2>2
<1>9. FlattenSeq(s) = F[n + 1]
  BY <1>1, FlattenIsFlat DEF F
<1>10. CASE n = 0
  <2>1. t = << >> /\ FlattenSeq(t) = << >>
    BY <1>1, <1>10, EmptySeq, FlattenIsFlat DEF n
  <2>2. F[n + 1] = s[1]
    BY <1>2, <1>10
  <2>3. s[1] \o << >> = s[1]
    BY <1>5, ConcatEmptySeq
  <2>4. QED
    BY <1>9, <2>1, <2>2, <2>3 DEF t
<1>11. CASE n # 0
  <2>1. n \in 1 .. n
    BY <1>1, <1>11
  <2>2. F[n + 1] = s[1] \o H[n]
    BY <1>8, <1>11, <2>1
  <2>3. FlattenSeq(t) = H[n]
    BY <1>11, FlattenIsFlat DEF n, H
  <2>4. QED
    BY <1>9, <2>2, <2>3 DEF t
<1>12. QED
  BY <1>10, <1>11

\* What is left of the concatenation after its first k sequences.
Rest(s, k) == FlattenSeq(SubSeq(s, k + 1, Len(s)))

\* It is a sequence.
LEMMA RestTyped ==
  ASSUME NEW T, NEW s \in Seq(Seq(T)), NEW k \in 0 .. Len(s)
  PROVE  SubSeq(s, k + 1, Len(s)) \in Seq(Seq(T)) /\ Rest(s, k) \in Seq(T)
<1>1. Len(s) \in Nat /\ \A i \in k + 1 .. Len(s) : s[i] \in Seq(T)
  BY LenProperties, ElementOfSeq
<1> DEFINE r == SubSeq(s, k + 1, Len(s))
<1>2. r \in Seq(Seq(T))
  BY <1>1, SubSeqProperties
<1> HIDE DEF r
<1>3. FlattenSeq(r) \in Seq(T)
  BY <1>2, FlattenTyped
<1>4. QED
  BY <1>2, <1>3 DEF Rest, r

\* All of it, and nothing.
LEMMA RestEnds ==
  ASSUME NEW T, NEW s \in Seq(Seq(T))
  PROVE  Rest(s, 0) = FlattenSeq(s) /\ Rest(s, Len(s)) = << >>
<1>1. Len(s) \in Nat
  BY LenProperties
<1>2. SubSeq(s, 1, Len(s)) = s
  BY SubSeqFull
<1>3. Rest(s, 0) = FlattenSeq(s)
  <2>1. 0 + 1 = 1
    OBVIOUS
  <2>2. QED
    BY <1>2, <2>1, Zenon DEF Rest
<1>4. SubSeq(s, Len(s) + 1, Len(s)) = << >>
  BY <1>1, SubSeqEmpty
<1>5. FlattenSeq(<< >>) = << >>
  BY EmptySeq, FlattenIsFlat
<1>6. QED
  BY <1>3, <1>4, <1>5 DEF Rest

\* The next sequence is at its front.
LEMMA RestStep ==
  ASSUME NEW T, NEW s \in Seq(Seq(T)), NEW k \in 0 .. Len(s) - 1
  PROVE  Rest(s, k) = s[k + 1] \o Rest(s, k + 1)
<1>1. /\ Len(s) \in Nat /\ k \in 0 .. Len(s)
      /\ k + 1 \in 1 .. Len(s) /\ Len(s) \in k + 1 .. Len(s)
  BY LenProperties
<1> DEFINE r == SubSeq(s, k + 1, Len(s))
<1>2. r \in Seq(Seq(T))
  BY <1>1, RestTyped
<1>3. r = <<s[k + 1]>> \o SubSeq(s, (k + 1) + 1, Len(s))
  BY <1>1, SubSeqRecursiveFirst
<1>4. Head(r) = s[k + 1] /\ Tail(r) = SubSeq(s, (k + 1) + 1, Len(s))
  BY <1>1, HeadTailOfSubSeq
<1>5. Len(r) # 0
  BY <1>1, SubSeqProperties, ElementOfSeq
<1>6. r # << >> /\ r[1] = s[k + 1]
  <2>1. r # << >>
    BY <1>5, EmptySeq
  <2>2. Head(r) = r[1]
    <3> HIDE DEF r
    <3>1. QED
      BY <1>2, <2>1
  <2>3. QED
    BY <1>4, <2>1, <2>2
<1>7. FlattenSeq(r) = r[1] \o FlattenSeq(Tail(r))
  <2> HIDE DEF r
  <2>1. QED
    BY <1>2, <1>6, FlattenFront
<1>8. QED
  BY <1>4, <1>6, <1>7 DEF Rest

\* The place of the first token of a kind, 0 if there is none.
Places(text, c) == {i \in 1 .. Len(text) : text[i].kind = c}
First(text, c) == IF Places(text, c) # {} THEN Min(Places(text, c)) ELSE 0

\* istream::ignore() goes on behind that place.
LEMMA IgnoreIs ==
  ASSUME NEW text, NEW c
  PROVE  Ignore(text, c) = IF First(text, c) = 0 THEN << >>
                           ELSE SubSeq(text, First(text, c) + 1, Len(text))
  BY Zenon DEF Ignore, SelectInSeq, First, Places

\* The text after a token that is looked for.
LEMMA IgnoreHit ==
  ASSUME NEW T, NEW a \in T, NEW t \in Seq(T), NEW c, a.kind = c
  PROVE  Ignore(<<a>> \o t, c) = t
<1> DEFINE text == <<a>> \o t
           I == Places(text, c)
<1>1. /\ text \in Seq(T) /\ Len(t) \in Nat /\ Len(text) = Len(t) + 1
      /\ text[1] = a /\ \A i \in 1 .. Len(t) : text[i + 1] = t[i]
  OBVIOUS
<1> HIDE DEF text
<1>2. 1 \in I /\ \A i \in I : i \in Nat /\ 1 <= i
  BY <1>1 DEF Places
<1>3. Min(I) = 1
  <2> HIDE DEF I
  <2>1. QED
    BY <1>2 DEF Min
<1>4. First(text, c) = 1
  BY <1>2, <1>3 DEF First
<1>5. Ignore(text, c) = SubSeq(text, 2, Len(text))
  <2>1. 1 + 1 = 2 /\ 1 # 0
    OBVIOUS
  <2>2. QED
    BY <1>4, <2>1, IgnoreIs, Zenon
<1>6. SubSeq(text, 2, Len(text)) = t
  <2>1. \A i \in 2 .. Len(text) : text[i] \in T
    BY <1>1, ElementOfSeq
  <2> DEFINE u == SubSeq(text, 2, Len(text))
  <2>2. /\ u \in Seq(T) /\ Len(u) = Len(t)
        /\ \A i \in 1 .. Len(t) : u[i] = text[i + 1]
    BY <1>1, <2>1, SubSeqProperties
  <2> HIDE DEF u
  <2>3. u = t
    BY <1>1, <2>2, SeqEqual
  <2>4. QED
    BY <2>3 DEF u
<1>7. QED
  BY <1>5, <1>6 DEF text

\* The text after another token is searched in its place.
LEMMA IgnoreMiss ==
  ASSUME NEW T, NEW a \in T, NEW t \in Seq(T), NEW c, a.kind # c
  PROVE  Ignore(<<a>> \o t, c) = Ignore(t, c)
<1> DEFINE text == <<a>> \o t
           I == Places(text, c)
           J == Places(t, c)
<1>1. /\ text \in Seq(T) /\ Len(t) \in Nat /\ Len(text) = Len(t) + 1
      /\ text[1] = a /\ \A i \in 1 .. Len(t) : text[i + 1] = t[i]
  OBVIOUS
<1> HIDE DEF text
<1>2. \A i \in J : i \in 1 .. Len(t) /\ i + 1 \in I
  BY <1>1 DEF Places
<1>3. ASSUME NEW i \in I PROVE i \in Nat /\ i - 1 \in J
  <2>1. i \in 1 .. Len(t) + 1 /\ i # 1 /\ text[i].kind = c
    BY <1>1 DEF Places
  <2>2. i - 1 \in 1 .. Len(t) /\ (i - 1) + 1 = i
    BY <1>1, <2>1
  <2>3. QED
    BY <1>1, <2>1, <2>2 DEF Places
<1>4. /\ First(text, c) = IF I # {} THEN Min(I) ELSE 0
      /\ First(t, c) = IF J # {} THEN Min(J) ELSE 0
  BY DEF First
<1>5. CASE J = {}
  <2>1. I = {}
    BY <1>3, <1>5
  <2>2. QED
    BY <1>4, <1>5, <2>1, IgnoreIs DEF text
<1>6. CASE J # {}
  <2> DEFINE m == Min(J)
  <2> HIDE DEF I, J
  <2>1. J \subseteq Nat
    BY <1>1, <1>2
  <2>2. \E x \in J : \A y \in J : x <= y
    BY <1>6, <2>1, SmallestNat
  <2>3. m \in J /\ \A y \in J : m <= y
    BY <2>2 DEF Min
  <2>4. m \in 1 .. Len(t) /\ m + 1 \in I /\ \A y \in I : y \in Nat /\ m + 1 <= y
    <3> HIDE DEF m
    <3>1. m \in 1 .. Len(t) /\ m + 1 \in I
      BY <1>2, <2>3
    <3>2. ASSUME NEW y \in I PROVE y \in Nat /\ m + 1 <= y
      <4>1. y \in Nat /\ m <= y - 1
        BY <1>3, <2>3
      <4>2. QED
        BY <1>1, <3>1, <4>1
    <3>3. QED
      BY <3>1, <3>2
  <2> HIDE DEF m
  <2>5. Min(I) = m + 1
    <3>1. \A z \in I : (\A y \in I : z <= y) => z = m + 1
      BY <1>1, <2>4
    <3>2. QED
      BY <2>4, <3>1 DEF Min
  <2>6. First(text, c) = m + 1
    BY <1>4, <2>4, <2>5
  <2>7. First(t, c) = m
    BY <1>4, <1>6 DEF m
  <2>8. /\ Ignore(text, c) = SubSeq(text, (m + 1) + 1, Len(text))
        /\ Ignore(t, c) = SubSeq(t, m + 1, Len(t))
    <3>1. m # 0 /\ m + 1 # 0
      BY <1>1, <2>4
    <3>2. QED
      BY <2>6, <2>7, <3>1, IgnoreIs, Zenon
  <2>9. SubSeq(text, (m + 1) + 1, Len(text)) = SubSeq(t, m + 1, Len(t))
    <3> DEFINE u == SubSeq(text, (m + 1) + 1, Len(text))
               v == SubSeq(t, m + 1, Len(t))
    <3>1. /\ \A i \in (m + 1) + 1 .. Len(text) : text[i] \in T
          /\ \A i \in m + 1 .. Len(t) : t[i] \in T
      BY <1>1, <2>4, ElementOfSeq
    <3>2. /\ u \in Seq(T) /\ Len(u) = Len(t) - m
          /\ \A i \in 1 .. Len(t) - m : u[i] = text[(m + i) + 1]
      BY <1>1, <2>4, <3>1, SubSeqProperties
    <3>3. /\ v \in Seq(T) /\ Len(v) = Len(t) - m
          /\ \A i \in 1 .. Len(t) - m : v[i] = t[m + i]
      BY <1>1, <2>4, <3>1, SubSeqProperties
    <3> HIDE DEF u, v
    <3>4. ASSUME NEW i \in 1 .. Len(u) PROVE u[i] = v[i]
      <4>1. i \in 1 .. Len(t) - m /\ m + i \in 1 .. Len(t)
        BY <1>1, <2>4, <3>2
      <4>2. QED
        BY <1>1, <3>2, <3>3, <4>1
    <3>5. u = v
      BY <3>2, <3>3, <3>4, SeqEqual
    <3>6. QED
      BY <3>5 DEF u, v
  <2>10. QED
    BY <2>8, <2>9 DEF text
<1>7. QED
  BY <1>5, <1>6

-----------------------------------------------------------------------------
(* The text of a sample. *)

\* The tokens that operator<< writes.
Token == {Mark(":"), Mark("["), Mark("]")} \cup {Number(Printed(x)) : x \in Nat}

\* They tell themselves apart.
LEMMA Tokens ==
  /\ Mark(":") \in Token /\ Mark("[") \in Token /\ Mark("]") \in Token
  /\ \A x \in Nat : Number(Printed(x)) \in Token
  /\ Mark(":").kind = ":" /\ Mark("[").kind = "[" /\ Mark("]").kind = "]"
  /\ \A x : Number(x).kind = "number" /\ Number(x).value = x
  BY DEF Token, Mark, Number

\* Min of FiniteSetsExt is the least element, if there is one.
LEMMA MinIs ==
  ASSUME NEW S, NEW a \in S, \A w \in S : w \in Nat /\ a <= w
  PROVE  Min(S) = a
<1>1. \A w \in S : a <= w
  OBVIOUS
<1>2. Min(S) \in S /\ \A w \in S : Min(S) <= w
  BY <1>1, Zenon DEF Min
<1>3. Min(S) \in Nat /\ a \in Nat /\ Min(S) <= a /\ a <= Min(S)
  BY <1>2
<1>4. QED
  BY <1>3

\* The units to which a number can be rounded, and x rounded to one of them.
Units == {1, 10, 100, 1000, 10000}

Rounded(x, u) ==
  LET below == x \div u
      rest  == 2 * (x % u)
      up    == rest > u \/ (rest = u /\ below % 2 = 1)
  IN  (IF up THEN below + 1 ELSE below) * u

\* Printed rounds to the least unit that leaves few enough digits.
LEMMA PrintedRounds ==
  ASSUME NEW x \in Nat, NEW u \in Units, x < u * PrintLimit,
         \A w \in Units : x < w * PrintLimit => u <= w
  PROVE  Printed(x) = Rounded(x, u)
<1> DEFINE U == {w \in Units : x < w * PrintLimit}
<1>1. \A w \in Units : w \in Nat
  BY DEF Units
<1>2. u \in U /\ \A w \in U : w \in Nat /\ u <= w
  BY <1>1
<1>3. Printed(x) = Rounded(x, Min(U))
  BY DEF Printed, Rounded, Units
<1> HIDE DEF U
<1>4. Min(U) = u
  BY <1>2, MinIs
<1>5. QED
  BY <1>3, <1>4

\* What operator<< prints of a number below 10^4 * PrintLimit: the number itself
\* if it is below PrintLimit, and otherwise one that is off by at most half of a
\* unit, which is at most the 10 / PrintLimit-th part of the number.
THEOREM PrintedPrecision ==
  ASSUME NEW x \in Nat, x < 10000 * PrintLimit
  PROVE  /\ x < PrintLimit => Printed(x) = x
         /\ \E u \in Units :
              /\ 2 * (Printed(x) - x) <= u /\ 2 * (x - Printed(x)) <= u
              /\ x >= PrintLimit => u * PrintLimit <= 10 * x
<1> USE DEF Units
<1>1. PICK u \in Units : /\ x < u * PrintLimit
                        /\ \A w \in Units : x < w * PrintLimit => u <= w
  <2>1. PrintLimit \in Nat
    BY SampleAssumption
  <2>2. CASE x < 1 * PrintLimit
    BY <2>1, <2>2
  <2>3. CASE x >= 1 * PrintLimit /\ x < 10 * PrintLimit
    BY <2>1, <2>3
  <2>4. CASE x >= 10 * PrintLimit /\ x < 100 * PrintLimit
    BY <2>1, <2>4
  <2>5. CASE x >= 100 * PrintLimit /\ x < 1000 * PrintLimit
    BY <2>1, <2>5
  <2>6. CASE x >= 1000 * PrintLimit
    BY <2>1, <2>6
  <2>7. QED
    BY <2>1, <2>2, <2>3, <2>4, <2>5, <2>6
<1>2. Printed(x) = Rounded(x, u)
  BY <1>1, PrintedRounds
<1>3. 2 * (Rounded(x, u) - x) <= u /\ 2 * (x - Rounded(x, u)) <= u
  <2>1. CASE u = 1
    BY <2>1 DEF Rounded
  <2>2. CASE u = 10
    BY <2>2 DEF Rounded
  <2>3. CASE u = 100
    BY <2>3 DEF Rounded
  <2>4. CASE u = 1000
    BY <2>4 DEF Rounded
  <2>5. CASE u = 10000
    BY <2>5 DEF Rounded
  <2>6. QED
    BY <2>1, <2>2, <2>3, <2>4, <2>5
<1>4. x >= PrintLimit => u * PrintLimit <= 10 * x
  <2>1. PrintLimit \in Nat
    BY SampleAssumption
  <2>2. ASSUME NEW w \in Units, w < u PROVE x >= w * PrintLimit
    BY <1>1, <2>1, <2>2
  <2>3. CASE u \in {1, 10}
    BY <2>1, <2>3
  <2>4. CASE u = 100
    BY <2>1, <2>2, <2>4
  <2>5. CASE u = 1000
    BY <2>1, <2>2, <2>5
  <2>6. CASE u = 10000
    BY <2>1, <2>2, <2>6
  <2>7. QED
    BY <2>3, <2>4, <2>5, <2>6
<1>5. x < PrintLimit => Rounded(x, u) = x
  <2> SUFFICES ASSUME x < PrintLimit PROVE Rounded(x, u) = x
    OBVIOUS
  <2>1. u = 1
    BY <1>1, SampleAssumption
  <2>2. QED
    BY <2>1 DEF Rounded
<1>6. QED
  BY <1>2, <1>3, <1>4, <1>5

\* The flag is printed as it is.
LEMMA PrintedFlag == Printed(0) = 0 /\ Printed(1) = 1
<1>1. ASSUME NEW x \in {0, 1} PROVE Printed(x) = x
  <2>1. x \in Nat /\ x < PrintLimit /\ x < 10000 * PrintLimit
    BY SampleAssumption
  <2>2. QED
    BY <2>1, PrintedPrecision
<1>2. QED
  BY <1>1

\* The text of the fields, one by one.
Field(x) == <<Mark(":"), Number(Printed(x))>>
Parts(values) == [k \in DOMAIN values |-> Field(values[k])]

\* operator<< puts them between brackets.
LEMMA WriteIs ==
  ASSUME NEW values
  PROVE  Write(values) = <<Mark("[")>> \o FlattenSeq(Parts(values)) \o <<Mark("]")>>
  BY Zenon DEF Write, Parts, Field

\* They are sequences of tokens.
LEMMA PartsTyped ==
  ASSUME NEW values \in Seq(Nat)
  PROVE  /\ Parts(values) \in Seq(Seq(Token)) /\ Len(Parts(values)) = Len(values)
         /\ \A k \in 1 .. Len(values) : Parts(values)[k] = Field(values[k])
<1>1. /\ Len(values) \in Nat /\ DOMAIN values = 1 .. Len(values)
      /\ \A k \in 1 .. Len(values) : values[k] \in Nat
  BY LenProperties, ElementOfSeq
<1>2. \A k \in 1 .. Len(values) : Field(values[k]) \in Seq(Token)
  BY <1>1, Tokens DEF Field
<1> HIDE DEF Field
<1>3. QED
  BY <1>1, <1>2 DEF Parts

\* What is left of the text of a sample, and of what comes after it, when k
\* fields have been read.
Suffix(values, after, k) == Rest(Parts(values), k) \o (<<Mark("]")>> \o after)

\* It is a sequence of tokens.
LEMMA SuffixTyped ==
  ASSUME NEW values \in Seq(Nat), NEW after \in Seq(Token), NEW k \in 0 .. Len(values)
  PROVE  /\ Rest(Parts(values), k) \in Seq(Token)
         /\ <<Mark("]")>> \o after \in Seq(Token)
         /\ Suffix(values, after, k) \in Seq(Token)
<1>1. Rest(Parts(values), k) \in Seq(Token)
  BY PartsTyped, RestTyped
<1>2. <<Mark("]")>> \o after \in Seq(Token)
  BY Tokens, ConcatProperties
<1>3. QED
  BY <1>1, <1>2, ConcatProperties DEF Suffix

\* After the last field there is the bracket.
LEMMA SuffixEnd ==
  ASSUME NEW values \in Seq(Nat), NEW after \in Seq(Token)
  PROVE  Suffix(values, after, Len(values)) = <<Mark("]")>> \o after
<1>1. Rest(Parts(values), Len(values)) = << >>
  BY PartsTyped, RestEnds
<1>2. <<Mark("]")>> \o after \in Seq(Token)
  BY Tokens, ConcatProperties
<1>3. QED
  BY <1>1, <1>2, ConcatEmptySeq DEF Suffix

\* The next field is at its front: the colon and the number.
LEMMA SuffixStep ==
  ASSUME NEW values \in Seq(Nat), NEW after \in Seq(Token), NEW k \in 1 .. Len(values)
  PROVE  LET number == Number(Printed(values[k]))
             s == Suffix(values, after, k)
         IN  /\ number \in Token /\ <<number>> \o s \in Seq(Token)
             /\ Suffix(values, after, k - 1) = <<Mark(":")>> \o (<<number>> \o s)
<1> DEFINE number == Number(Printed(values[k]))
           colon == Mark(":")
           r == Rest(Parts(values), k)
           end == <<Mark("]")>> \o after
<1>1. Len(values) \in Nat /\ values[k] \in Nat
  BY LenProperties, ElementOfSeq
<1>2. k \in 0 .. Len(values) /\ k - 1 \in 0 .. Len(values) - 1 /\ (k - 1) + 1 = k
  BY <1>1
<1>3. r \in Seq(Token) /\ end \in Seq(Token)
  BY <1>2, SuffixTyped
<1>4. number \in Token /\ colon \in Token
  BY <1>1, Tokens
<1>5. Rest(Parts(values), k - 1) = <<colon, number>> \o r
  <2>1. Rest(Parts(values), k - 1) =
          Parts(values)[(k - 1) + 1] \o Rest(Parts(values), (k - 1) + 1)
    BY <1>2, PartsTyped, RestStep
  <2>2. Parts(values)[k] = <<colon, number>>
    BY PartsTyped DEF Field
  <2>3. QED
    BY <1>2, <2>1, <2>2, Zenon
<1>6. Suffix(values, after, k - 1) = (<<colon, number>> \o r) \o end
      /\ Suffix(values, after, k) = r \o end
  BY <1>5 DEF Suffix
<1> HIDE DEF number, colon, r, end
<1>7. (<<colon, number>> \o r) \o end = <<colon>> \o (<<number>> \o (r \o end))
  <2> DEFINE x == r \o end
  <2>1. (<<colon, number>> \o r) \o end = <<colon, number>> \o x
    BY <1>3, <1>4
  <2>2. x \in Seq(Token)
    BY <1>3
  <2> HIDE DEF x
  <2>3. <<colon, number>> \o x = <<colon>> \o (<<number>> \o x)
    BY <1>4, <2>2
  <2>4. QED
    BY <2>1, <2>3 DEF x
<1>8. <<number>> \o (r \o end) \in Seq(Token)
  BY <1>3, <1>4
<1>9. QED
  BY <1>4, <1>6, <1>7, <1>8 DEF number, colon

\* The text of a sample is the opening bracket and all the fields.
LEMMA WriteSuffix ==
  ASSUME NEW values \in Seq(Nat), NEW after \in Seq(Token)
  PROVE  /\ Write(values) \o after = <<Mark("[")>> \o Suffix(values, after, 0)
         /\ Write(values) \in Seq(Token)
<1> DEFINE r == Rest(Parts(values), 0)
           open == Mark("[")
           close == Mark("]")
<1>1. FlattenSeq(Parts(values)) = r
  BY PartsTyped, RestEnds
<1>2. r \in Seq(Token)
  <2>1. 0 \in 0 .. Len(values)
    BY LenProperties
  <2>2. QED
    BY <2>1, SuffixTyped
<1>3. open \in Token /\ close \in Token
  BY Tokens
<1>4. Write(values) = <<open>> \o r \o <<close>>
  BY <1>1, WriteIs
<1>5. Suffix(values, after, 0) = r \o (<<close>> \o after)
  BY DEF Suffix
<1> HIDE DEF r, open, close
<1>6. /\ (<<open>> \o r \o <<close>>) \o after = <<open>> \o (r \o (<<close>> \o after))
      /\ <<open>> \o r \o <<close>> \in Seq(Token)
  BY <1>2, <1>3
<1>7. QED
  BY <1>4, <1>5, <1>6 DEF open

\* However many fields are left, the text goes on behind the bracket.
LEMMA SuffixIgnored ==
  ASSUME NEW values \in Seq(Nat), NEW after \in Seq(Token)
  PROVE  \A k \in 0 .. Len(values) : Ignore(Suffix(values, after, k), "]") = after
<1> DEFINE n == Len(values)
           P(j) == Ignore(Suffix(values, after, n - j), "]") = after
           G == {j \in 0 .. n : P(j)}
<1>1. n \in Nat
  BY LenProperties
<1>2. P(0)
  <2>1. n - 0 = n
    BY <1>1
  <2>2. Ignore(<<Mark("]")>> \o after, "]") = after
    BY Tokens, IgnoreHit
  <2>3. QED
    BY <2>1, <2>2, SuffixEnd
<1>3. ASSUME NEW j \in 0 .. n - 1, P(j) PROVE P(j + 1)
  <2> DEFINE k == n - j
             number == Number(Printed(values[k]))
             s == Suffix(values, after, k)
  <2>1. k \in 1 .. n /\ k \in 0 .. n /\ n - (j + 1) = k - 1
    BY <1>1
  <2>2. s \in Seq(Token)
    BY <2>1, SuffixTyped
  <2>3. /\ number \in Token /\ <<number>> \o s \in Seq(Token)
        /\ Suffix(values, after, k - 1) = <<Mark(":")>> \o (<<number>> \o s)
    BY <2>1, SuffixStep
  <2>4. number.kind # "]" /\ Mark(":").kind # "]" /\ Mark(":") \in Token
    BY Tokens
  <2>5. Ignore(s, "]") = after
    BY <1>3
  <2> HIDE DEF s, number, k
  <2>6. Ignore(<<number>> \o s, "]") = Ignore(s, "]")
    BY <2>2, <2>3, <2>4, IgnoreMiss
  <2> DEFINE t == <<number>> \o s
             colon == Mark(":")
  <2>7. t \in Seq(Token) /\ colon \in Token /\ colon.kind # "]"
    BY <2>3, <2>4
  <2> HIDE DEF t, colon
  <2>8. Ignore(<<colon>> \o t, "]") = Ignore(t, "]")
    BY <2>7, IgnoreMiss
  <2>9. QED
    BY <2>1, <2>3, <2>5, <2>6, <2>8 DEF t, colon
<1>4. \A j \in 0 .. n : P(j)
  <2>1. 0 \in G /\ \A j \in 0 .. n - 1 : j \in G => j + 1 \in G
    <3> HIDE DEF P
    <3>1. QED
      BY <1>1, <1>2, <1>3
  <2>2. \A j \in 0 .. n : j \in G
    <3> HIDE DEF G
    <3>1. QED
      BY <1>1, <2>1, IntervalSets
  <2>3. QED
    BY <2>2
<1>5. ASSUME NEW k \in 0 .. n PROVE Ignore(Suffix(values, after, k), "]") = after
  <2>1. n - k \in 0 .. n /\ n - (n - k) = k
    BY <1>1
  <2>2. P(n - k)
    BY <1>4, <2>1
  <2>3. QED
    BY <2>1, <2>2
<1>6. QED
  BY <1>5

\* The number of values of a sample.
NumFields == 5 + MaxCustomFields

\* They are NumFields numbers, of which the first is the flag.
LEMMA ValuesTyped ==
  ASSUME NEW s \in NatSample
  PROVE  /\ Values(s) \in Seq(Nat) /\ Len(Values(s)) = NumFields
         /\ Values(s)[1] \in {0, 1}
<1> DEFINE front == <<IF s.inconsistent THEN 1 ELSE 0, s.loadPercentage,
                      s.throughput, s.latency, s.numTasks>>
           back == s.customFields
<1>1. front \in Seq(Nat) /\ Len(front) = 5 /\ front[1] \in {0, 1}
  BY DEF NatSample
<1>2. back \in Seq(Nat) /\ Len(back) = MaxCustomFields
  BY SampleAssumption DEF NatSample, Fields
<1>3. Values(s) = front \o back
  BY DEF Values
<1> HIDE DEF front, back
<1>4. /\ front \o back \in Seq(Nat) /\ Len(front \o back) = 5 + MaxCustomFields
      /\ (front \o back)[1] = front[1]
  <2>1. Len(front) + Len(back) = 5 + MaxCustomFields /\ 1 \in 1 .. Len(front) + Len(back)
    BY <1>1, <1>2, SampleAssumption
  <2> DEFINE w == front \o back
  <2>2. /\ w \in Seq(Nat) /\ Len(w) = Len(front) + Len(back)
        /\ \A i \in 1 .. Len(front) + Len(back) :
             w[i] = IF i <= Len(front) THEN front[i] ELSE back[i - Len(front)]
    BY <1>1, <1>2, ConcatProperties
  <2> HIDE DEF w
  <2>3. /\ w \in Seq(Nat) /\ Len(w) = 5 + MaxCustomFields /\ w[1] = front[1]
    BY <1>1, <2>1, <2>2
  <2>4. QED
    BY <2>3 DEF w
<1>5. QED
  BY <1>1, <1>3, <1>4 DEF NumFields

\* operator>> fills the fields in the order in which operator<< writes them.
LEMMA SameOrder ==
  ASSUME NEW T, NEW v \in [1 .. NumFields -> T], v[1] \in {0, 1}
  PROVE  Values(FromValues(v)) = v
<1> DEFINE s == FromValues(v)
           front == <<v[1], v[2], v[3], v[4], v[5]>>
           back == [j \in Fields |-> v[5 + j]]
<1>1. MaxCustomFields \in Nat /\ NumFields \in Nat /\ NumFields >= 5
  BY SampleAssumption DEF NumFields
<1>2. Values(s) = front \o back
  BY DEF Values, FromValues
<1>3. front \in Seq(T) /\ Len(front) = 5 /\ \A k \in 1 .. 5 : front[k] = v[k]
  BY <1>1
<1>4. /\ back \in Seq(T) /\ Len(back) = MaxCustomFields
      /\ \A j \in 1 .. MaxCustomFields : back[j] = v[5 + j]
  BY <1>1 DEF Fields, NumFields
<1>5. v \in Seq(T) /\ Len(v) = NumFields
  BY <1>1
<1> HIDE DEF front, back
<1> DEFINE w == front \o back
<1>6. /\ w \in Seq(T) /\ Len(w) = NumFields
      /\ \A i \in 1 .. NumFields : w[i] = IF i <= 5 THEN front[i] ELSE back[i - 5]
  <2>1. Len(front) + Len(back) = NumFields
    BY <1>3, <1>4 DEF NumFields
  <2>2. /\ w \in Seq(T) /\ Len(w) = Len(front) + Len(back)
        /\ \A i \in 1 .. Len(front) + Len(back) :
             w[i] = IF i <= Len(front) THEN front[i] ELSE back[i - Len(front)]
    BY <1>3, <1>4, ConcatProperties
  <2> HIDE DEF w
  <2>3. QED
    BY <1>3, <2>1, <2>2
<1>7. ASSUME NEW i \in 1 .. NumFields PROVE w[i] = v[i]
  <2> HIDE DEF w
  <2>1. CASE i <= 5
    BY <1>1, <1>3, <1>6, <2>1
  <2>2. CASE i > 5
    <3>1. i - 5 \in 1 .. MaxCustomFields /\ 5 + (i - 5) = i
      BY <1>1, <2>2 DEF NumFields
    <3>2. back[i - 5] = v[i]
      BY <1>4, <3>1
    <3>3. QED
      BY <1>1, <1>6, <2>2, <3>2
  <2>3. QED
    BY <1>1, <2>1, <2>2
<1> HIDE DEF w
<1>8. w = v
  BY <1>5, <1>6, <1>7, SeqEqual
<1>9. QED
  BY <1>2, <1>8 DEF w

\* The loop of operator>>.
IsReads(f, text, start) ==
  f = [k \in 0 .. Len(start) |->
         IF k = 0 THEN [text |-> Ignore(text, "["), values |-> start]
         ELSE ReadField(f[k - 1], k)]

Reads(text, start) == CHOOSE f : IsReads(f, text, start)

\* operator>> takes the values at the end of the loop and skips the bracket.
LEMMA ReadIs ==
  ASSUME NEW text, NEW s
  PROVE  Read(text, s) =
           LET end == Reads(text, Values(s))[Len(Values(s))]
           IN  [text |-> Ignore(end.text, "]"), sample |-> FromValues(end.values)]
  BY Zenon DEF Read, Reads, IsReads

\* The stream and the values when k fields have been read.
ReadTo(values, after, start, k) ==
  [text |-> Suffix(values, after, k),
   values |-> [j \in 1 .. Len(start) |->
                 IF j <= k THEN Printed(values[j]) ELSE start[j]]]

\* The front of a sequence can be taken off.
LEMMA FrontOff ==
  ASSUME NEW T, NEW a \in T, NEW t \in Seq(T)
  PROVE  <<a>> \o t # << >> /\ Head(<<a>> \o t) = a /\ Tail(<<a>> \o t) = t
  OBVIOUS

\* A round of the loop reads the next field.
LEMMA ReadFieldStep ==
  ASSUME NEW values \in Seq(Nat), NEW after \in Seq(Token), NEW start \in Seq(Nat),
         NEW k \in 1 .. Len(values), k <= Len(start)
  PROVE  ReadField(ReadTo(values, after, start, k - 1), k) =
           ReadTo(values, after, start, k)
<1> DEFINE is == ReadTo(values, after, start, k - 1)
           number == Number(Printed(values[k]))
           s == Suffix(values, after, k)
           rest == <<number>> \o s
           colon == Mark(":")
           old == [j \in 1 .. Len(start) |->
                     IF j <= k - 1 THEN Printed(values[j]) ELSE start[j]]
           new == [j \in 1 .. Len(start) |->
                     IF j <= k THEN Printed(values[j]) ELSE start[j]]
<1>1. Len(start) \in Nat /\ Len(values) \in Nat /\ k \in 0 .. Len(values)
  BY LenProperties
<1>2. number \in Token /\ rest \in Seq(Token) /\ is.text = <<colon>> \o rest
  BY SuffixStep DEF ReadTo
<1>3. colon \in Token /\ colon.kind = ":" /\ number.value = Printed(values[k])
  BY Tokens
<1>4. s \in Seq(Token)
  BY <1>1, SuffixTyped
<1>5. is = [text |-> is.text, values |-> old]
  BY DEF ReadTo
<1>6. [old EXCEPT ![k] = Printed(values[k])] = new
  <2> DEFINE p(j) == Printed(values[j])
             both == [old EXCEPT ![k] = p(k)]
  <2> HIDE DEF p
  <2>1. ASSUME NEW j \in 1 .. Len(start) PROVE both[j] = IF j <= k THEN p(j) ELSE start[j]
    <3>1. k \in Int /\ j \in Int /\ (j <= k - 1 <=> j <= k /\ j # k)
      BY <1>1
    <3>2. CASE j = k
      BY <3>1, <3>2
    <3>3. CASE j # k
      <4>1. both[j] = old[j]
        BY <3>3
      <4>2. old[j] = IF j <= k - 1 THEN p(j) ELSE start[j]
        BY DEF p
      <4>3. QED
        BY <3>1, <3>3, <4>1, <4>2
    <3>4. QED
      BY <3>2, <3>3
  <2>2. both = [j \in 1 .. Len(start) |-> both[j]]
    OBVIOUS
  <2> HIDE DEF both
  <2>3. both = new
    BY <2>1, <2>2 DEF p
  <2>4. QED
    BY <2>3 DEF both, p
<1>7. ReadTo(values, after, start, k) = [text |-> s, values |-> new]
  BY DEF ReadTo
<1> HIDE DEF is, number, s, colon, old, new
<1>8. rest # << >> /\ Head(rest) = number /\ Tail(rest) = s
  BY <1>2, <1>4, FrontOff
<1> HIDE DEF rest
<1>9. Ignore(is.text, ":") = rest
  BY <1>2, <1>3, IgnoreHit
<1>10. ReadField(is, k) = [text |-> s, values |-> [is.values EXCEPT ![k] = number.value]]
  BY <1>8, <1>9 DEF ReadField
<1>11. is.values = old
  BY <1>5
<1>12. QED
  BY <1>3, <1>6, <1>7, <1>10, <1>11 DEF is

\* A sample that is written is read, up to the printed precision, whatever
\* follows it and if the writer has more fields.
LEMMA ReadBack ==
  ASSUME NEW values \in Seq(Nat), NEW after \in Seq(Token), Len(values) >= NumFields
  PROVE  Read(Write(values) \o after, EmptySample) =
           [text |-> after,
            sample |-> FromValues([k \in 1 .. NumFields |-> Printed(values[k])])]
<1> DEFINE start == Values(EmptySample)
           text == Write(values) \o after
           f == Reads(text, start)
           g == [k \in 0 .. NumFields |-> ReadTo(values, after, start, k)]
<1>1. start \in Seq(Nat) /\ Len(start) = NumFields
  BY EmptyIsNat, ValuesTyped
<1>2. NumFields \in Nat /\ Len(values) \in Nat /\ 0 \in 0 .. Len(values)
  BY SampleAssumption, LenProperties DEF NumFields
<1>3. Ignore(text, "[") = Suffix(values, after, 0)
  <2> DEFINE open == Mark("[")
             s == Suffix(values, after, 0)
  <2>1. s \in Seq(Token) /\ open \in Token /\ open.kind = "[" /\ text = <<open>> \o s
    BY <1>2, SuffixTyped, Tokens, WriteSuffix
  <2> HIDE DEF open, s, text
  <2>2. QED
    BY <2>1, IgnoreHit DEF s
<1> HIDE DEF start, text
<1>4. start = [j \in 1 .. Len(start) |-> start[j]]
  BY <1>1, LenProperties
<1>5. g[0] = [text |-> Ignore(text, "["), values |-> start]
  <2>1. \A j \in 1 .. Len(start) : ~(j <= 0)
    BY <1>1, <1>2
  <2>2. start = [j \in 1 .. Len(start) |->
                   IF j <= 0 THEN Printed(values[j]) ELSE start[j]]
    BY <1>4, <2>1
  <2>3. QED
    BY <1>2, <1>3, <2>2 DEF ReadTo
<1>6. ASSUME NEW k \in 1 .. NumFields PROVE g[k] = ReadField(g[k - 1], k)
  <2>1. k \in 0 .. NumFields /\ k - 1 \in 0 .. NumFields /\ k \in 1 .. Len(values)
        /\ k <= Len(start)
    BY <1>1, <1>2
  <2>2. /\ g[k] = ReadTo(values, after, start, k)
        /\ g[k - 1] = ReadTo(values, after, start, k - 1)
    BY <2>1
  <2> HIDE DEF g
  <2>3. QED
    BY <1>1, <2>1, <2>2, ReadFieldStep
<1>7. g = [k \in 0 .. NumFields |-> g[k]]
  OBVIOUS
<1>8. g[NumFields] = ReadTo(values, after, start, NumFields)
  BY <1>2
<1> HIDE DEF g
<1>9. IsReads(g, text, start)
  <2>1. \A k \in 0 .. NumFields : k = 0 \/ k \in 1 .. NumFields
    BY <1>2
  <2>2. \A k \in 0 .. NumFields :
          g[k] = IF k = 0 THEN [text |-> Ignore(text, "["), values |-> start]
                 ELSE ReadField(g[k - 1], k)
    BY <1>5, <1>6, <2>1
  <2>3. QED
    BY <1>1, <1>7, <2>2 DEF IsReads
<1>10. IsReads(f, text, start)
  BY <1>9, Zenon DEF Reads
<1> HIDE DEF f
<1>11. /\ f[0] = [text |-> Ignore(text, "["), values |-> start]
       /\ \A k \in 1 .. NumFields : f[k] = ReadField(f[k - 1], k)
  BY <1>1, <1>2, <1>10 DEF IsReads
<1>12. \A k \in 0 .. NumFields : f[k] = g[k]
  <2> DEFINE G == {k \in 0 .. NumFields : f[k] = g[k]}
  <2>1. 0 \in G
    BY <1>2, <1>5, <1>11
  <2>2. ASSUME NEW k \in 0 .. NumFields - 1, f[k] = g[k] PROVE f[k + 1] = g[k + 1]
    <3>1. k + 1 \in 1 .. NumFields /\ (k + 1) - 1 = k
      BY <1>2
    <3>2. QED
      BY <1>6, <1>11, <2>2, <3>1
  <2>3. \A k \in 0 .. NumFields - 1 : k \in G => k + 1 \in G
    BY <1>2, <2>2
  <2>4. \A k \in 0 .. NumFields : k \in G
    <3> HIDE DEF G
    <3>1. QED
      BY <1>2, <2>1, <2>3, IntervalSets
  <2>5. QED
    BY <2>4
<1>13. f[NumFields] = ReadTo(values, after, start, NumFields)
  BY <1>2, <1>8, <1>12
<1>14. /\ f[NumFields].text = Suffix(values, after, NumFields)
       /\ f[NumFields].values = [k \in 1 .. NumFields |-> Printed(values[k])]
  <2>1. ReadTo(values, after, start, NumFields).values =
          [j \in 1 .. NumFields |->
             IF j <= NumFields THEN Printed(values[j]) ELSE start[j]]
    BY <1>1 DEF ReadTo
  <2>2. \A j \in 1 .. NumFields : j <= NumFields
    BY <1>2
  <2>3. ReadTo(values, after, start, NumFields).text = Suffix(values, after, NumFields)
    BY DEF ReadTo
  <2>4. QED
    BY <1>13, <2>1, <2>2, <2>3
<1>15. Ignore(f[NumFields].text, "]") = after
  BY <1>2, <1>14, SuffixIgnored
<1>16. Read(text, EmptySample) = [text |-> Ignore(f[NumFields].text, "]"),
                                  sample |-> FromValues(f[NumFields].values)]
  BY <1>1, ReadIs DEF f, start
<1>17. QED
  BY <1>14, <1>15, <1>16 DEF text

-----------------------------------------------------------------------------
(* A log of answers. *)

Extra == [j \in 1 .. ExtraFields |-> 1]
Entry(s) == Write(Values(s) \o Extra)
Entries(rs) == [k \in DOMAIN rs |-> Entry(rs[k])]

\* A sample as it is printed.
PrintedValues(s) == [k \in 1 .. NumFields |-> Printed(Values(s)[k])]

\* A sample of the log is read, and what follows it is left.
LEMMA EntryRead ==
  ASSUME NEW s \in NatSample, NEW after \in Seq(Token)
  PROVE  /\ Entry(s) \in Seq(Token)
         /\ Read(Entry(s) \o after, EmptySample) =
              [text |-> after, sample |-> FromValues(PrintedValues(s))]
<1> DEFINE v == Values(s)
           values == v \o Extra
<1>1. v \in Seq(Nat) /\ Len(v) = NumFields /\ NumFields \in Nat
  BY ValuesTyped, SampleAssumption DEF NumFields
<1>2. Extra \in Seq(Nat) /\ Len(Extra) \in Nat
  BY ReportsAssumption DEF Extra
<1> HIDE DEF v
<1>3. /\ values \in Seq(Nat) /\ Len(values) = NumFields + Len(Extra)
      /\ \A i \in 1 .. NumFields + Len(Extra) :
           values[i] = IF i <= NumFields THEN v[i] ELSE Extra[i - NumFields]
  BY <1>1, <1>2, ConcatProperties
<1> HIDE DEF values
<1>4. Len(values) >= NumFields /\ \A i \in 1 .. NumFields : values[i] = v[i]
  BY <1>1, <1>2, <1>3
<1>5. [k \in 1 .. NumFields |-> Printed(values[k])] = PrintedValues(s)
  BY <1>4 DEF PrintedValues, v
<1>6. Entry(s) = Write(values)
  BY DEF Entry, values, v
<1>7. Write(values) \in Seq(Token)
  BY <1>3, WriteSuffix
<1>8. Read(Write(values) \o after, EmptySample) =
        [text |-> after,
         sample |-> FromValues([k \in 1 .. NumFields |-> Printed(values[k])])]
  BY <1>3, <1>4, ReadBack
<1>9. QED
  BY <1>5, <1>6, <1>7, <1>8

\* What is read from the log.
IsLogRead(f, rs) ==
  f = [k \in 0 .. Len(rs) |->
         IF k = 0 THEN [text |-> FlattenSeq(Entries(rs)), sample |-> EmptySample]
         ELSE Read(f[k - 1].text, EmptySample)]

LogRead(rs) == CHOOSE f : IsLogRead(f, rs)

\* Answer by answer, until nothing is left.
LEMMA LogIsRead ==
  ASSUME NEW rs \in Seq(NatSample)
  PROVE  /\ LogRead(rs)[Len(rs)].text = << >>
         /\ \A k \in 1 .. Len(rs) :
              LogRead(rs)[k].sample = FromValues(PrintedValues(rs[k]))
<1> DEFINE n == Len(rs)
           w == Entries(rs)
           f == LogRead(rs)
           start == [text |-> FlattenSeq(w), sample |-> EmptySample]
           to(k) == [text |-> Rest(w, k), sample |-> FromValues(PrintedValues(rs[k]))]
           g == [k \in 0 .. n |-> IF k = 0 THEN start ELSE to(k)]
<1>1. n \in Nat /\ DOMAIN rs = 1 .. n /\ \A k \in 1 .. n : rs[k] \in NatSample
  BY LenProperties, ElementOfSeq
<1>2. \A k \in 1 .. n : Entry(rs[k]) \in Seq(Token)
  <2>1. << >> \in Seq(Token)
    OBVIOUS
  <2>2. QED
    BY <1>1, <2>1, EntryRead
<1>3. /\ w \in Seq(Seq(Token)) /\ Len(w) = n
      /\ \A k \in 1 .. n : w[k] = Entry(rs[k])
  BY <1>1, <1>2 DEF Entries
<1> HIDE DEF w, n
<1>4. FlattenSeq(w) = Rest(w, 0) /\ Rest(w, n) = << >>
  BY <1>3, RestEnds
<1>5. \A k \in 0 .. n : g[k].text = Rest(w, k)
  BY <1>4
<1>6. g[0] = start /\ \A k \in 1 .. n : g[k] = to(k)
  BY <1>1
<1>7. g = [k \in 0 .. n |-> g[k]]
  OBVIOUS
<1> HIDE DEF g
<1>8. ASSUME NEW k \in 1 .. n PROVE g[k] = Read(g[k - 1].text, EmptySample)
  <2>1. k - 1 \in 0 .. n - 1 /\ k - 1 \in 0 .. n /\ (k - 1) + 1 = k /\ k \in 0 .. n
    BY <1>1
  <2>2. Rest(w, k - 1) = w[(k - 1) + 1] \o Rest(w, (k - 1) + 1)
    BY <1>3, <2>1, RestStep
  <2>3. Rest(w, k - 1) = Entry(rs[k]) \o Rest(w, k)
    BY <1>3, <2>1, <2>2
  <2>4. Rest(w, k) \in Seq(Token) /\ rs[k] \in NatSample
    BY <1>1, <1>3, <2>1, RestTyped
  <2>5. Read(Entry(rs[k]) \o Rest(w, k), EmptySample) = to(k)
    <3> DEFINE after == Rest(w, k)
               s == rs[k]
    <3>1. after \in Seq(Token) /\ s \in NatSample
      BY <2>4
    <3> HIDE DEF after, s
    <3>2. Read(Entry(s) \o after, EmptySample) =
            [text |-> after, sample |-> FromValues(PrintedValues(s))]
      BY <3>1, EntryRead
    <3>3. QED
      BY <3>2 DEF after, s
  <2>6. g[k - 1].text = Rest(w, k - 1) /\ g[k] = to(k)
    BY <1>5, <1>6, <2>1
  <2>7. QED
    BY <2>3, <2>5, <2>6
<1>9. IsLogRead(g, rs)
  <2>1. \A k \in 0 .. n : k = 0 \/ k \in 1 .. n
    BY <1>1
  <2>2. \A k \in 0 .. n : g[k] = IF k = 0 THEN start ELSE Read(g[k - 1].text, EmptySample)
    BY <1>6, <1>8, <2>1
  <2>3. QED
    BY <1>7, <2>2 DEF IsLogRead, n, w
<1>10. IsLogRead(f, rs)
  BY <1>9, Zenon DEF LogRead
<1> HIDE DEF f
<1>11. f[0] = start /\ \A k \in 1 .. n : f[k] = Read(f[k - 1].text, EmptySample)
  <2>1. 0 \in 0 .. n /\ \A k \in 1 .. n : k \in 0 .. n /\ k # 0
    BY <1>1
  <2>2. QED
    BY <1>10, <2>1 DEF IsLogRead, n, w
<1>12. \A k \in 0 .. n : f[k] = g[k]
  <2> DEFINE G == {k \in 0 .. n : f[k] = g[k]}
  <2>1. 0 \in G
    BY <1>1, <1>6, <1>11
  <2>2. ASSUME NEW k \in 0 .. n - 1, f[k] = g[k] PROVE f[k + 1] = g[k + 1]
    <3>1. k + 1 \in 1 .. n /\ (k + 1) - 1 = k
      BY <1>1
    <3>2. QED
      BY <1>8, <1>11, <2>2, <3>1
  <2>3. \A k \in 0 .. n - 1 : k \in G => k + 1 \in G
    BY <1>1, <2>2
  <2>4. \A k \in 0 .. n : k \in G
    <3> HIDE DEF G
    <3>1. QED
      BY <1>1, <2>1, <2>3, IntervalSets
  <2>5. QED
    BY <2>4
<1>13. f[n].text = << >>
  BY <1>1, <1>4, <1>5, <1>12
<1>14. ASSUME NEW k \in 1 .. n PROVE f[k].sample = FromValues(PrintedValues(rs[k]))
  <2>1. f[k] = to(k)
    BY <1>1, <1>6, <1>12
  <2>2. QED
    BY <2>1
<1>15. QED
  BY <1>13, <1>14 DEF f, n

\* The property, with the names above.
LEMMA LogReadsBackIs ==
  LogReadsBack <=>
    (JustAnswered =>
       /\ LogRead(received)[Len(received)].text = << >>
       /\ \A k \in DOMAIN received :
            Values(LogRead(received)[k].sample) =
              [f \in DOMAIN Values(received[k]) |-> Printed(Values(received[k])[f])])
  BY Zenon DEF LogReadsBack, LogRead, IsLogRead, Entries, Entry, Extra

\* The log of the answers reads back: ApplicationSample's operator>> finds the
\* fields of each sample that operator<< wrote, in their order, skips the ones
\* that it does not know, and leaves the stream at the next sample.
THEOREM LogReads == Spec => []LogReadsBack
<1>1. ASSUME ShapeInv PROVE LogReadsBack
  <2> DEFINE rs == received
  <2>1. rs \in Seq(NatSample)
    BY <1>1 DEF ShapeInv, Shapes, AnswersShape
  <2> HIDE DEF rs
  <2>2. /\ LogRead(rs)[Len(rs)].text = << >>
        /\ \A k \in 1 .. Len(rs) :
             LogRead(rs)[k].sample = FromValues(PrintedValues(rs[k]))
    BY <2>1, LogIsRead
  <2>3. DOMAIN rs = 1 .. Len(rs) /\ \A k \in 1 .. Len(rs) : rs[k] \in NatSample
    BY <2>1, LenProperties, ElementOfSeq
  <2>4. ASSUME NEW s \in NatSample
        PROVE  /\ PrintedValues(s) = [f \in DOMAIN Values(s) |-> Printed(Values(s)[f])]
               /\ Values(FromValues(PrintedValues(s))) = PrintedValues(s)
    <3> DEFINE v == Values(s)
               T == {Printed(x) : x \in Nat}
               p == PrintedValues(s)
    <3>1. v \in Seq(Nat) /\ Len(v) = NumFields /\ v[1] \in {0, 1}
      BY ValuesTyped
    <3>2. DOMAIN v = 1 .. NumFields /\ \A k \in 1 .. NumFields : v[k] \in Nat
      BY <3>1, LenProperties, ElementOfSeq
    <3>3. p = [f \in DOMAIN v |-> Printed(v[f])]
      BY <3>2 DEF PrintedValues
    <3>4. p \in [1 .. NumFields -> T]
      BY <3>2 DEF PrintedValues
    <3>5. 1 \in 1 .. NumFields
      BY SampleAssumption DEF NumFields
    <3>6. p[1] \in {0, 1}
      BY <3>1, <3>5, PrintedFlag DEF PrintedValues
    <3> HIDE DEF p, v, T
    <3>7. Values(FromValues(p)) = p
      BY <3>4, <3>6, SameOrder
    <3>8. QED
      BY <3>3, <3>7 DEF p, v
  <2>5. ASSUME NEW k \in DOMAIN rs
        PROVE  Values(LogRead(rs)[k].sample) =
                 [f \in DOMAIN Values(rs[k]) |-> Printed(Values(rs[k])[f])]
    <3> DEFINE s == rs[k]
    <3>1. s \in NatSample /\ LogRead(rs)[k].sample = FromValues(PrintedValues(s))
      BY <2>2, <2>3
    <3> HIDE DEF s
    <3>2. Values(FromValues(PrintedValues(s))) =
            [f \in DOMAIN Values(s) |-> Printed(Values(s)[f])]
      BY <2>4, <3>1
    <3>3. QED
      BY <3>1, <3>2 DEF s
  <2>6. QED
    BY <2>2, <2>5, LogReadsBackIs DEF rs
<1>2. QED
  BY <1>1, ShapeAlways, PTL
=============================================================================
