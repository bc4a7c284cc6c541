------------------------------- MODULE Reports -------------------------------
(***************************************************************************)
(* The numbers a riff Application reports about several threads: the       *)
(* sample that the support thread builds from those of the threads (sums,  *)
(* averages, the inconsistent flag, custom values).                        *)
(*                                                                         *)
(* Module Riff has the steps of the hand-over of a sample and the messages,*)
(* and module Sampling has how one thread measures; here a begin() that    *)
(* consolidates is one step, which stores any member of Measured, and an   *)
(* answer is received when it is sent.                                     *)
(***************************************************************************)
EXTENDS ApplicationSample, Sums

CONSTANTS
  NumThreads,    \* numThreads of the constructor
  Measured,      \* what begin() may have measured when it stores a sample,
                 \* the custom fields aside
  ExtraFields,   \* custom fields that a written text has more than are read
  MaxStores,     \* bound: storeCustomValue() calls
  MaxAnswers     \* bound: getSample() calls that return true

ASSUME ReportsAssumption ==
  /\ NumThreads \in Nat \ {0}
  /\ Measured \subseteq [inconsistent : BOOLEAN, loadPercentage : Nat,
                         throughput : Nat, latency : Nat, numTasks : Nat \ {0}]
  /\ ExtraFields \in Nat /\ MaxStores \in Nat /\ MaxAnswers \in Nat

\* The instance is chosen so that every division is exact.
ASSUME ExactDivisions ==
  \A m \in Measured, n \in 1 .. NumThreads :
    /\ m.latency % (m.numTasks * n) = 0
    /\ m.loadPercentage % n = 0 /\ m.throughput % n = 0

Threads == 0 .. NumThreads - 1

VARIABLES
  \* The fields of ThreadData, one value per thread.
  customFields,          \* sample.customFields
  begun,                 \* computeStart # 0
  consolidatedSample, consolidate,
  \* The fields of Application.
  adjustThroughput,      \* of the configuration
  aggregator,            \* _aggregator: "none", or "sum" as in the demo
  inconsistentSample, supportStop,
  \* The support thread and its local variables.
  support,               \* [pc, i, sample, updated, inconsistent, customVec]
  \* History, which no action reads.
  received,              \* the samples the monitor has received
  request, answered,     \* [marked, taken] of the request being served and of
                         \* the last one answered: whether
                         \* markInconsistentSamples() had been called when it
                         \* came, and the samples taken for it
  stores                 \* number of storeCustomValue() calls

threadVars == <<customFields, begun>>
handshakeVars == <<consolidatedSample, consolidate>>
configVars == <<adjustThroughput, aggregator>>
answers == <<request, answered, received>>

vars == <<threadVars, handshakeVars, configVars, inconsistentSample,
          supportStop, support, answers, stores>>

\* The support thread with a fresh answer.
SupportAt(label) ==
  [pc |-> label, i |-> 0, sample |-> EmptySample, updated |-> 0,
   inconsistent |-> 0, customVec |-> << >>]

NoRequest == [marked |-> FALSE, taken |-> << >>]

Init ==
  /\ customFields = [t \in Threads |-> EmptySample.customFields]
  /\ begun = [t \in Threads |-> FALSE]
  /\ consolidatedSample = [t \in Threads |-> EmptySample]
  /\ consolidate = [t \in Threads |-> FALSE]
  /\ adjustThroughput \in BOOLEAN /\ aggregator \in {"none", "sum"}
  /\ inconsistentSample = FALSE /\ supportStop = FALSE
  /\ support = SupportAt("check")
  /\ request = NoRequest /\ answered = NoRequest /\ received = << >>
  /\ stores = 0

-----------------------------------------------------------------------------
(* The instrumented program *)

\* Its steps leave these alone.
OtherThanProgram == UNCHANGED <<configVars, support, answers>>

\* Mutant: the running sample keeps its custom fields.
FieldsAfterStore_Kept(t) == customFields[t]

\* sample = ApplicationSample()
FieldsAfterStore(t) == EmptySample.customFields

\* The first begin() of thread t has nothing to close.
FirstBegin(t) ==
  /\ ~begun[t] /\ ~supportStop
  /\ begun' = [begun EXCEPT ![t] = TRUE]
  /\ UNCHANGED <<customFields, handshakeVars, inconsistentSample, supportStop,
                 stores>>
  /\ OtherThanProgram

\* A later begin() that finds the flag raised: the sample is stored and reset
\* and the flag lowered.  The others do not touch what is modelled here.
StoreSample(t) ==
  /\ begun[t] /\ consolidate[t] /\ ~supportStop
  /\ \E m \in Measured :
       consolidatedSample' =
         [consolidatedSample EXCEPT ![t] =
            Copy([f \in DOMAIN EmptySample |->
                    IF f = "customFields" THEN customFields[t] ELSE m[f]])]
  /\ customFields' = [customFields EXCEPT ![t] = FieldsAfterStore(t)]
  /\ consolidate' = [consolidate EXCEPT ![t] = FALSE]
  /\ UNCHANGED <<begun, inconsistentSample, supportStop, stores>>
  /\ OtherThanProgram

\* storeCustomValue(j - 1, v, t), before or after end(); the values are
\* numbered.  A wrong index or thread ends in an exception that changes
\* nothing (the first thread number past the end in the one of at()).
storeCustomValue(t, j) ==
  /\ stores < MaxStores /\ ~supportStop
  /\ stores' = stores + 1
  /\ customFields' = [customFields EXCEPT ![t][j] = stores + 1]
  /\ UNCHANGED <<begun, handshakeVars, inconsistentSample, supportStop>>
  /\ OtherThanProgram

markInconsistentSamples ==
  /\ ~inconsistentSample /\ ~supportStop
  /\ inconsistentSample' = TRUE
  /\ UNCHANGED <<threadVars, handshakeVars, supportStop, stores>>
  /\ OtherThanProgram

\* terminate(), of which only this store concerns the support thread.
SetStop ==
  /\ ~supportStop
  /\ supportStop' = TRUE
  /\ UNCHANGED <<threadVars, handshakeVars, inconsistentSample, stores>>
  /\ OtherThanProgram

-----------------------------------------------------------------------------
(* The support thread: applicationSupportThread() *)

OtherThanSupport ==
  UNCHANGED <<threadVars, configVars, inconsistentSample, supportStop, stores>>

\* while(!_supportStop)
SupportCheck ==
  /\ support.pc = "check"
  /\ support' = SupportAt(IF supportStop THEN "exited" ELSE "recv")
  /\ UNCHANGED <<handshakeVars, answers>>
  /\ OtherThanSupport

\* A request arrives and the flags are raised.
SupportReceive ==
  /\ support.pc = "recv" /\ Len(received) < MaxAnswers
  /\ support' = SupportAt("collect")
  /\ consolidate' = [t \in Threads |-> TRUE]
  /\ request' = [NoRequest EXCEPT !.marked = inconsistentSample]
  /\ UNCHANGED <<consolidatedSample, answered, received>>
  /\ OtherThanSupport

\* Mutant: the support thread does not wait for the threads.
keepWaitingSample_Never(t) == FALSE

keepWaitingSample(t) == consolidate[t] /\ ~supportStop

\* Mutant: inconsistent samples are left out of all the sums.
Summed_ConsistentOnly(sum, s) ==
  IF s.inconsistent THEN sum
  ELSE [sum EXCEPT !.loadPercentage = @ + s.loadPercentage,
                   !.latency = @ + s.latency \div s.numTasks,
                   !.throughput = @ + s.throughput, !.numTasks = @ + s.numTasks]

\* Load and mean latency are added if they are reliable, throughput and
\* tasks always.
Summed(sum, s) ==
  LET reliable(x) == IF s.inconsistent THEN 0 ELSE x
  IN  [sum EXCEPT !.loadPercentage = @ + reliable(s.loadPercentage),
                  !.latency = @ + reliable(s.latency \div s.numTasks),
                  !.throughput = @ + s.throughput, !.numTasks = @ + s.numTasks]

\* Mutant: updatedSamples counts the consistent samples only.
Updated_ConsistentOnly(n, s) == IF s.inconsistent THEN n ELSE n + 1

\* ++updatedSamples
Updated(n, s) == n + 1

\* The sample of a thread joins the answer.
AddSample(answer, s) ==
  [answer EXCEPT !.sample = Summed(@, s),
                 !.updated = Updated(@, s),
                 !.inconsistent = IF s.inconsistent THEN @ + 1 ELSE @,
                 !.customVec = Append(@, s.customFields)]

\* One round of the collecting loop, once the wait for thread i is over.
Collect ==
  /\ support.pc = "collect"
  /\ ~keepWaitingSample(support.i)
  /\ LET i == support.i
         s == consolidatedSample[i]
         next == [support EXCEPT
                    !.i = IF i + 1 < NumThreads THEN i + 1 ELSE 0,
                    !.pc = IF i + 1 < NumThreads THEN @ ELSE "aggregate"]
     IN  IF consolidate[i]
         THEN /\ support' = next
              /\ UNCHANGED <<consolidatedSample, request>>
         ELSE /\ support' = AddSample(next, s)
              /\ consolidatedSample' = [consolidatedSample EXCEPT ![i] = EmptySample]
              /\ request' = [request EXCEPT !.taken = Append(@, s)]
  /\ UNCHANGED <<consolidate, answered, received>>
  /\ OtherThanSupport

\* The throughput of the threads that did not answer is taken to be that of
\* the others.
AdjustedThroughput(answer) ==
  LET sum == answer.sample.throughput
  IN  IF adjustThroughput /\ answer.updated # NumThreads
      THEN sum + (sum \div answer.updated) * (NumThreads - answer.updated)
      ELSE sum

\* Mutant: the averages are taken over all the samples.
Reliable_All(answer) == answer.updated

\* The number of samples whose load and latency were added.
Reliable(answer) == answer.updated - answer.inconsistent

\* Mutant: one inconsistent thread makes the answer inconsistent.
Unreliable_Any(answer) == answer.inconsistent > 0 \/ inconsistentSample

Unreliable(answer) ==
  answer.inconsistent = answer.updated \/ inconsistentSample

\* The flag, or the averages.
Averaged(answer) ==
  IF Unreliable(answer)
  THEN [answer.sample EXCEPT !.inconsistent = TRUE,
                             !.throughput = AdjustedThroughput(answer)]
  ELSE [answer.sample EXCEPT !.loadPercentage = @ \div Reliable(answer),
                             !.latency = @ \div Reliable(answer),
                             !.throughput = AdjustedThroughput(answer)]

\* DemoAggregator::aggregate
aggregate(customValues) == SumOver(customValues)

\* customVec holds one row per collected sample; each field's column goes to
\* the aggregator, or its first value is taken if it has one.
AggregatedFields(answer) ==
  [j \in Fields |->
     LET column == [k \in DOMAIN answer.customVec |-> answer.customVec[k][j]]
     IN  IF aggregator = "sum" THEN aggregate(column)
         ELSE IF column # << >> THEN column[1]
         ELSE answer.sample.customFields[j]]

\* The answer is completed, or "FATAL ERROR: !_supportStop" is thrown.
Aggregate ==
  /\ support.pc = "aggregate"
  /\ LET missing == \/ support.updated = 0
                    \/ adjustThroughput /\ support.updated # NumThreads
         sample  == IF support.updated = 0 THEN support.sample
                                           ELSE Averaged(support)
     IN  support' =
           IF missing /\ ~supportStop
           THEN [support EXCEPT !.pc = "failed"]
           ELSE [support EXCEPT
                   !.pc = "reply",
                   !.sample = [sample EXCEPT
                                 !.customFields = AggregatedFields(support)]]
  /\ UNCHANGED <<handshakeVars, answers>>
  /\ OtherThanSupport

\* if(!_supportStop) send; getSample() copies the sample out of the message.
Reply ==
  /\ support.pc = "reply"
  /\ support' = SupportAt("check")
  /\ request' = NoRequest
  /\ IF supportStop THEN UNCHANGED <<received, answered>>
     ELSE /\ received' = Append(received, Copy(support.sample))
          /\ answered' = request
  /\ UNCHANGED handshakeVars
  /\ OtherThanSupport

-----------------------------------------------------------------------------
Next ==
  \/ \E t \in Threads : FirstBegin(t) \/ StoreSample(t)
  \/ \E t \in Threads, j \in Fields : storeCustomValue(t, j)
  \/ markInconsistentSamples \/ SetStop
  \/ SupportCheck \/ SupportReceive \/ Collect \/ Aggregate \/ Reply

Spec == Init /\ [][Next]_vars

-----------------------------------------------------------------------------
(* Properties *)

Request == [marked : BOOLEAN, taken : Seq(Sample)]

\* Types: in particular the count of inconsistent samples never exceeds that
\* of the collected ones, and the collecting loop stays within the vector.
TypeOK ==
  /\ customFields \in [Threads -> [Fields -> Nat]]
  /\ consolidatedSample \in [Threads -> Sample]
  /\ consolidate \in [Threads -> BOOLEAN] /\ begun \in [Threads -> BOOLEAN]
  /\ adjustThroughput \in BOOLEAN /\ aggregator \in {"none", "sum"}
  /\ inconsistentSample \in BOOLEAN /\ supportStop \in BOOLEAN
  /\ support \in [pc : {"check", "recv", "collect", "aggregate", "reply",
                        "exited", "failed"},
                  i : Threads, sample : Sample, updated : 0 .. NumThreads,
                  inconsistent : 0 .. NumThreads, customVec : Seq([Fields -> Int])]
  /\ support.inconsistent <= support.updated
  /\ request \in Request /\ answered \in Request /\ received \in Seq(Sample)
  /\ stores \in Nat

\* The samples behind the last answer whose load and latency are reliable.
ReliableOnes == {s \in ToSet(answered.taken) : ~s.inconsistent}

Within(x, S) == \E lo \in S, hi \in S : lo <= x /\ x <= hi

\* The latency and the load of an answer that is not marked inconsistent lie
\* between the smallest and the largest of the threads whose samples are
\* consistent: an inconsistent thread neither adds to them nor dilutes them.
AveragesWithinSamples ==
  received # << >> /\ ~Last(received).inconsistent =>
    /\ Within(Last(received).latency,
              {s.latency \div s.numTasks : s \in ReliableOnes})
    /\ Within(Last(received).loadPercentage,
              {s.loadPercentage : s \in ReliableOnes})

\* An answer is inconsistent exactly when no thread has reliable values to
\* offer or the application said so; markInconsistentSamples() covers "all
\* the subsequent samples", so also a request that came after it.
InconsistentWhenUnreliable ==
  received # << >> =>
    /\ answered.marked \/ ReliableOnes = {} => Last(received).inconsistent
    /\ Last(received).inconsistent => inconsistentSample \/ ReliableOnes = {}

\* "Throughput computation and tasks count are never affected by
\* inconsistencies": in every answer they are the sums over all the threads,
\* the inconsistent ones included.  This holds for both values of
\* adjustThroughput, because the support thread waits for every thread; the
\* documentation of that option says otherwise (MissingThreadsNotAwaited).
ThroughputOfAllThreads ==
  received # << >> =>
    LET taken == answered.taken
    IN  /\ Len(taken) = NumThreads
        /\ Last(received).throughput =
             SumOver([k \in DOMAIN taken |-> taken[k].throughput])
        /\ Last(received).numTasks =
             SumOver([k \in DOMAIN taken |-> taken[k].numTasks])

\* The documentation of adjustThroughput: "for the threads that didn't yet
\* stored their sample, we estimate the throughput to be the same of the other
\* threads", and without it "throughput will change accordingly to how many
\* threads already stored their samples".  Either way, once one thread has
\* stored its sample the support thread waits for no other.
MissingThreadsNotAwaited ==
  support.pc = "collect" /\ support.updated > 0 => ~keepWaitingSample(support.i)

\* Only terminate() makes the support thread call the aggregator with fewer
\* values than threads, or with none; what it returns then is never sent.
AggregatedOverAllThreads ==
  support.pc \in {"aggregate", "reply"} /\ ~supportStop =>
    Len(support.customVec) = NumThreads

\* A custom value is reported once: a thread that has stored nothing since
\* its last sample reports 0 and not its old value.
CustomValueNotRepeated ==
  aggregator = "none" =>
    \A k, l \in DOMAIN received : k < l =>
      \A j \in Fields :
        LET later == received[l].customFields[j]
        IN  later = 0 \/ received[k].customFields[j] < later

\* What follows concerns received only: one state after each change is enough.
JustAnswered == support.pc = "check"

\* A log of the answers, written by a program that has more custom fields,
\* reads back in order and field by field, up to the printed precision.
LogReadsBack ==
  JustAnswered =>
    LET extra == [j \in 1 .. ExtraFields |-> 1]
        log == FlattenSeq([k \in DOMAIN received |->
                             Write(Values(received[k]) \o extra)])
        reads[k \in 0 .. Len(received)] ==
          IF k = 0 THEN [text |-> log, sample |-> EmptySample]
          ELSE Read(reads[k - 1].text, EmptySample)
    IN  /\ reads[Len(received)].text = << >>
        /\ \A k \in DOMAIN received :
             LET values == Values(received[k])
             IN  Values(reads[k].sample) = [f \in DOMAIN values |-> Printed(values[f])]
=============================================================================
