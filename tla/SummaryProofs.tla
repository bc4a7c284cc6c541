---------------------------- MODULE SummaryProofs ----------------------------
(***************************************************************************)
(* The execution time that terminate() computes, for every set of threads, *)
(* clock bound and length of the millisecond.                              *)
(***************************************************************************)
EXTENDS Summary, TLAPS

\* firstCall is the least firstBegin that is set, if there is one.
FirstIsLeast ==
  /\ \A t \in Threads :
       firstBegin[t] # 0 => firstCall # 0 /\ firstCall <= firstBegin[t]
  /\ firstCall # 0 => \E t \in Threads : firstBegin[t] = firstCall

\* lastMeasured is the greatest lastEnd.
LastIsGreatest ==
  /\ \A t \in Threads : lastEnd[t] <= lastMeasured
  /\ \E t \in Threads : lastEnd[t] = lastMeasured

\* A measured end() follows a begin() of its thread, and a thread that has
\* begun and is not in a task has made one.
EndsFollowBegins ==
  \A t \in Threads :
    /\ lastEnd[t] # 0 => firstBegin[t] # 0 /\ firstBegin[t] <= lastEnd[t]
    /\ firstBegin[t] # 0 /\ ~inTask[t] => lastEnd[t] # 0

\* No thread is in a task once terminate() has run.
QuietAtEnd == terminated => \A t \in Threads : ~inTask[t]

\* A thread in a task has begun.
InTaskBegun == \A t \in Threads : inTask[t] => firstBegin[t] # 0

SummaryInv ==
  /\ TypeOK /\ FirstIsLeast /\ LastIsGreatest /\ EndsFollowBegins /\ QuietAtEnd
  /\ InTaskBegun /\ ExecutionTimeSpansThreads

\* CHOOSE finds the least element of a set that has one.
LEMMA MinIs ==
  ASSUME NEW S, S \subseteq Nat, NEW x \in S, \A y \in S : x <= y
  PROVE  Min(S) = x
<1>0. \E m \in S : \A y \in S : m =< y
  OBVIOUS
<1> DEFINE m == Min(S)
<1>1. m \in S /\ \A y \in S : m =< y
  BY <1>0, Zenon DEF Min
<1> HIDE DEF m
<1>2. m \in Nat /\ x \in Nat /\ m <= x /\ x <= m
  BY <1>1
<1>3. m = x
  BY <1>2
<1>4. QED
  BY <1>3 DEF m

LEMMA MaxIs ==
  ASSUME NEW S, S \subseteq Nat, NEW x \in S, \A y \in S : x >= y
  PROVE  Max(S) = x
<1>0. \E m \in S : \A y \in S : m >= y
  OBVIOUS
<1> DEFINE m == Max(S)
<1>1. m \in S /\ \A y \in S : m >= y
  BY <1>0, Zenon DEF Max
<1> HIDE DEF m
<1>2. m \in Nat /\ x \in Nat /\ m <= x /\ x <= m
  BY <1>1
<1>3. m = x
  BY <1>2
<1>4. QED
  BY <1>3 DEF m

\* The maximum that the loop of terminate() computes.
LEMMA LastEndIs ==
  ASSUME TypeOK, LastIsGreatest
  PROVE  LastEnd = lastMeasured
<1> DEFINE S == {lastEnd[t] : t \in Threads}
<1>1. S \subseteq Nat /\ lastMeasured \in Nat
  BY DEF TypeOK
<1>2. lastMeasured \in S /\ \A y \in S : lastMeasured >= y
  BY DEF LastIsGreatest
<1>3. Max(S) = lastMeasured
  <2> HIDE DEF S
  <2> QED
    BY <1>1, <1>2, MaxIs
<1>4. QED
  BY <1>3 DEF LastEnd

\* The minimum: the first call if every thread has begun, and 0 otherwise.
LEMMA FirstBeginIs ==
  ASSUME TypeOK, FirstIsLeast
  PROVE  FirstBegin = IF \A t \in Threads : firstBegin[t] # 0 THEN firstCall ELSE 0
<1> DEFINE S == {firstBegin[t] : t \in Threads}
<1>1. S \subseteq Nat /\ firstCall \in Nat
  BY DEF TypeOK
<1>2. CASE \A t \in Threads : firstBegin[t] # 0
  <2>1. firstCall # 0
    BY <1>2, SummaryAssumption DEF FirstIsLeast
  <2>2. firstCall \in S /\ \A y \in S : firstCall <= y
    BY <1>2, <2>1 DEF FirstIsLeast
  <2>3. Min(S) = firstCall
    <3> HIDE DEF S
    <3> QED
      BY <1>1, <2>2, MinIs
  <2>4. QED
    BY <1>2, <2>3 DEF FirstBegin
<1>3. CASE \E t \in Threads : firstBegin[t] = 0
  <2>1. 0 \in S /\ \A y \in S : 0 <= y
    BY <1>1, <1>3
  <2>2. Min(S) = 0
    <3> HIDE DEF S
    <3> QED
      BY <1>1, <2>1, MinIs
  <2>3. QED
    BY <1>3, <2>2 DEF FirstBegin
<1>4. QED
  BY <1>2, <1>3

LEMMA InitInv == Init => SummaryInv
<1> SUFFICES ASSUME Init PROVE SummaryInv
  OBVIOUS
<1>1. TypeOK
  <2>1. inTask \in [Threads -> BOOLEAN] /\ terminated \in BOOLEAN
    BY Zenon DEF Init
  <2>2. QED
    BY <2>1 DEF Init, TypeOK
<1>2. FirstIsLeast /\ LastIsGreatest
  BY SummaryAssumption DEF Init, FirstIsLeast, LastIsGreatest
<1>3. EndsFollowBegins /\ QuietAtEnd /\ InTaskBegun
  BY DEF Init, EndsFollowBegins, QuietAtEnd, InTaskBegun
<1>4. ExecutionTimeSpansThreads
  BY DEF Init, ExecutionTimeSpansThreads
<1>5. QED
  BY <1>1, <1>2, <1>3, <1>4 DEF SummaryInv

LEMMA BeginKeeps ==
  ASSUME SummaryInv, NEW t \in Threads, Begin(t)
  PROVE  SummaryInv'
<1> USE DEF SummaryInv, threadVars, endVars
<1>1. TypeOK'
  BY DEF TypeOK, Begin, Started
<1>2. FirstIsLeast'
  BY DEF TypeOK, Begin, Started, FirstIsLeast
<1>3. LastIsGreatest'
  BY DEF Begin, LastIsGreatest
<1>4. EndsFollowBegins' /\ QuietAtEnd' /\ InTaskBegun'
  BY DEF TypeOK, Begin, Started, EndsFollowBegins, QuietAtEnd, InTaskBegun
<1>5. ExecutionTimeSpansThreads'
  BY DEF Begin, ExecutionTimeSpansThreads
<1>6. QED
  BY <1>1, <1>2, <1>3, <1>4, <1>5

LEMMA EndMeasureKeeps ==
  ASSUME SummaryInv, NEW t \in Threads, EndMeasure(t)
  PROVE  SummaryInv'
<1> USE DEF SummaryInv, threadVars, endVars
<1>1. TypeOK'
  BY DEF TypeOK, EndMeasure
<1>2. FirstIsLeast'
  BY DEF EndMeasure, FirstIsLeast
<1>3. LastIsGreatest'
  BY DEF TypeOK, EndMeasure, LastIsGreatest
<1>4. EndsFollowBegins' /\ QuietAtEnd' /\ InTaskBegun'
  BY DEF TypeOK, EndMeasure, EndsFollowBegins, QuietAtEnd, InTaskBegun
<1>5. ExecutionTimeSpansThreads'
  BY DEF EndMeasure, QuietAtEnd, ExecutionTimeSpansThreads
<1>6. QED
  BY <1>1, <1>2, <1>3, <1>4, <1>5

\* A skipped end() writes no timestamp; the task it ends follows one that was
\* measured.
LEMMA EndSkipKeeps ==
  ASSUME SummaryInv, NEW t \in Threads, EndSkip(t)
  PROVE  SummaryInv'
<1> USE DEF SummaryInv, threadVars, endVars
<1>1. TypeOK' /\ FirstIsLeast' /\ LastIsGreatest'
  BY DEF TypeOK, EndSkip, FirstIsLeast, LastIsGreatest
<1>2. QuietAtEnd' /\ InTaskBegun'
  BY DEF TypeOK, EndSkip, QuietAtEnd, InTaskBegun
<1>3. ExecutionTimeSpansThreads'
  BY DEF EndSkip, ExecutionTimeSpansThreads
<1>4. EndsFollowBegins'
  BY DEF TypeOK, EndSkip, EndsFollowBegins
<1>5. QED
  BY <1>1, <1>2, <1>3, <1>4

\* terminate() subtracts the two timestamps in the right order.
LEMMA TerminateKeeps ==
  ASSUME SummaryInv, terminate
  PROVE  SummaryInv'
<1> USE DEF SummaryInv, threadVars, ParallelPartEnded
<1> DEFINE span == LastEnd - FirstBegin
<1>1. span \in Nat
  <2>1. LastEnd = lastMeasured /\ lastMeasured \in Nat /\ firstCall \in Nat
    BY LastEndIs DEF TypeOK
  <2>2. CASE \A t \in Threads : firstBegin[t] # 0
    <3>1. FirstBegin = firstCall /\ firstCall # 0
      BY <2>2, FirstBeginIs, SummaryAssumption DEF FirstIsLeast
    <3>2. PICK t \in Threads : firstBegin[t] = firstCall
      BY <3>1 DEF FirstIsLeast
    <3>3. firstBegin[t] <= lastEnd[t] /\ lastEnd[t] <= lastMeasured
      BY <2>2 DEF terminate, EndsFollowBegins, LastIsGreatest
    <3>4. firstBegin[t] \in Nat /\ lastEnd[t] \in Nat
      BY DEF TypeOK
    <3>5. QED
      BY <2>1, <3>1, <3>2, <3>3, <3>4
  <2>3. CASE ~ \A t \in Threads : firstBegin[t] # 0
    <3>1. FirstBegin = 0
      BY <2>3, FirstBeginIs
    <3>2. QED
      BY <2>1, <3>1
  <2>4. QED
    BY <2>2, <2>3
<1>2. executionTime' = span \div UnitsPerMs
  BY DEF terminate
<1>3. span \div UnitsPerMs \in Nat
  <2>1. \A a, b \in Nat : b > 0 => a \div b \in Nat
    BY SMT
  <2> HIDE DEF span
  <2>2. QED
    BY <1>1, <2>1, SummaryAssumption
<1>4. TypeOK'
  <2> HIDE DEF span
  <2>1. QED
    BY <1>2, <1>3 DEF TypeOK, terminate
<1>5. FirstIsLeast' /\ LastIsGreatest' /\ EndsFollowBegins' /\ QuietAtEnd' /\ InTaskBegun'
  BY DEF terminate, FirstIsLeast, LastIsGreatest, EndsFollowBegins, QuietAtEnd,
         InTaskBegun
<1>6. ExecutionTimeSpansThreads'
  <2>1. SUFFICES ASSUME \A t \in Threads : firstBegin[t] # 0
                 PROVE  executionTime' = (lastMeasured - firstCall) \div UnitsPerMs
    BY DEF terminate, ExecutionTimeSpansThreads
  <2>2. LastEnd = lastMeasured /\ FirstBegin = firstCall
    BY <2>1, LastEndIs, FirstBeginIs
  <2>3. QED
    BY <1>2, <2>2
<1>7. QED
  BY <1>4, <1>5, <1>6

LEMMA NextKeeps == SummaryInv /\ [Next]_vars => SummaryInv'
<1> SUFFICES ASSUME SummaryInv, [Next]_vars PROVE SummaryInv'
  OBVIOUS
<1> USE DEF SummaryInv, threadVars, endVars
<1>1. CASE Tick
  <2>1. TypeOK'
    BY <1>1 DEF Tick, TypeOK
  <2>2. FirstIsLeast' /\ LastIsGreatest' /\ EndsFollowBegins' /\ QuietAtEnd'
    BY <1>1 DEF Tick, FirstIsLeast, LastIsGreatest, EndsFollowBegins, QuietAtEnd
  <2>3. InTaskBegun' /\ ExecutionTimeSpansThreads'
    BY <1>1 DEF Tick, InTaskBegun, ExecutionTimeSpansThreads
  <2>4. QED
    BY <2>1, <2>2, <2>3
<1>2. CASE \E t \in Threads : Begin(t) \/ EndMeasure(t) \/ EndSkip(t)
  BY <1>2, BeginKeeps, EndMeasureKeeps, EndSkipKeeps
<1>3. CASE terminate
  BY <1>3, TerminateKeeps
<1>4. CASE UNCHANGED vars
  BY <1>4 DEF vars, TypeOK, FirstIsLeast, LastIsGreatest, EndsFollowBegins,
              QuietAtEnd, InTaskBegun, ExecutionTimeSpansThreads
<1>5. QED
  BY <1>1, <1>2, <1>3, <1>4 DEF Next

\* The fields have their types in every reachable state: the difference that
\* terminate() takes does not wrap, whichever threads have begun.
THEOREM TypeCorrect == Spec => []TypeOK
<1>1. SummaryInv => TypeOK
  BY DEF SummaryInv
<1>2. QED
  BY InitInv, NextKeeps, <1>1, PTL DEF Spec

\* For any number of threads, if each has called begin(), the execution time
\* of the summary runs from the first begin() to the last measured end().
THEOREM ExecutionTimeCorrect == Spec => []ExecutionTimeSpansThreads
<1>1. SummaryInv => ExecutionTimeSpansThreads
  BY DEF SummaryInv
<1>2. QED
  BY InitInv, NextKeeps, <1>1, PTL DEF Spec
=============================================================================
