------------------------------- MODULE Summary -------------------------------
(***************************************************************************)
(* The execution time in the summary of an Application with several        *)
(* threads: the timestamps that begin() and end() leave in each ThreadData *)
(* and what terminate() makes of them.  The count of tasks is in module    *)
(* Riff; which calls are measured is in module Sampling, so here any call  *)
(* after the first of a thread may be a skipped one.                       *)
(***************************************************************************)
EXTENDS Integers, FiniteSetsExt

CONSTANTS
  Threads,     \* the indices of _threadData
  UnitsPerMs,  \* units of the clock in a millisecond
  MaxTime      \* bound: last instant of the clock

ASSUME SummaryAssumption ==
  /\ Threads # {} /\ UnitsPerMs \in Nat \ {0} /\ MaxTime \in Nat

VARIABLES
  now,                   \* getCurrentTimeNs(), never 0
  firstBegin, lastEnd,   \* of each ThreadData
  inTask,                \* inTask[t]: t is between begin() and end()
  terminated, executionTime,
  \* History, which no action reads.
  firstCall,             \* first begin() of any thread
  lastCall,              \* last end() of any thread
  lastMeasured           \* last measured end() of any thread

threadVars == <<firstBegin, lastEnd, inTask, firstCall, lastCall, lastMeasured>>
endVars == <<terminated, executionTime>>
vars == <<now, threadVars, endVars>>

Init ==
  /\ now = 1
  /\ firstBegin = [t \in Threads |-> 0] /\ lastEnd = [t \in Threads |-> 0]
  /\ inTask = [t \in Threads |-> FALSE]
  /\ terminated = FALSE /\ executionTime = 0
  /\ firstCall = 0 /\ lastCall = 0 /\ lastMeasured = 0

Tick ==
  /\ now < MaxTime
  /\ now' = now + 1
  /\ UNCHANGED <<threadVars, endVars>>

\* Mutant: every begin() sets it.
Started_EveryTime(t) == now

\* "Only executed once (at startup)"
Started(t) == IF t = 0 THEN now ELSE t

\* The first begin() of a thread is always measured; a later one, measured or
\* not, finds firstBegin set.
Begin(t) ==
  /\ ~inTask[t] /\ ~terminated
  /\ inTask' = [inTask EXCEPT ![t] = TRUE]
  /\ firstBegin' = [firstBegin EXCEPT ![t] = Started(@)]
  /\ firstCall' = IF firstCall = 0 THEN now ELSE firstCall
  /\ UNCHANGED <<now, lastEnd, lastCall, lastMeasured, endVars>>

EndMeasure(t) ==
  /\ inTask[t]
  /\ inTask' = [inTask EXCEPT ![t] = FALSE]
  /\ lastEnd' = [lastEnd EXCEPT ![t] = now]
  /\ lastCall' = now /\ lastMeasured' = now
  /\ UNCHANGED <<now, firstBegin, firstCall, endVars>>

\* The first end() of a thread is always measured.
EndSkip(t) ==
  /\ inTask[t] /\ lastEnd[t] # 0
  /\ inTask' = [inTask EXCEPT ![t] = FALSE]
  /\ lastCall' = now
  /\ UNCHANGED <<now, firstBegin, lastEnd, firstCall, lastMeasured, endVars>>

\* Mutant: the minimum starts from 0.
FirstBegin_FromZero == Min({0} \cup {firstBegin[t] : t \in Threads})

FirstBegin == Min({firstBegin[t] : t \in Threads})

LastEnd == Max({lastEnd[t] : t \in Threads})

\* terminate() "must only be called once, when the parallel part of the
\* application terminates".
ParallelPartEnded == ~terminated /\ \A t \in Threads : ~inTask[t]

\* The loop of terminate(); milliseconds are truncated.
terminate ==
  /\ ParallelPartEnded
  /\ terminated' = TRUE
  /\ executionTime' = (LastEnd - FirstBegin) \div UnitsPerMs
  /\ UNCHANGED <<now, threadVars>>

Next ==
  \/ Tick
  \/ \E t \in Threads : Begin(t) \/ EndMeasure(t) \/ EndSkip(t)
  \/ terminate

Spec == Init /\ [][Next]_vars

-----------------------------------------------------------------------------
(* Properties *)

\* Types: no timestamp lies in the future, and the unsigned difference of
\* the two that terminate() picks does not wrap.
TypeOK ==
  /\ now \in Nat \ {0}
  /\ firstBegin \in [Threads -> 0 .. now]
  /\ lastEnd \in [Threads -> 0 .. now]
  /\ inTask \in [Threads -> BOOLEAN]
  /\ terminated \in BOOLEAN /\ executionTime \in Nat
  /\ firstCall \in 0 .. now
  /\ lastCall \in 0 .. now /\ lastMeasured \in 0 .. now

\* The execution time is from the first begin() of any thread to the last
\* measured end() of any thread, in whole milliseconds - provided every
\* thread has called begin(): one that has not contributes a firstBegin of 0.
ExecutionTimeSpansThreads ==
  terminated /\ (\A t \in Threads : firstBegin[t] # 0) =>
    executionTime = (lastMeasured - firstCall) \div UnitsPerMs

\* The documentation of getExecutionTime(): "The time is from the first call of
\* begin() to the last call of end()."
ExecutionTimeAsDocumented ==
  terminated => executionTime = (lastCall - firstCall) \div UnitsPerMs
=============================================================================
