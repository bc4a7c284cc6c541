------------------------------ MODULE MCReports ------------------------------
(***************************************************************************)
(* Instances of Reports for TLC.                                           *)
(***************************************************************************)
EXTENDS Reports

Reading(inconsistent, load, throughput, latency, tasks) ==
  [inconsistent |-> inconsistent, loadPercentage |-> load,
   throughput |-> throughput, latency |-> latency, numTasks |-> tasks]

\* A fast thread, a slow one, and one whose estimate went wrong; divisible by
\* the number of tasks and of threads.
MCMeasured ==
  {Reading(FALSE, 30, 12, 12, 1), Reading(FALSE, 90, 6, 72, 2),
   Reading(TRUE, 240, 18, 360, 3)}
=============================================================================
