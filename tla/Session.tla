------------------------------ MODULE Session -------------------------------
(***************************************************************************)
(* What a riff session promises to the user of the Monitor, with neither   *)
(* threads nor messages: waitStart() returns once, every getSample() that  *)
(* returns true reports tasks of all the threads, none of them reported    *)
(* before, and the one that returns false comes with the exact number of   *)
(* tasks of the whole execution, after which nothing is reported.          *)
(***************************************************************************)
EXTENDS Naturals

CONSTANT NumThreads

VARIABLES
  executed,  \* tasks executed so far
  reported,  \* tasks of the samples returned so far
  state,     \* "waiting", "running" or "ended", for the Monitor's user
  summary    \* getTotalTasks()

vars == <<executed, reported, state, summary>>

Init == executed = 0 /\ reported = 0 /\ state = "waiting" /\ summary = 0

Execute ==
  /\ state # "ended"
  /\ executed' = executed + 1
  /\ UNCHANGED <<reported, state, summary>>

Start ==
  /\ state = "waiting"
  /\ state' = "running"
  /\ UNCHANGED <<executed, reported, summary>>

\* At least one task of each thread, all of them executed.
Report ==
  /\ state = "running"
  /\ reported' \in reported + NumThreads .. executed
  /\ UNCHANGED <<executed, state, summary>>

End ==
  /\ state = "running"
  /\ state' = "ended"
  /\ summary' = executed
  /\ UNCHANGED <<executed, reported>>

Next == Execute \/ Start \/ Report \/ End

Spec == Init /\ [][Next]_vars
=============================================================================
