------------------------------ MODULE Handover ------------------------------
(***************************************************************************)
(* What the consolidate flag promises, one mailbox per thread: the work a  *)
(* thread has done reaches the support thread as a whole, only when it was *)
(* asked for, and only once.  Module Riff implements it with two plain     *)
(* fields, an atomic flag and several unprotected accesses.                *)
(***************************************************************************)
EXTENDS Naturals

CONSTANTS
  Threads,
  Amounts   \* the numbers of tasks that one call of end() may count

VARIABLES
  running,  \* running[t]: work t has done and not handed over
  wanted,   \* wanted[t]: the support thread waits for t's work
  content   \* content[t]: work in t's mailbox

vars == <<running, wanted, content>>

Init ==
  /\ running = [t \in Threads |-> 0]
  /\ wanted = [t \in Threads |-> FALSE]
  /\ content = [t \in Threads |-> 0]

Work(t) ==
  /\ \E n \in Amounts : running' = [running EXCEPT ![t] = @ + n]
  /\ UNCHANGED <<wanted, content>>

\* Nothing is asked for before the last delivery has been taken.
Want(t) ==
  /\ ~wanted[t] /\ content[t] = 0
  /\ wanted' = [wanted EXCEPT ![t] = TRUE]
  /\ UNCHANGED <<running, content>>

\* All of the work done so far, and some, goes into the mailbox at once.
Put(t) ==
  /\ wanted[t] /\ running[t] > 0
  /\ content' = [content EXCEPT ![t] = running[t]]
  /\ running' = [running EXCEPT ![t] = 0]
  /\ wanted' = [wanted EXCEPT ![t] = FALSE]

Take(t) ==
  /\ content[t] > 0
  /\ content' = [content EXCEPT ![t] = 0]
  /\ UNCHANGED <<running, wanted>>

Next == \E t \in Threads : Work(t) \/ Want(t) \/ Put(t) \/ Take(t)

Spec == Init /\ [][Next]_vars
=============================================================================
