---------------------------- MODULE PairChannel ----------------------------
(***************************************************************************)
(* The nanomsg NN_PAIR socket pair that an Application ("app") and a       *)
(* Monitor ("mon") share over ipc, reduced to what the two processes can   *)
(* see: each side owns at most one pipe; a send or a receive blocks while  *)
(* the side has no pipe; messages of one direction keep their order; and   *)
(* once one side has closed its socket the other, at some later moment,    *)
(* drops its pipe together with every message it has not received.         *)
(*                                                                         *)
(* Buffers do not fill up: riff has at most two messages in flight in each *)
(* direction.  A side closes once and there is no third socket, so a       *)
(* dropped pipe is never replaced.                                         *)
(***************************************************************************)
EXTENDS Sequences, Naturals

VARIABLES
  pipe,    \* pipe[s]: "none" before the connection, "active", then "lost"
  closed,  \* closed[s]: s has closed its socket
  inbox    \* inbox[s]: messages on their way to s, oldest first

channelVars == <<pipe, closed, inbox>>

Sides == {"app", "mon"}

Peer(s) == IF s = "app" THEN "mon" ELSE "app"

ChannelInit ==
  /\ pipe = [s \in Sides |-> "none"]
  /\ closed = [s \in Sides |-> FALSE]
  /\ inbox = [s \in Sides |-> << >>]

\* The handshake of the connection ends on side s: its socket gets a pipe.
Attach(s) ==
  /\ pipe[s] = "none"
  /\ ~closed[s] /\ ~closed[Peer(s)]
  /\ pipe' = [pipe EXCEPT ![s] = "active"]
  /\ UNCHANGED <<closed, inbox>>

\* A blocking send by s.  What is sent to a closed peer is lost.
Send(s, m) ==
  /\ pipe[s] = "active"
  /\ inbox' = IF closed[Peer(s)] THEN inbox
              ELSE [inbox EXCEPT ![Peer(s)] = Append(@, m)]
  /\ UNCHANGED <<pipe, closed>>

\* A blocking receive by s, which returns Head(inbox[s]).
CanReceive(s) == pipe[s] = "active" /\ inbox[s] # << >>

Receive(s) ==
  /\ CanReceive(s)
  /\ inbox' = [inbox EXCEPT ![s] = Tail(@)]
  /\ UNCHANGED <<pipe, closed>>

\* s closes its socket, without lingering for what it has not read.
Close(s) ==
  /\ ~closed[s]
  /\ closed' = [closed EXCEPT ![s] = TRUE]
  /\ pipe' = [pipe EXCEPT ![s] = "lost"]
  /\ inbox' = [inbox EXCEPT ![s] = << >>]

\* s notices that its peer has closed: the pipe stops, and a message that
\* the transport holds for s goes with it.
DropPipe(s) ==
  /\ closed[Peer(s)]
  /\ pipe[s] = "active"
  /\ pipe' = [pipe EXCEPT ![s] = "lost"]
  /\ inbox' = [inbox EXCEPT ![s] = << >>]
  /\ UNCHANGED closed

ChannelTypeOK(Message) ==
  /\ pipe \in [Sides -> {"none", "active", "lost"}]
  /\ closed \in [Sides -> BOOLEAN]
  /\ inbox \in [Sides -> Seq(Message)]
=============================================================================
