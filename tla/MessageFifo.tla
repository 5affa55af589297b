---------------------------- MODULE MessageFifo ----------------------------
(***************************************************************************)
(* What the message queues of message.c promise: every process has a       *)
(* bounded first-in first-out queue.  A send fails exactly when the queue  *)
(* is full, a receive exactly when it is empty, and a receive that does    *)
(* not fail delivers the oldest message that was sent and not yet          *)
(* received.                                                               *)
(***************************************************************************)
EXTENDS Naturals, Integers, Sequences

CONSTANTS Procs, Message, NoMessage, MAX_MESSAGES

VARIABLES
  q,      \* the messages waiting for each process, oldest first
  out,    \* the message last delivered to each process
  res     \* what the last call returned

Init ==
  /\ q = [p \in Procs |-> <<>>]
  /\ out = [p \in Procs |-> NoMessage]
  /\ res = 0

Send(p, m) ==
  \/ /\ Len(q[p]) = MAX_MESSAGES
     /\ res' = -1
     /\ UNCHANGED <<q, out>>
  \/ /\ Len(q[p]) < MAX_MESSAGES
     /\ q' = [q EXCEPT ![p] = Append(@, m)]
     /\ res' = 0
     /\ UNCHANGED out

Receive(p) ==
  \/ /\ q[p] = <<>>
     /\ res' = -1
     /\ UNCHANGED <<q, out>>
  \/ /\ q[p] # <<>>
     /\ q' = [q EXCEPT ![p] = Tail(@)]
     /\ out' = [out EXCEPT ![p] = Head(q[p])]
     /\ res' = 0

Next == \E p \in Procs : Receive(p) \/ \E m \in Message : Send(p, m)

Spec == Init /\ [][Next]_<<q, out, res>>
=============================================================================
