---------------------------- MODULE MessageQueue ----------------------------
(***************************************************************************)
(* The per-process message queue of src/src/kernel/message.c: a ring of    *)
(* MAX_MESSAGES slots in struct process, written by queue_message and read *)
(* by receive_message.                                                     *)
(***************************************************************************)
EXTENDS Integers, Sequences

CONSTANTS
  Procs,          \* the processes that have a queue
  Message,        \* the messages that are sent
  NoMessage,      \* a slot that was never written
  MAX_MESSAGES    \* 32 in the code

ASSUME QueueAssumption ==
  /\ MAX_MESSAGES \in Nat \ {0}
  /\ NoMessage \notin Message

VARIABLES
  messages,       \* the slots of each process
  head, tail, count,
  msg_blocked,    \* the process is in a blocking receive_message
  out,            \* the caller's buffer after its last receive_message
  res             \* what the last call returned

vars == <<messages, head, tail, count, msg_blocked, out, res>>

Slots == 0 .. MAX_MESSAGES - 1

Init ==
  /\ messages = [p \in Procs |-> [s \in Slots |-> NoMessage]]
  /\ head = [p \in Procs |-> 0]
  /\ tail = [p \in Procs |-> 0]
  /\ count = [p \in Procs |-> 0]
  /\ msg_blocked = [p \in Procs |-> FALSE]
  /\ out = [p \in Procs |-> NoMessage]
  /\ res = 0

\* Mutated form of queue_message: the test for a full queue is off by one.
queue_message_off_by_one(p, m) ==
  \/ /\ count[p] > MAX_MESSAGES
     /\ res' = -1
     /\ UNCHANGED <<messages, head, tail, count, msg_blocked, out>>
  \/ /\ count[p] <= MAX_MESSAGES
     /\ messages' = [messages EXCEPT ![p][tail[p]] = m]
     /\ tail' = [tail EXCEPT ![p] = (@ + 1) % MAX_MESSAGES]
     /\ count' = [count EXCEPT ![p] = @ + 1]
     /\ msg_blocked' = [msg_blocked EXCEPT ![p] = FALSE]
     /\ res' = 0
     /\ UNCHANGED <<head, out>>

\* Mutated form of queue_message: the receiver stays marked as blocked.
queue_message_no_wakeup(p, m) ==
  \/ /\ count[p] >= MAX_MESSAGES
     /\ res' = -1
     /\ UNCHANGED <<messages, head, tail, count, msg_blocked, out>>
  \/ /\ count[p] < MAX_MESSAGES
     /\ messages' = [messages EXCEPT ![p][tail[p]] = m]
     /\ tail' = [tail EXCEPT ![p] = (@ + 1) % MAX_MESSAGES]
     /\ count' = [count EXCEPT ![p] = @ + 1]
     /\ res' = 0
     /\ UNCHANGED <<head, msg_blocked, out>>

queue_message(p, m) ==
  \/ /\ count[p] >= MAX_MESSAGES
     /\ res' = -1
     /\ UNCHANGED <<messages, head, tail, count, msg_blocked, out>>
  \/ /\ count[p] < MAX_MESSAGES
     /\ messages' = [messages EXCEPT ![p][tail[p]] = m]
     /\ tail' = [tail EXCEPT ![p] = (@ + 1) % MAX_MESSAGES]
     /\ count' = [count EXCEPT ![p] = @ + 1]
     /\ msg_blocked' = [msg_blocked EXCEPT ![p] = FALSE]
     /\ res' = 0
     /\ UNCHANGED <<head, out>>

\* Mutated form of receive_found: head stays where it is.
receive_found_again(p) ==
  /\ count[p] # 0
  /\ out' = [out EXCEPT ![p] = messages[p][head[p]]]
  /\ count' = [count EXCEPT ![p] = @ - 1]
  /\ res' = 0
  /\ UNCHANGED <<messages, head, tail, msg_blocked>>

\* receive_message when there is a message.
receive_found(p) ==
  /\ count[p] # 0
  /\ out' = [out EXCEPT ![p] = messages[p][head[p]]]
  /\ head' = [head EXCEPT ![p] = (@ + 1) % MAX_MESSAGES]
  /\ count' = [count EXCEPT ![p] = @ - 1]
  /\ res' = 0
  /\ UNCHANGED <<messages, tail, msg_blocked>>

\* receive_message on an empty queue: -1 even for a caller that waits, which
\* first gives up the processor in schedule() (module Process).
receive_empty(p, nonblock) ==
  /\ count[p] = 0
  /\ msg_blocked' = [msg_blocked EXCEPT ![p] = @ \/ ~nonblock]
  /\ res' = -1
  /\ UNCHANGED <<messages, head, tail, count, out>>

receive_message(p, nonblock) == receive_found(p) \/ receive_empty(p, nonblock)

Next ==
  \E p \in Procs :
    \/ \E m \in Message : queue_message(p, m)
    \/ \E nonblock \in BOOLEAN : receive_message(p, nonblock)

Spec == Init /\ [][Next]_vars

-----------------------------------------------------------------------------
TypeOK ==
  /\ messages \in [Procs -> [Slots -> Message \cup {NoMessage}]]
  /\ head \in [Procs -> Slots]
  /\ tail \in [Procs -> Slots]
  /\ count \in [Procs -> 0 .. MAX_MESSAGES]
  /\ msg_blocked \in [Procs -> BOOLEAN]
  /\ out \in [Procs -> Message \cup {NoMessage}]
  /\ res \in {0, -1}

\* i + k slots round the ring, for k no larger than the ring.
Slot(i, k) == IF i + k < MAX_MESSAGES THEN i + k ELSE i + k - MAX_MESSAGES

\* tail is count slots after head, and the slots in between hold messages that
\* were sent: what receive_message copies out was written by queue_message.
RingOK ==
  \A p \in Procs :
    /\ tail[p] = Slot(head[p], count[p])
    /\ \A k \in 0 .. count[p] - 1 : messages[p][Slot(head[p], k)] \in Message

\* A process is marked as blocked only while its queue is empty: queue_message
\* takes the mark away together with the emptiness, so that no process is left
\* marked with a message waiting.
BlockedOnlyWhenEmpty == \A p \in Procs : msg_blocked[p] => count[p] = 0

\* The ring implements the bounded queue of MessageFifo: read from head, the
\* occupied slots are the messages in the order they were sent, and
\* queue_message and receive_message return -1 only when they have to.
Fifo == INSTANCE MessageFifo WITH
          q <- [p \in Procs |-> [k \in 1 .. count[p] |-> messages[p][Slot(head[p], k - 1)]]]

FifoSpec == Fifo!Spec
=============================================================================
