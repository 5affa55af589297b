------------------------- MODULE MessageQueueProofs -------------------------
(***************************************************************************)
(* For every set of processes, every set of messages and every ring size:  *)
(* the ring of message.c stays consistent, no receiver stays blocked with  *)
(* a message waiting, and the ring implements the bounded queue of         *)
(* MessageFifo.                                                            *)
(***************************************************************************)
EXTENDS MessageQueue, SequenceTheorems, TLAPS

\* The inductive invariant of the queue.
IInv == TypeOK /\ RingOK /\ BlockedOnlyWhenEmpty

\* The step of head and tail, (i + 1) % MAX_MESSAGES, is one slot round the ring.
LEMMA NextSlot ==
  ASSUME NEW i \in Slots
  PROVE  (i + 1) % MAX_MESSAGES = Slot(i, 1) /\ Slot(i, 1) \in Slots
<1>1. MAX_MESSAGES \in Nat \ {0} /\ i \in 0 .. MAX_MESSAGES - 1
  BY QueueAssumption DEF Slots
<1>2. \A a, n \in Nat : a < n => a % n = a
  OBVIOUS
<1>3. \A n \in Nat \ {0} : n % n = 0
  OBVIOUS
<1>4. CASE i + 1 < MAX_MESSAGES
  BY <1>1, <1>2, <1>4 DEF Slot, Slots
<1>5. CASE i + 1 = MAX_MESSAGES
  BY <1>1, <1>3, <1>5 DEF Slot, Slots
<1> QED
  BY <1>1, <1>4, <1>5

\* Going k slots and then one more is going k + 1 slots, and one slot and then k
\* more likewise.
LEMMA SlotSum ==
  ASSUME NEW i \in Slots, NEW k \in 0 .. MAX_MESSAGES - 1
  PROVE  /\ Slot(i, k) \in Slots
         /\ Slot(Slot(i, k), 1) = Slot(i, k + 1)
         /\ Slot(Slot(i, 1), k) = Slot(i, k + 1)
  BY QueueAssumption DEF Slot, Slots

\* Different offsets less than the ring's size are different slots.
LEMMA SlotInjective ==
  ASSUME NEW i \in Slots, NEW k \in 0 .. MAX_MESSAGES - 1,
         NEW l \in 0 .. MAX_MESSAGES - 1, k # l
  PROVE  Slot(i, k) # Slot(i, l)
  BY QueueAssumption DEF Slot, Slots

\* The queues are consistent when they are created.
LEMMA InitIInv == Init => IInv
  BY QueueAssumption DEF Init, IInv, TypeOK, RingOK, BlockedOnlyWhenEmpty, Slot, Slots

\* queue_message preserves the invariant.
LEMMA QueueIInv ==
  ASSUME IInv, NEW p \in Procs, NEW m \in Message, queue_message(p, m)
  PROVE  IInv'
<1> USE QueueAssumption
<1>1. CASE UNCHANGED <<messages, head, tail, count, msg_blocked, out>> /\ res' = -1
  BY <1>1 DEF IInv, TypeOK, RingOK, BlockedOnlyWhenEmpty
<1>2. CASE /\ count[p] < MAX_MESSAGES
           /\ messages' = [messages EXCEPT ![p][tail[p]] = m]
           /\ tail' = [tail EXCEPT ![p] = (@ + 1) % MAX_MESSAGES]
           /\ count' = [count EXCEPT ![p] = @ + 1]
           /\ msg_blocked' = [msg_blocked EXCEPT ![p] = FALSE]
           /\ res' = 0
           /\ UNCHANGED <<head, out>>
  <2>1. /\ tail[p] \in Slots /\ head[p] \in Slots /\ count[p] \in 0 .. MAX_MESSAGES - 1
        /\ tail[p] = Slot(head[p], count[p])
    BY <1>2 DEF IInv, TypeOK, RingOK
  <2>2. (tail[p] + 1) % MAX_MESSAGES = Slot(head[p], count[p] + 1)
    BY <2>1, NextSlot, SlotSum
  <2>3. (tail[p] + 1) % MAX_MESSAGES \in Slots
    BY <2>1, NextSlot
  <2>4. TypeOK'
    BY <1>2, <2>1, <2>3 DEF IInv, TypeOK
  <2>5. RingOK'
    <3> SUFFICES ASSUME NEW r \in Procs
                 PROVE  /\ tail'[r] = Slot(head'[r], count'[r])
                        /\ \A k \in 0 .. count'[r] - 1 :
                             messages'[r][Slot(head'[r], k)] \in Message
      BY DEF RingOK, Slot
    <3>1. CASE r # p
      BY <1>2, <3>1 DEF IInv, TypeOK, RingOK
    <3>2. CASE r = p
      <4>1. tail'[p] = Slot(head'[p], count'[p])
        BY <1>2, <2>2 DEF IInv, TypeOK
      <4>2. ASSUME NEW k \in 0 .. count'[p] - 1
            PROVE  messages'[p][Slot(head'[p], k)] \in Message
        <5>1. k \in 0 .. count[p] /\ k \in 0 .. MAX_MESSAGES - 1 /\ head'[p] = head[p]
          BY <1>2, <2>1 DEF IInv, TypeOK
        <5>2. Slot(head[p], k) \in Slots
          BY <2>1, <5>1, SlotSum
        <5>3. CASE k = count[p]
          BY <1>2, <2>1, <5>1, <5>2, <5>3 DEF IInv, TypeOK
        <5>4. CASE k # count[p]
          <6>1. Slot(head[p], k) # tail[p]
            BY <2>1, <5>1, <5>4, SlotInjective
          <6>2. messages[p][Slot(head[p], k)] \in Message
            BY <2>1, <5>1, <5>4 DEF IInv, RingOK
          <6> QED
            BY <1>2, <5>1, <5>2, <6>1, <6>2 DEF IInv, TypeOK
        <5> QED
          BY <5>3, <5>4
      <4> QED
        BY <3>2, <4>1, <4>2
    <3> QED
      BY <3>1, <3>2
  <2>6. BlockedOnlyWhenEmpty'
    BY <1>2 DEF IInv, TypeOK, BlockedOnlyWhenEmpty
  <2> QED
    BY <2>4, <2>5, <2>6 DEF IInv
<1> QED
  BY <1>1, <1>2 DEF queue_message

\* receive_message preserves the invariant, whether it finds a message or not.
LEMMA ReceiveIInv ==
  ASSUME IInv, NEW p \in Procs, NEW nonblock \in BOOLEAN, receive_message(p, nonblock)
  PROVE  IInv'
<1> USE QueueAssumption
<1>1. CASE receive_found(p)
  <2>1. /\ head[p] \in Slots /\ count[p] \in 1 .. MAX_MESSAGES
        /\ tail[p] = Slot(head[p], count[p])
    BY <1>1 DEF IInv, TypeOK, RingOK, receive_found
  <2>2. (head[p] + 1) % MAX_MESSAGES = Slot(head[p], 1) /\ Slot(head[p], 1) \in Slots
    BY <2>1, NextSlot
  <2>3. TypeOK'
    BY <1>1, <2>1, <2>2 DEF IInv, TypeOK, receive_found
  <2>4. \A k \in 0 .. count[p] - 1 : Slot(Slot(head[p], 1), k) = Slot(head[p], k + 1)
    BY <2>1, SlotSum
  <2>5. RingOK'
    <3> SUFFICES ASSUME NEW r \in Procs
                 PROVE  /\ tail'[r] = Slot(head'[r], count'[r])
                        /\ \A k \in 0 .. count'[r] - 1 :
                             messages'[r][Slot(head'[r], k)] \in Message
      BY DEF RingOK, Slot
    <3>1. CASE r # p
      BY <1>1, <3>1 DEF IInv, TypeOK, RingOK, receive_found
    <3>2. CASE r = p
      <4>1. /\ head'[p] = Slot(head[p], 1) /\ count'[p] = count[p] - 1
            /\ tail'[p] = tail[p] /\ messages'[p] = messages[p]
        BY <1>1, <2>2 DEF IInv, TypeOK, receive_found
      <4>2. tail'[p] = Slot(head'[p], count'[p])
        BY <2>1, <2>4, <4>1
      <4>3. ASSUME NEW k \in 0 .. count'[p] - 1
            PROVE  messages'[p][Slot(head'[p], k)] \in Message
        <5>1. k + 1 \in 0 .. count[p] - 1 /\ k \in 0 .. count[p] - 1
          BY <2>1, <4>1
        <5> QED
          BY <2>4, <4>1, <5>1 DEF IInv, RingOK
      <4> QED
        BY <3>2, <4>2, <4>3
    <3> QED
      BY <3>1, <3>2
  <2>6. BlockedOnlyWhenEmpty'
    BY <1>1 DEF IInv, TypeOK, BlockedOnlyWhenEmpty, receive_found
  <2> QED
    BY <2>3, <2>5, <2>6 DEF IInv
<1>2. CASE receive_empty(p, nonblock)
  BY <1>2 DEF IInv, TypeOK, RingOK, BlockedOnlyWhenEmpty, receive_empty
<1> QED
  BY <1>1, <1>2 DEF receive_message

\* Every step preserves the invariant.
LEMMA NextIInv == IInv /\ [Next]_vars => IInv'
<1> SUFFICES ASSUME IInv, [Next]_vars PROVE IInv'
  OBVIOUS
<1>1. CASE UNCHANGED vars
  BY <1>1 DEF vars, IInv, TypeOK, RingOK, BlockedOnlyWhenEmpty
<1> QED
  BY <1>1, QueueIInv, ReceiveIInv DEF Next

\* head, tail and count of message.c agree for ever, receive_message copies out
\* only slots that queue_message wrote, and a process that is marked as blocked in
\* receive_message has an empty queue.
THEOREM RingIsConsistent == Spec => [](TypeOK /\ RingOK /\ BlockedOnlyWhenEmpty)
  BY InitIInv, NextIInv, PTL DEF Spec, IInv

\* queue_message and receive_message keep indices and counts inside the ring.
THEOREM QueueTypes == Spec => []TypeOK
  BY RingIsConsistent, PTL

\* A process that receive_message marks as blocked has no message waiting: no
\* message is queued without taking the mark away.
THEOREM BlockedHaveNoMessage == Spec => []BlockedOnlyWhenEmpty
  BY RingIsConsistent, PTL

-----------------------------------------------------------------------------
\* The queue that MessageFifo sees for process p.
FifoOf(p) == [k \in 1 .. count[p] |-> messages[p][Slot(head[p], k - 1)]]

\* Append and Tail as functions on positions.
LEMMA AppendTail ==
  ASSUME NEW S, NEW s \in Seq(S), NEW e \in S
  PROVE  /\ Append(s, e) = [k \in 1 .. Len(s) + 1 |-> IF k = Len(s) + 1 THEN e ELSE s[k]]
         /\ s # <<>> => Tail(s) = [k \in 1 .. Len(s) - 1 |-> s[k + 1]]
<1>1. Append(s, e) = [k \in 1 .. Len(s) + 1 |-> IF k = Len(s) + 1 THEN e ELSE s[k]]
  <2> DEFINE t == [k \in 1 .. Len(s) + 1 |-> IF k = Len(s) + 1 THEN e ELSE s[k]]
  <2>1. t \in Seq(S) /\ Len(t) = Len(s) + 1
    OBVIOUS
  <2>2. Append(s, e) \in Seq(S) /\ Len(Append(s, e)) = Len(s) + 1
    OBVIOUS
  <2>3. \A k \in 1 .. Len(s) + 1 : Append(s, e)[k] = t[k]
    OBVIOUS
  <2> HIDE DEF t
  <2>4. Append(s, e) = t
    BY <2>1, <2>2, <2>3, SeqEqual
  <2> QED
    BY <2>4 DEF t
<1>2. ASSUME s # <<>> PROVE Tail(s) = [k \in 1 .. Len(s) - 1 |-> s[k + 1]]
  <2> DEFINE t == [k \in 1 .. Len(s) - 1 |-> s[k + 1]]
  <2>0. Len(s) \in Nat /\ Len(s) >= 1
    BY <1>2
  <2>1. t \in Seq(S) /\ Len(t) = Len(s) - 1
    BY <2>0
  <2>2. Tail(s) \in Seq(S) /\ Len(Tail(s)) = Len(s) - 1
    BY <1>2
  <2>3. \A k \in 1 .. Len(s) - 1 : Tail(s)[k] = t[k]
    BY <1>2, <2>0
  <2> HIDE DEF t
  <2>4. Tail(s) = t
    BY <2>1, <2>2, <2>3, SeqEqual
  <2> QED
    BY <2>4 DEF t
<1> QED
  BY <1>1, <1>2

\* FifoOf is a sequence of messages, as long as count says.
LEMMA FifoOfSeq ==
  ASSUME IInv, NEW p \in Procs
  PROVE  FifoOf(p) \in Seq(Message) /\ Len(FifoOf(p)) = count[p]
<1>1. count[p] \in Nat
  BY QueueAssumption DEF IInv, TypeOK
<1>2. \A k \in 1 .. count[p] : messages[p][Slot(head[p], k - 1)] \in Message
  BY <1>1 DEF IInv, RingOK
<1> QED
  BY <1>1, <1>2 DEF FifoOf

\* queue_message is a send: -1 exactly when the queue is full, otherwise the
\* message goes to the end.
LEMMA QueueIsSend ==
  ASSUME IInv, NEW p \in Procs, NEW m \in Message, queue_message(p, m)
  PROVE  Fifo!Send(p, m)
<1> USE QueueAssumption
<1> DEFINE Q == [r \in Procs |-> FifoOf(r)]
<1>1. Len(FifoOf(p)) = count[p] /\ FifoOf(p) \in Seq(Message) /\ count[p] \in 0 .. MAX_MESSAGES
  BY FifoOfSeq DEF IInv, TypeOK
<1>2. CASE count[p] >= MAX_MESSAGES
  <2>1. UNCHANGED <<messages, head, tail, count, msg_blocked, out>> /\ res' = -1
    BY <1>1, <1>2 DEF queue_message
  <2>2. Q' = Q
    BY <2>1 DEF FifoOf, Slot
  <2> QED
    BY <1>1, <1>2, <2>1, <2>2 DEF Fifo!Send, FifoOf
<1>3. CASE count[p] < MAX_MESSAGES
  <2>1. /\ messages' = [messages EXCEPT ![p][tail[p]] = m]
        /\ count' = [count EXCEPT ![p] = @ + 1]
        /\ res' = 0
        /\ UNCHANGED <<head, out>>
    BY <1>1, <1>3 DEF queue_message
  <2>2. /\ tail[p] \in Slots /\ head[p] \in Slots /\ count[p] \in 0 .. MAX_MESSAGES - 1
        /\ tail[p] = Slot(head[p], count[p])
    BY <1>1, <1>3 DEF IInv, TypeOK, RingOK
  <2>3. ASSUME NEW r \in Procs, r # p PROVE FifoOf(r)' = FifoOf(r)
    <3>1. messages'[r] = messages[r] /\ count'[r] = count[r] /\ head'[r] = head[r]
      BY <2>1, <2>3 DEF IInv, TypeOK
    <3> QED
      BY <3>1 DEF FifoOf, Slot
  <2>4. FifoOf(p)' = Append(FifoOf(p), m)
    <3>1. count'[p] = count[p] + 1 /\ head'[p] = head[p]
      BY <2>1 DEF IInv, TypeOK
    <3>2. ASSUME NEW k \in 1 .. count[p] + 1
          PROVE  messages'[p][Slot(head[p], k - 1)]
                   = IF k = count[p] + 1 THEN m ELSE messages[p][Slot(head[p], k - 1)]
      <4>1. k - 1 \in 0 .. count[p] /\ k - 1 \in 0 .. MAX_MESSAGES - 1
        BY <2>2
      <4>2. Slot(head[p], k - 1) \in Slots
        BY <2>2, <4>1, SlotSum
      <4>3. CASE k = count[p] + 1
        BY <2>1, <2>2, <4>2, <4>3 DEF IInv, TypeOK
      <4>4. CASE k # count[p] + 1
        <5>1. Slot(head[p], k - 1) # tail[p]
          BY <2>2, <4>1, <4>4, SlotInjective
        <5> QED
          BY <2>1, <4>2, <4>4, <5>1 DEF IInv, TypeOK
      <4> QED
        BY <4>3, <4>4
    <3>3. FifoOf(p)' = [k \in 1 .. count[p] + 1 |-> messages'[p][Slot(head[p], k - 1)]]
      BY <3>1 DEF FifoOf, Slot
    <3>4. Append(FifoOf(p), m)
            = [k \in 1 .. count[p] + 1 |-> IF k = count[p] + 1 THEN m ELSE FifoOf(p)[k]]
      BY <1>1, AppendTail
    <3>5. \A k \in 1 .. count[p] + 1 : k # count[p] + 1
             => FifoOf(p)[k] = messages[p][Slot(head[p], k - 1)]
      BY <2>2 DEF FifoOf
    <3> QED
      BY <3>2, <3>3, <3>4, <3>5
  <2>5. Q' = [Q EXCEPT ![p] = Append(@, m)]
    BY <2>3, <2>4
  <2>6. Len(Q[p]) < MAX_MESSAGES
    BY <1>1, <1>3
  <2> QED
    BY <2>1, <2>5, <2>6 DEF Fifo!Send, FifoOf
<1> QED
  BY <1>1, <1>2, <1>3

\* receive_message is a receive: -1 exactly when the queue is empty, otherwise
\* the oldest message is delivered and leaves the queue.
LEMMA ReceiveIsReceive ==
  ASSUME IInv, NEW p \in Procs, NEW nonblock \in BOOLEAN, receive_message(p, nonblock)
  PROVE  Fifo!Receive(p)
<1> USE QueueAssumption
<1> DEFINE Q == [r \in Procs |-> FifoOf(r)]
<1>1. Len(FifoOf(p)) = count[p] /\ FifoOf(p) \in Seq(Message) /\ count[p] \in 0 .. MAX_MESSAGES
  BY FifoOfSeq DEF IInv, TypeOK
<1>2. CASE receive_empty(p, nonblock)
  <2>1. FifoOf(p) = <<>>
    BY <1>1, <1>2 DEF receive_empty
  <2>2. Q' = Q
    BY <1>2 DEF FifoOf, Slot, receive_empty
  <2> QED
    BY <1>2, <2>1, <2>2 DEF Fifo!Receive, FifoOf, receive_empty
<1>3. CASE receive_found(p)
  <2>1. /\ head[p] \in Slots /\ count[p] \in 1 .. MAX_MESSAGES
    BY <1>3 DEF IInv, TypeOK, receive_found
  <2>2. /\ head'[p] = Slot(head[p], 1) /\ count'[p] = count[p] - 1 /\ messages' = messages
    BY <1>3, <2>1, NextSlot DEF IInv, TypeOK, receive_found
  <2>3. ASSUME NEW r \in Procs, r # p PROVE FifoOf(r)' = FifoOf(r)
    <3>1. messages'[r] = messages[r] /\ count'[r] = count[r] /\ head'[r] = head[r]
      BY <1>3, <2>3 DEF IInv, TypeOK, receive_found
    <3> QED
      BY <3>1 DEF FifoOf, Slot
  <2>4. FifoOf(p)' = Tail(FifoOf(p))
    <3>1. FifoOf(p)' = [k \in 1 .. count[p] - 1 |-> messages[p][Slot(Slot(head[p], 1), k - 1)]]
      BY <2>2 DEF FifoOf, Slot
    <3>2. \A k \in 1 .. count[p] - 1 : Slot(Slot(head[p], 1), k - 1) = Slot(head[p], k)
      <4> SUFFICES ASSUME NEW k \in 1 .. count[p] - 1
                   PROVE  Slot(Slot(head[p], 1), k - 1) = Slot(head[p], k)
        OBVIOUS
      <4>1. k - 1 \in 0 .. MAX_MESSAGES - 1 /\ (k - 1) + 1 = k
        BY <2>1
      <4> QED
        BY <2>1, <4>1, SlotSum
    <3>3. Tail(FifoOf(p)) = [k \in 1 .. count[p] - 1 |-> FifoOf(p)[k + 1]]
      <4>1. FifoOf(p) # <<>>
        BY <1>1, <2>1
      <4>2. PICK e \in Message : TRUE
        BY <1>1, <4>1
      <4> QED
        BY <1>1, <4>1, <4>2, AppendTail
    <3>4. \A k \in 1 .. count[p] - 1 : FifoOf(p)[k + 1] = messages[p][Slot(head[p], k)]
      BY <2>1 DEF FifoOf
    <3> QED
      BY <3>1, <3>2, <3>3, <3>4
  <2>5. FifoOf(p) # <<>> /\ Head(FifoOf(p)) = messages[p][head[p]]
    <3>1. FifoOf(p)[1] = messages[p][Slot(head[p], 0)]
      BY <2>1 DEF FifoOf
    <3>2. Slot(head[p], 0) = head[p]
      BY <2>1 DEF Slot, Slots
    <3> QED
      BY <1>1, <2>1, <3>1, <3>2
  <2>6. Q' = [Q EXCEPT ![p] = Tail(@)]
    BY <2>3, <2>4
  <2> QED
    BY <1>3, <2>5, <2>6 DEF Fifo!Receive, FifoOf, receive_found
<1> QED
  BY <1>2, <1>3 DEF receive_message

\* The ring of message.c implements the bounded first-in first-out queue, for
\* every ring size: messages are delivered once, in the order they were sent, and
\* queue_message and receive_message fail only when the queue is full or empty.
THEOREM RingImplementsFifo == Spec => FifoSpec
<1>1. Init => Fifo!Init
  BY QueueAssumption DEF Init, Fifo!Init
<1>2. IInv /\ [Next]_vars => [Fifo!Next]_<<[p \in Procs |-> FifoOf(p)], out, res>>
  <2> SUFFICES ASSUME IInv, [Next]_vars
               PROVE  [Fifo!Next]_<<[p \in Procs |-> FifoOf(p)], out, res>>
    OBVIOUS
  <2>1. CASE UNCHANGED vars
    BY <2>1 DEF vars, FifoOf, Slot
  <2> QED
    BY <2>1, QueueIsSend, ReceiveIsReceive DEF Next, Fifo!Next
<1>3. [][Fifo!Next]_<<[p \in Procs |-> FifoOf(p)], out, res>> /\ Fifo!Init => Fifo!Spec
  BY DEF Fifo!Spec, FifoOf
<1> QED
  BY InitIInv, NextIInv, <1>1, <1>2, <1>3, PTL DEF Spec, FifoSpec
=============================================================================
