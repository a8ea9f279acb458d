------------------------- MODULE BlockMsgQueueProofs -------------------------
(***************************************************************************)
(* Proofs about BlockMsgQueue for every number of slots, every set of      *)
(* messages and every set of threads.                                      *)
(***************************************************************************)
EXTENDS BlockMsgQueue, TLAPS

-----------------------------------------------------------------------------
(***************************************************************************)
(* Arithmetic of the ring.                                                 *)
(***************************************************************************)

\* Advancing an index stays in the ring and wraps at its end.
LEMMA SuccWraps ==
    ASSUME NEW i \in Indices
    PROVE  /\ Succ(i) \in Indices
           /\ Succ(i) = IF i = MaxMsgs THEN 0 ELSE i + 1
BY MaxMsgsAssumption DEF Succ, Slots, Indices

\* The number of messages is the distance from head to tail around the ring.
LEMMA DistanceWraps ==
    ASSUME NEW h \in Indices, NEW t \in Indices
    PROVE  /\ Distance(h, t) \in 0 .. MaxMsgs
           /\ Distance(h, t) = IF h <= t THEN t - h ELSE t - h + Slots
BY MaxMsgsAssumption DEF Distance, Slots, Indices

\* The slot k places after head, without the modulus.
LEMMA SlotWraps ==
    ASSUME NEW h \in Indices, NEW k \in Indices
    PROVE  /\ Slot(h, k) \in Indices
           /\ Slot(h, k) = IF h + k <= MaxMsgs THEN h + k ELSE h + k - Slots
BY MaxMsgsAssumption DEF Slot, Slots, Indices

\* A send into a ring that is not full makes it one longer.
LEMMA SendLengthens ==
    ASSUME NEW h \in Indices, NEW t \in Indices, Succ(t) # h
    PROVE  Distance(h, Succ(t)) = Distance(h, t) + 1
<1>1. Succ(t) \in Indices /\ Succ(t) = IF t = MaxMsgs THEN 0 ELSE t + 1
  BY SuccWraps
<1>2. Distance(h, Succ(t)) = IF h <= Succ(t) THEN Succ(t) - h ELSE Succ(t) - h + Slots
  BY <1>1, DistanceWraps
<1>3. Distance(h, t) = IF h <= t THEN t - h ELSE t - h + Slots
  BY DistanceWraps
<1>4. QED
  BY <1>1, <1>2, <1>3, MaxMsgsAssumption DEF Indices, Slots

\* A receive from a ring that is not empty makes it one shorter.
LEMMA RecvShortens ==
    ASSUME NEW h \in Indices, NEW t \in Indices, h # t
    PROVE  Distance(Succ(h), t) = Distance(h, t) - 1
<1>1. Succ(h) \in Indices /\ Succ(h) = IF h = MaxMsgs THEN 0 ELSE h + 1
  BY SuccWraps
<1>2. Distance(Succ(h), t) = IF Succ(h) <= t THEN t - Succ(h) ELSE t - Succ(h) + Slots
  BY <1>1, DistanceWraps
<1>3. Distance(h, t) = IF h <= t THEN t - h ELSE t - h + Slots
  BY DistanceWraps
<1>4. QED
  BY <1>1, <1>2, <1>3, MaxMsgsAssumption DEF Indices, Slots

-----------------------------------------------------------------------------
(***************************************************************************)
(* The ring as a sequence of messages.                                     *)
(***************************************************************************)
Pools == [Indices -> Contents]

\* The ring's messages are a sequence no longer than the capacity.
LEMMA RingIsSeq ==
    ASSUME NEW p \in Pools, NEW h \in Indices, NEW t \in Indices
    PROVE  /\ Ring(p, h, t) \in Seq(Contents)
           /\ Len(Ring(p, h, t)) = Distance(h, t)
           /\ DOMAIN Ring(p, h, t) = 1 .. Distance(h, t)
           /\ \A k \in 1 .. Distance(h, t) : Ring(p, h, t)[k] = p[Slot(h, k - 1)]
<1>1. Distance(h, t) \in 0 .. MaxMsgs
  BY DistanceWraps
<1>2. ASSUME NEW k \in 1 .. Distance(h, t) PROVE p[Slot(h, k - 1)] \in Contents
  <2>1. k - 1 \in Indices
    BY <1>1, MaxMsgsAssumption DEF Indices
  <2>2. QED
    BY <2>1, SlotWraps DEF Pools
<1>3. QED
  BY <1>1, <1>2, MaxMsgsAssumption DEF Ring

\* Writing the slot at tail and advancing tail appends to the sequence.
LEMMA RingAppend ==
    ASSUME NEW p \in Pools, NEW h \in Indices, NEW t \in Indices,
           NEW m \in Contents, Succ(t) # h
    PROVE  /\ Len(Ring(p, h, t)) < MaxMsgs
           /\ Ring([p EXCEPT ![t] = m], h, Succ(t)) = Append(Ring(p, h, t), m)
<1> DEFINE n == Distance(h, t)
           q == [p EXCEPT ![t] = m]
           old == Ring(p, h, t)
           new == Ring(q, h, Succ(t))
<1>1. /\ n \in 0 .. MaxMsgs
      /\ Succ(t) \in Indices
      /\ Distance(h, Succ(t)) = n + 1
      /\ n + 1 \in 0 .. MaxMsgs
  BY DistanceWraps, SendLengthens, SuccWraps
<1>2. q \in Pools
  BY DEF Pools
<1>3. /\ old \in Seq(Contents) /\ Len(old) = n
      /\ \A k \in 1 .. n : old[k] = p[Slot(h, k - 1)]
  BY RingIsSeq
<1>4. /\ new \in Seq(Contents) /\ Len(new) = n + 1
      /\ \A k \in 1 .. n + 1 : new[k] = q[Slot(h, k - 1)]
  <2> DEFINE t1 == Succ(t)
  <2>1. /\ Ring(q, h, t1) \in Seq(Contents) /\ Len(Ring(q, h, t1)) = Distance(h, t1)
        /\ \A k \in 1 .. Distance(h, t1) : Ring(q, h, t1)[k] = q[Slot(h, k - 1)]
    <3> HIDE DEF q, t1
    <3>1. QED
      BY <1>1, <1>2, RingIsSeq DEF t1
  <2>2. QED
    BY <1>1, <2>1
<1>0. n = IF h <= t THEN t - h ELSE t - h + Slots
  BY DistanceWraps
<1>5. Slot(h, n) = t
  <2>1. n \in Indices
    BY <1>1 DEF Indices
  <2>2. Slot(h, n) = IF h + n <= MaxMsgs THEN h + n ELSE h + n - Slots
    BY <2>1, SlotWraps
  <2>3. QED
    BY <1>0, <2>2, MaxMsgsAssumption DEF Indices, Slots
<1>6. ASSUME NEW k \in 1 .. n PROVE Slot(h, k - 1) # t
  <2>1. k - 1 \in Indices
    BY <1>1, MaxMsgsAssumption DEF Indices
  <2>2. Slot(h, k - 1) = IF h + (k - 1) <= MaxMsgs THEN h + (k - 1)
                                                   ELSE h + (k - 1) - Slots
    BY <2>1, SlotWraps
  <2>3. QED
    BY <1>0, <1>1, <2>2, MaxMsgsAssumption DEF Indices, Slots
<1>7. ASSUME NEW k \in 1 .. n + 1 PROVE new[k] = Append(old, m)[k]
  <2>1. CASE k \in 1 .. n
    <3>1. k - 1 \in Indices
      BY <1>1, <2>1, MaxMsgsAssumption DEF Indices
    <3>2. q[Slot(h, k - 1)] = p[Slot(h, k - 1)]
      BY <1>6, <2>1, <3>1, SlotWraps DEF Pools
    <3>3. Append(old, m)[k] = old[k]
      BY <1>3, <2>1
    <3>4. QED
      BY <1>3, <1>4, <2>1, <3>2, <3>3
  <2>2. CASE k = n + 1
    <3>1. k - 1 = n
      BY <1>1, <2>2, MaxMsgsAssumption
    <3>2. new[k] = q[t]
      BY <1>4, <1>5, <3>1
    <3>3. Append(old, m)[k] = m
      BY <1>1, <1>3, <2>2
    <3>4. QED
      BY <3>2, <3>3 DEF Pools
  <2>3. k \in 1 .. n \/ k = n + 1
    <3> HIDE DEF n
    <3>1. QED
      BY <1>1
  <2>4. QED
    BY <2>1, <2>2, <2>3
<1>8. Append(old, m) \in Seq(Contents) /\ Len(Append(old, m)) = n + 1
  BY <1>3
<1>9. new = Append(old, m)
  <2> HIDE DEF n, q, old, new
  <2>1. QED
    BY <1>1, <1>4, <1>7, <1>8
<1>10. n < MaxMsgs
  <2> HIDE DEF n
  <2>1. QED
    BY <1>1, MaxMsgsAssumption
<1>11. QED
  BY <1>3, <1>9, <1>10

\* Advancing head over a message removes it from the front of the sequence.
LEMMA RingTail ==
    ASSUME NEW p \in Pools, NEW h \in Indices, NEW t \in Indices, h # t
    PROVE  /\ Ring(p, h, t) # <<>>
           /\ Head(Ring(p, h, t)) = p[h]
           /\ Ring(p, Succ(h), t) = Tail(Ring(p, h, t))
<1> DEFINE n == Distance(h, t)
           old == Ring(p, h, t)
           new == Ring(p, Succ(h), t)
<1>1. /\ n \in 1 .. MaxMsgs
      /\ Succ(h) \in Indices
      /\ Distance(Succ(h), t) = n - 1
  BY DistanceWraps, RecvShortens, SuccWraps, MaxMsgsAssumption DEF Indices, Slots
<1>2. /\ old \in Seq(Contents) /\ Len(old) = n
      /\ \A k \in 1 .. n : old[k] = p[Slot(h, k - 1)]
  BY RingIsSeq
<1>3. /\ new \in Seq(Contents) /\ Len(new) = n - 1
      /\ \A k \in 1 .. n - 1 : new[k] = p[Slot(Succ(h), k - 1)]
  BY <1>1, RingIsSeq
<1>4. ASSUME NEW k \in 1 .. n - 1 PROVE Slot(Succ(h), k - 1) = Slot(h, k)
  <2>1. k - 1 \in Indices /\ k \in Indices
    BY <1>1, MaxMsgsAssumption DEF Indices
  <2>2. Succ(h) = IF h = MaxMsgs THEN 0 ELSE h + 1
    BY SuccWraps
  <2>3. Slot(Succ(h), k - 1) = IF Succ(h) + (k - 1) <= MaxMsgs
                               THEN Succ(h) + (k - 1) ELSE Succ(h) + (k - 1) - Slots
    BY <1>1, <2>1, SlotWraps
  <2>4. Slot(h, k) = IF h + k <= MaxMsgs THEN h + k ELSE h + k - Slots
    BY <2>1, SlotWraps
  <2>5. QED
    BY <1>1, <2>2, <2>3, <2>4, MaxMsgsAssumption DEF Indices, Slots
<1>5. old # <<>> /\ Head(old) = p[h]
  <2>1. Slot(h, 0) = h
    BY SlotWraps, MaxMsgsAssumption DEF Indices
  <2>2. QED
    BY <1>1, <1>2, <2>1
<1>6. Tail(old) \in Seq(Contents) /\ Len(Tail(old)) = n - 1
      /\ \A k \in 1 .. n - 1 : Tail(old)[k] = old[k + 1]
  BY <1>1, <1>2, <1>5
<1>7. ASSUME NEW k \in 1 .. n - 1 PROVE new[k] = Tail(old)[k]
  <2>1. old[k + 1] = p[Slot(h, k)]
    BY <1>1, <1>2
  <2>2. QED
    BY <1>3, <1>4, <1>6, <2>1
<1>8. new = Tail(old)
  <2> HIDE DEF n, old, new
  <2>1. QED
    BY <1>1, <1>3, <1>6, <1>7
<1>9. QED
  BY <1>5, <1>8

\* A ring with head on tail holds nothing.
LEMMA RingEmpty ==
    ASSUME NEW p \in Pools, NEW h \in Indices
    PROVE  Ring(p, h, h) = <<>>
<1>1. Distance(h, h) = 0
  BY DistanceWraps DEF Indices
<1>2. QED
  BY <1>1, RingIsSeq

-----------------------------------------------------------------------------
\* Every call keeps the ring's indices inside the ring and its slots messages.
THEOREM TypeCorrect == Spec => []TypeOK
<1>1. Init => TypeOK
  BY MaxMsgsAssumption DEF Init, TypeOK, Indices, Contents, Codes
<1>2. TypeOK /\ [Next]_vars => TypeOK'
  <2> SUFFICES ASSUME TypeOK, [Next]_vars PROVE TypeOK'
    OBVIOUS
  <2> USE DEF TypeOK
  <2>1. ASSUME NEW s \in Senders, NEW m \in Msg \cup TooBig, SendRefused(s, m)
        PROVE  TypeOK'
    BY <2>1 DEF SendRefused, Returns, Threads, Codes
  <2>2. ASSUME NEW s \in Senders, NEW m \in Msg \cup TooBig, SendAccepted(s, m)
        PROVE  TypeOK'
    <3>1. rx' \in [Receivers -> {"idle", "woken"} \cup Waiting]
      BY <2>2 DEF SendAccepted, Signal, Waiters
    <3>2. tail' \in Indices
      BY <2>2, SuccWraps DEF SendAccepted
    <3>3. QED
      BY <2>2, <3>1, <3>2 DEF SendAccepted, Returns, Threads, Codes, Contents
  <2>3. ASSUME NEW r \in Receivers, TakeSlot(r)
        PROVE  TypeOK'
    <3>1. head' \in Indices
      BY <2>3, SuccWraps DEF TakeSlot
    <3>2. QED
      BY <2>3, <3>1 DEF TakeSlot, Returns, Threads, Codes
  <2>4. ASSUME NEW r \in Receivers, Recv(r)
        PROVE  TypeOK'
    <3>1. CASE RecvNow(r)
      BY <2>3, <3>1 DEF RecvNow
    <3>2. CASE RecvPoll(r)
      BY <3>2 DEF RecvPoll, Returns, Threads, Codes
    <3>3. CASE \E t \in Waiting : RecvWait(r, t)
      BY <3>3 DEF RecvWait
    <3>4. QED
      BY <2>4, <3>1, <3>2, <3>3 DEF Recv
  <2>5. ASSUME NEW r \in Receivers, WakeUp(r)
        PROVE  TypeOK'
    BY <2>3, <2>5 DEF WakeUp
  <2>6. ASSUME NEW r \in Receivers, Expire(r)
        PROVE  TypeOK'
    BY <2>6 DEF Expire, Returns, Threads, Codes
  <2>7. ASSUME NEW r \in Receivers, SpuriousWakeUp(r)
        PROVE  TypeOK'
    BY <2>7 DEF SpuriousWakeUp
  <2>8. ASSUME NEW t \in Resetters, Reset(t)
        PROVE  TypeOK'
    BY <2>8, MaxMsgsAssumption DEF Reset, Returns, Threads, Codes, Indices
  <2>9. CASE Delete
    BY <2>9 DEF Delete
  <2>10. CASE Create
    BY <2>10, MaxMsgsAssumption DEF Create, Indices, Contents
  <2>11. CASE UNCHANGED vars
    BY <2>11 DEF vars
  <2>12. QED
    BY <2>1, <2>2, <2>4, <2>5, <2>6, <2>7, <2>8, <2>9, <2>10, <2>11
    DEF Next, Send, ReturnUnsignalled
<1>3. QED
  BY <1>1, <1>2, PTL DEF Spec

-----------------------------------------------------------------------------
(***************************************************************************)
(* With one receiver no wakeup is lost.  Inductive together with the fact  *)
(* that a deleted queue has nobody inside b_mq_recv.                       *)
(***************************************************************************)
SleepInv == SleepsOnlyWhenEmpty /\ DeadIsQuiet

\* The strengthened invariant is preserved by every step.
LEMMA SleepInvariant ==
    ASSUME OneReceiver
    PROVE  Spec => []SleepInv
<1> USE DEF SleepInv, SleepsOnlyWhenEmpty, DeadIsQuiet, IsEmpty, Waiting
<1>1. Init => SleepInv
  BY DEF Init
<1>2. TypeOK /\ SleepInv /\ [Next]_vars => SleepInv'
  <2> SUFFICES ASSUME TypeOK, SleepInv, [Next]_vars PROVE SleepInv'
    OBVIOUS
  <2>0. PICK c : Receivers = {c}
    BY DEF OneReceiver
  <2>1. ASSUME NEW s \in Senders, NEW m \in Msg \cup TooBig, SendRefused(s, m)
        PROVE  SleepInv'
    BY <2>1 DEF SendRefused
  <2>2. ASSUME NEW s \in Senders, NEW m \in Msg \cup TooBig, SendAccepted(s, m)
        PROVE  SleepInv'
    BY <2>0, <2>2 DEF SendAccepted, Signal, Waiters, TypeOK
  <2>3. ASSUME NEW r \in Receivers, TakeSlot(r), live
        PROVE  SleepInv'
    BY <2>0, <2>3 DEF TakeSlot, TypeOK
  <2>4. ASSUME NEW r \in Receivers, Recv(r)
        PROVE  SleepInv'
    <3>1. CASE RecvNow(r)
      BY <2>3, <3>1 DEF RecvNow
    <3>2. CASE RecvPoll(r)
      BY <3>2 DEF RecvPoll
    <3>3. CASE \E t \in Waiting : RecvWait(r, t)
      BY <2>0, <3>3 DEF RecvWait, TypeOK
    <3>4. QED
      BY <2>4, <3>1, <3>2, <3>3 DEF Recv
  <2>5. ASSUME NEW r \in Receivers, WakeUp(r)
        PROVE  SleepInv'
    BY <2>3, <2>5 DEF WakeUp
  <2>6. ASSUME NEW r \in Receivers, Expire(r)
        PROVE  SleepInv'
    BY <2>0, <2>6 DEF Expire, TypeOK
  <2>7. ASSUME NEW r \in Receivers, SpuriousWakeUp(r)
        PROVE  SleepInv'
    BY <2>0, <2>7 DEF SpuriousWakeUp, TypeOK
  <2>8. ASSUME NEW t \in Resetters, Reset(t)
        PROVE  SleepInv'
    BY <2>8 DEF Reset
  <2>9. CASE Delete
    BY <2>9 DEF Delete
  <2>10. CASE Create
    BY <2>10 DEF Create
  <2>11. CASE UNCHANGED vars
    BY <2>11 DEF vars
  <2>12. QED
    BY <2>1, <2>2, <2>4, <2>5, <2>6, <2>7, <2>8, <2>9, <2>10, <2>11
    DEF Next, Send, ReturnUnsignalled
<1>3. QED
  BY <1>1, <1>2, TypeCorrect, PTL DEF Spec

\* With one receiving thread, a receiver asleep on c_empty has nothing to
\* receive, whoever resets the queue and even if waits return spuriously.
THEOREM NoLostWakeup ==
    ASSUME OneReceiver
    PROVE  Spec => []SleepsOnlyWhenEmpty
<1>1. SleepInv => SleepsOnlyWhenEmpty
  BY DEF SleepInv
<1>2. QED
  BY <1>1, SleepInvariant, PTL

-----------------------------------------------------------------------------
(***************************************************************************)
(* Under the discipline a wakeup stands for a message, and the ring is a   *)
(* first-in first-out buffer.                                              *)
(***************************************************************************)
WakeInv == WokenHasMessage /\ SleepInv

\* The strengthened invariant is preserved by every step.
LEMMA WakeInvariant ==
    ASSUME Discipline
    PROVE  Spec => []WakeInv
<1> USE DEF WakeInv, WokenHasMessage
<1>1. Init => WakeInv
  BY DEF Init, SleepInv, SleepsOnlyWhenEmpty, DeadIsQuiet, Waiting
<1>2. TypeOK /\ TypeOK' /\ SleepInv /\ SleepInv' /\ WokenHasMessage /\ [Next]_vars
        => WokenHasMessage'
  <2> SUFFICES ASSUME TypeOK, TypeOK', SleepInv, WokenHasMessage, [Next]_vars
               PROVE  WokenHasMessage'
    OBVIOUS
  <2>0. PICK c : Receivers = {c}
    BY DEF Discipline, OneReceiver
  <2>1. ASSUME NEW s \in Senders, NEW m \in Msg \cup TooBig, SendAccepted(s, m)
        PROVE  WokenHasMessage'
    <3>1. Succ(tail) # tail
      BY SuccWraps, MaxMsgsAssumption DEF TypeOK, Indices
    <3>2. CASE IsEmpty
      BY <2>1, <3>1, <3>2 DEF SendAccepted, IsEmpty
    <3>3. CASE ~IsEmpty
      BY <2>1 DEF SendAccepted, IsEmpty, IsFull
    <3>4. QED
      BY <3>2, <3>3
  <2>2. ASSUME NEW r \in Receivers, TakeSlot(r)
        PROVE  WokenHasMessage'
    BY <2>0, <2>2 DEF TakeSlot, TypeOK
  <2>3. ASSUME NEW r \in Receivers, Recv(r)
        PROVE  WokenHasMessage'
    BY <2>0, <2>2, <2>3 DEF Recv, RecvNow, RecvPoll, RecvWait, TypeOK, IsEmpty, Waiting
  <2>4. ASSUME NEW r \in Receivers, WakeUp(r) \/ Expire(r) \/ SpuriousWakeUp(r)
        PROVE  WokenHasMessage'
    BY <2>0, <2>2, <2>4 DEF WakeUp, Expire, SpuriousWakeUp, Discipline, TypeOK
  <2>5. ASSUME NEW t \in Resetters, Reset(t)
        PROVE  WokenHasMessage'
    BY <2>0, <2>5 DEF Reset, Discipline
  <2>6. CASE Delete \/ Create
    BY <2>0, <2>6 DEF Delete, Create, SleepInv, DeadIsQuiet
  <2>7. ASSUME NEW s \in Senders, NEW m \in Msg \cup TooBig, SendRefused(s, m)
        PROVE  WokenHasMessage'
    BY <2>7 DEF SendRefused, IsEmpty
  <2>8. CASE UNCHANGED vars
    BY <2>8 DEF vars, IsEmpty
  <2>9. QED
    BY <2>1, <2>3, <2>4, <2>5, <2>6, <2>7, <2>8 DEF Next, Send, ReturnUnsignalled
<1>3. QED
  <2>1. Spec => []SleepInv
    BY SleepInvariant DEF Discipline
  <2>2. QED
    BY <1>1, <1>2, <2>1, TypeCorrect, PTL DEF Spec

\* Under the discipline, the receiver that comes back from the wait finds a
\* message at head although b_mq_recv does not look.
THEOREM WakeupsHaveMessages ==
    ASSUME Discipline
    PROVE  Spec => []WokenHasMessage
<1>1. WakeInv => WokenHasMessage
  BY DEF WakeInv
<1>2. QED
  BY <1>1, WakeInvariant, PTL

-----------------------------------------------------------------------------
(***************************************************************************)
(* The refinement.  An accepted send is Put, a receive is Take, a reset    *)
(* and the creation of the next queue are Clear; every other step leaves   *)
(* the buffer and the inboxes alone.                                       *)
(***************************************************************************)
\* The start of the ring is a start of the buffer.
LEMMA InitRefines == Init => Fifo!Init
<1> SUFFICES ASSUME Init PROVE Fifo!Init
  OBVIOUS
<1>1. RingContents = <<>>
  <2>1. pool \in Pools /\ 0 \in Indices /\ head = 0 /\ tail = 0
    BY MaxMsgsAssumption DEF Init, Pools, Contents, Indices
  <2>2. QED
    BY <2>1, RingEmpty DEF RingContents
<1>2. inbox \in [Receivers -> Contents]
  BY DEF Init, Contents
<1>3. QED
  BY <1>1, <1>2 DEF Fifo!Init

\* Every step of the ring is a step of the buffer or leaves it alone.
LEMMA StepRefines ==
    ASSUME TypeOK, TypeOK', WokenHasMessage, [Next]_vars
    PROVE  [Fifo!Next]_(Fifo!fifoVars)
<1> SUFFICES Fifo!Next \/ (RingContents' = RingContents /\ inbox' = inbox)
  BY DEF Fifo!fifoVars
<1>0. pool \in Pools /\ head \in Indices /\ tail \in Indices
  BY DEF TypeOK, Pools
<1>1. ASSUME NEW s \in Senders, NEW m \in Msg \cup TooBig, SendAccepted(s, m)
      PROVE  Fifo!Next
  <2>1. m \in Contents /\ Succ(tail) # head
    BY <1>1 DEF SendAccepted, Contents, IsFull
  <2>2. RingContents' = Ring([pool EXCEPT ![tail] = m], head, Succ(tail))
    BY <1>1 DEF SendAccepted, RingContents, Ring, Distance, Slot
  <2>3. Len(RingContents) < MaxMsgs /\ RingContents' = Append(RingContents, m)
    BY <1>0, <2>1, <2>2, RingAppend DEF RingContents
  <2>4. Fifo!Put(m)
    BY <1>1, <2>3 DEF Fifo!Put, SendAccepted
  <2>5. QED
    BY <2>1, <2>4 DEF Fifo!Next
<1>2. ASSUME NEW r \in Receivers, TakeSlot(r), ~IsEmpty
      PROVE  Fifo!Next
  <2>1. RingContents' = Ring(pool, Succ(head), tail)
    BY <1>2 DEF TakeSlot, RingContents, Ring, Distance, Slot
  <2>2. /\ RingContents # <<>>
        /\ Head(RingContents) = pool[head]
        /\ RingContents' = Tail(RingContents)
    BY <1>0, <1>2, <2>1, RingTail DEF RingContents, IsEmpty
  <2>3. Fifo!Take(r)
    BY <1>2, <2>2 DEF Fifo!Take, TakeSlot
  <2>4. QED
    BY <2>3 DEF Fifo!Next
<1>3. ASSUME head' = tail', inbox' = inbox
      PROVE  Fifo!Next
  <2>1. pool' \in Pools /\ head' \in Indices
    BY DEF TypeOK, Pools
  <2>2. RingContents' = Ring(pool', head', head')
    BY <1>3 DEF RingContents, Ring, Distance, Slot
  <2>3. RingContents' = <<>>
    <3> HIDE DEF Pools
    <3>1. QED
      BY <2>1, <2>2, RingEmpty
  <2>4. QED
    BY <1>3, <2>3 DEF Fifo!Next, Fifo!Clear
<1>4. ASSUME UNCHANGED <<pool, head, tail, inbox>>
      PROVE  RingContents' = RingContents /\ inbox' = inbox
  BY <1>4 DEF RingContents, Ring, Distance, Slot
<1>5. ASSUME NEW r \in Receivers, Recv(r) \/ WakeUp(r) \/ Expire(r) \/ SpuriousWakeUp(r)
      PROVE  Fifo!Next \/ (RingContents' = RingContents /\ inbox' = inbox)
  <2>1. CASE RecvNow(r)
    BY <1>2, <2>1 DEF RecvNow
  <2>2. CASE WakeUp(r)
    BY <1>2, <2>2 DEF WakeUp, WokenHasMessage
  <2>3. CASE RecvPoll(r) \/ (\E t \in Waiting : RecvWait(r, t)) \/ Expire(r)
               \/ SpuriousWakeUp(r)
    BY <1>4, <2>3 DEF RecvPoll, RecvWait, Expire, SpuriousWakeUp
  <2>4. QED
    BY <1>5, <2>1, <2>2, <2>3 DEF Recv
<1>6. ASSUME NEW s \in Senders, NEW m \in Msg \cup TooBig, SendRefused(s, m)
      PROVE  RingContents' = RingContents /\ inbox' = inbox
  BY <1>4, <1>6 DEF SendRefused
<1>7. ASSUME NEW t \in Resetters, Reset(t)
      PROVE  Fifo!Next
  BY <1>3, <1>7 DEF Reset
<1>8. CASE Delete
  BY <1>4, <1>8 DEF Delete
<1>9. CASE Create
  BY <1>3, <1>9 DEF Create
<1>10. CASE UNCHANGED vars
  BY <1>4, <1>10 DEF vars
<1>11. QED
  BY <1>1, <1>5, <1>6, <1>7, <1>8, <1>9, <1>10
  DEF Next, Send, ReturnUnsignalled

\* Under the discipline the ring with its mutex and condition variable
\* implements the bounded first-in first-out buffer.
THEOREM ImplementsFifo ==
    ASSUME Discipline
    PROVE  Spec => FifoSpec
<1>1. Spec => []TypeOK
  BY TypeCorrect
<1>2. Spec => []WakeInv
  BY WakeInvariant
<1>3. TypeOK /\ TypeOK' /\ WakeInv /\ [Next]_vars => [Fifo!Next]_(Fifo!fifoVars)
  BY StepRefines DEF WakeInv
<1>4. QED
  BY <1>1, <1>2, <1>3, InitRefines, PTL DEF Spec, FifoSpec, Fifo!Spec
=============================================================================
