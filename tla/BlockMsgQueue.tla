---------------------------- MODULE BlockMsgQueue ----------------------------
(***************************************************************************)
(* block_msg_queue.c: the message queue under every rt_mq_* call of the    *)
(* firmware (das_os.h:120-125).  A ring of MaxMsgs + 1 slots guarded by    *)
(* one mutex; send never blocks, receive may wait on the condition         *)
(* variable c_empty.                                                       *)
(*                                                                         *)
(* A call holds the mutex from its first line to its last, so it is one    *)
(* step, except that b_mq_recv gives the mutex up inside                   *)
(* pthread_cond_(timed)wait: entering the wait, being signalled and coming *)
(* back with the mutex are three steps, and any other thread may run       *)
(* between them.  The code does not test head # tail again when it comes   *)
(* back: WakeUp takes the slot at head whatever happened in between.       *)
(* c_full is signalled and never waited on; it is not modelled.            *)
(***************************************************************************)
EXTENDS Integers, Sequences

CONSTANTS
    Msg,            \* the messages that fit a slot
    Zero,           \* the content of a slot since calloc
    TooBig,         \* messages longer than msg_size
    Senders,        \* threads calling b_mq_send
    Receivers,      \* threads calling b_mq_recv
    Resetters,      \* threads calling b_mq_reset
    MaxMsgs,        \* the max_msgs argument of b_mq_create
    Spurious        \* may pthread_cond_wait return without a signal?

ASSUME MaxMsgsAssumption == MaxMsgs \in Nat \ {0}
ASSUME MsgAssumption == Zero \notin Msg /\ Msg \cap TooBig = {}
ASSUME SpuriousAssumption == Spurious \in BOOLEAN

VARIABLES
    pool,       \* msg_pool: the slots
    head,       \* the slot of the next message to receive
    tail,       \* the slot of the next message to send
    rx,         \* rx[r]: where receiver r stands in b_mq_recv
    inbox,      \* inbox[r]: the buffer the last receive of r filled
    ret,        \* ret[t]: what the last call of thread t returned
    live        \* the queue is created and not deleted

vars == <<pool, head, tail, rx, inbox, ret, live>>

Slots == MaxMsgs + 1
Indices == 0 .. MaxMsgs
Threads == Senders \cup Receivers \cup Resetters
Timeouts == {"poll", "timed", "forever"}    \* timeout = 0, > 0 and < 0
Waiting == {"timed", "forever"}
Codes == {"ok", "timeout", "full", "size"}

\* The content of a slot after memcpy of a message.
Contents == Msg \cup {Zero}

SuccNoWrap(i) == i + 1

\* (i + 1) % max_msgs
Succ(i) == (i + 1) % Slots

\* The number of messages, as b_mq_msgs counts them.
Distance(h, t) == (t - h + Slots) % Slots
Count == Distance(head, tail)

\* The room left, as b_mq_remain counts it.
Remain == Slots - 1 - Count

IsEmpty == head = tail

IsFullOneLate == Count = Slots

IsFull == Succ(tail) = head

Waiters == {r \in Receivers : rx[r] \in Waiting}

Init ==
    /\ pool = [i \in Indices |-> Zero]
    /\ head = 0
    /\ tail = 0
    /\ rx = [r \in Receivers |-> "idle"]
    /\ inbox = [r \in Receivers |-> Zero]
    /\ ret = [t \in Threads |-> "ok"]
    /\ live = TRUE

\* pthread_cond_signal(&c_empty): one waiter, if any, stops waiting.
Signal ==
    \/ Waiters = {} /\ UNCHANGED rx
    \/ \E r \in Waiters : rx' = [rx EXCEPT ![r] = "woken"]

Returns(t, code) == ret' = [ret EXCEPT ![t] = code]

SendRefusedSignals(s, m) ==
    /\ live
    /\ \/ m \in TooBig /\ Returns(s, "size")
       \/ m \in Msg /\ IsFull /\ Returns(s, "full")
    /\ Signal
    /\ UNCHANGED <<pool, head, tail, inbox, live>>

SendRefused(s, m) ==
    /\ live
    /\ \/ m \in TooBig /\ Returns(s, "size")
       \/ m \in Msg /\ IsFull /\ Returns(s, "full")
    /\ UNCHANGED <<pool, head, tail, rx, inbox, live>>

SendAcceptedSilently(s, m) ==
    /\ live
    /\ m \in Msg
    /\ ~IsFull
    /\ pool' = [pool EXCEPT ![tail] = m]
    /\ tail' = Succ(tail)
    /\ Returns(s, "ok")
    /\ UNCHANGED <<head, rx, inbox, live>>

SendAccepted(s, m) ==
    /\ live
    /\ m \in Msg
    /\ ~IsFull
    /\ pool' = [pool EXCEPT ![tail] = m]
    /\ tail' = Succ(tail)
    /\ Signal
    /\ Returns(s, "ok")
    /\ UNCHANGED <<head, inbox, live>>

Send(s, m) == SendRefused(s, m) \/ SendAccepted(s, m)

\* The end of b_mq_recv when ret is B_MQ_ERR_OK: copy the slot, advance head.
TakeSlot(r) ==
    /\ inbox' = [inbox EXCEPT ![r] = pool[head]]
    /\ head' = Succ(head)
    /\ rx' = [rx EXCEPT ![r] = "idle"]
    /\ Returns(r, "ok")
    /\ UNCHANGED <<pool, tail, live>>

\* b_mq_recv finds a message.
RecvNow(r) ==
    /\ live
    /\ rx[r] = "idle"
    /\ ~IsEmpty
    /\ TakeSlot(r)

\* b_mq_recv finds none and does not wait.
RecvPoll(r) ==
    /\ live
    /\ rx[r] = "idle"
    /\ IsEmpty
    /\ Returns(r, "timeout")
    /\ UNCHANGED <<pool, head, tail, rx, inbox, live>>

\* b_mq_recv finds none and gives the mutex up to wait.
RecvWait(r, t) ==
    /\ live
    /\ rx[r] = "idle"
    /\ IsEmpty
    /\ rx' = [rx EXCEPT ![r] = t]
    /\ UNCHANGED <<pool, head, tail, inbox, ret, live>>

Recv(r) ==
    \/ RecvNow(r)
    \/ RecvPoll(r)
    \/ \E t \in Waiting : RecvWait(r, t)

\* The wait returned 0 and the mutex is held again: no second look at the ring.
WakeUp(r) ==
    /\ rx[r] = "woken"
    /\ TakeSlot(r)

\* pthread_cond_timedwait returned ETIMEDOUT.
Expire(r) ==
    /\ rx[r] = "timed"
    /\ rx' = [rx EXCEPT ![r] = "idle"]
    /\ Returns(r, "timeout")
    /\ UNCHANGED <<pool, head, tail, inbox, live>>

\* The wait returns 0 without a signal.
SpuriousWakeUp(r) ==
    /\ Spurious
    /\ rx[r] \in Waiting
    /\ rx' = [rx EXCEPT ![r] = "woken"]
    /\ UNCHANGED <<pool, head, tail, inbox, ret, live>>

\* The wait ends though nobody signalled.
ReturnUnsignalled(r) ==
    /\ rx[r] \in Waiting
    /\ Expire(r) \/ SpuriousWakeUp(r)

\* b_mq_reset.  A receiver that resets is not at the same time waiting.
Reset(t) ==
    /\ live
    /\ t \in Receivers => rx[t] = "idle"
    /\ head' = 0
    /\ tail' = 0
    /\ Returns(t, "ok")
    /\ UNCHANGED <<pool, rx, inbox, live>>

\* b_mq_delete frees the ring with no look at who waits on it.  The sessions
\* that delete a queue first wait for the thread that receives from it.
Delete ==
    /\ live
    /\ \A r \in Receivers : rx[r] = "idle"
    /\ live' = FALSE
    /\ UNCHANGED <<pool, head, tail, rx, inbox, ret>>

\* b_mq_create, when the next session opens: a cleared ring.
Create ==
    /\ ~live
    /\ live' = TRUE
    /\ pool' = [i \in Indices |-> Zero]
    /\ head' = 0
    /\ tail' = 0
    /\ UNCHANGED <<rx, inbox, ret>>

Next ==
    \/ \E s \in Senders, m \in Msg \cup TooBig : Send(s, m)
    \/ \E r \in Receivers : Recv(r) \/ WakeUp(r) \/ ReturnUnsignalled(r)
    \/ \E t \in Resetters : Reset(t)
    \/ Delete
    \/ Create

Spec == Init /\ [][Next]_vars

\* The receiving threads run: a storage or session thread calls b_mq_recv in a
\* loop, and one that was signalled gets the mutex.
Fairness == \A r \in Receivers : WF_vars(RecvNow(r)) /\ WF_vars(WakeUp(r))

FairSpec == Spec /\ Fairness

-----------------------------------------------------------------------------
(***************************************************************************)
(* The discipline under which b_mq_recv may skip the second test: one      *)
(* thread receives, nobody else resets, and the wait never returns without *)
(* a signal.                                                               *)
(***************************************************************************)
OneReceiver == \E r : Receivers = {r}

Discipline ==
    /\ OneReceiver
    /\ Resetters \subseteq Receivers
    /\ Spurious = FALSE

\* The messages in the ring, oldest first.
Slot(h, k) == (h + k) % Slots
Ring(p, h, t) == [k \in 1 .. Distance(h, t) |-> p[Slot(h, k - 1)]]
RingContents == Ring(pool, head, tail)

TypeOK ==
    /\ pool \in [Indices -> Contents]
    /\ head \in Indices
    /\ tail \in Indices
    /\ rx \in [Receivers -> {"idle", "woken"} \cup Waiting]
    /\ inbox \in [Receivers -> Contents]
    /\ ret \in [Threads -> Codes]
    /\ live \in BOOLEAN

\* A receiver that comes back from the wait finds a message at head: what the
\* missing second test in b_mq_recv (line 132 and 138) relies on.
WokenHasMessage == \A r \in Receivers : rx[r] = "woken" => ~IsEmpty

\* No lost wakeup: while the receiver sleeps on c_empty there is nothing to
\* receive.  b_mq_send may signal once per message and b_mq_reset need not
\* signal c_empty, whoever resets and even if the wait returns spuriously.
SleepsOnlyWhenEmpty == \A r \in Receivers : rx[r] \in Waiting => IsEmpty

\* A deleted queue has nobody inside b_mq_recv.
DeadIsQuiet == ~live => \A r \in Receivers : rx[r] = "idle"

\* The ring is a first-in first-out buffer of MaxMsgs messages: every accepted
\* message is handed out once, in order, and nothing else is ever handed out
\* (a slot read again, or read before it is written, is a step MsgFifo lacks).
Fifo == INSTANCE MsgFifo WITH
    Msg <- Contents, Readers <- Receivers, Capacity <- MaxMsgs,
    fifo <- RingContents, inbox <- inbox
FifoSpec == Fifo!Spec

\* A message in the queue is received, or the queue reset or deleted, also when
\* the receiver had gone to sleep for ever on an empty queue.
MessageMovesOn ==
    \A i \in Indices :
        (live /\ ~IsEmpty /\ head = i) ~> (head # i \/ IsEmpty \/ ~live)
-----------------------------------------------------------------------------
=============================================================================
