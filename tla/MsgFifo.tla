------------------------------- MODULE MsgFifo -------------------------------
(***************************************************************************)
(* What a message queue of the firmware promises the threads that share    *)
(* it: a bounded first-in first-out buffer.  A send either appends the     *)
(* message or is refused, a receive hands the oldest message to exactly    *)
(* one reader, and a reset empties the buffer.  Nothing is said here of    *)
(* the ring, its mutex or its condition variable: BlockMsgQueue            *)
(* (block_msg_queue.c) implements this specification.                      *)
(***************************************************************************)
EXTENDS Naturals, Sequences

CONSTANTS
    Msg,        \* the messages
    Readers,    \* the threads that receive
    Capacity    \* how many messages the buffer holds

VARIABLES
    fifo,       \* the messages accepted and not yet received, oldest first
    inbox       \* inbox[r]: the last message handed to reader r

fifoVars == <<fifo, inbox>>

Init ==
    /\ fifo = <<>>
    /\ \E none \in [Readers -> Msg] : inbox = none

Put(m) ==
    /\ Len(fifo) < Capacity
    /\ fifo' = Append(fifo, m)
    /\ UNCHANGED inbox

Take(r) ==
    /\ fifo # <<>>
    /\ fifo' = Tail(fifo)
    /\ inbox' = [inbox EXCEPT ![r] = Head(fifo)]

Clear ==
    /\ fifo' = <<>>
    /\ UNCHANGED inbox

Next ==
    \/ \E m \in Msg : Put(m)
    \/ \E r \in Readers : Take(r)
    \/ Clear

Spec == Init /\ [][Next]_fifoVars
=============================================================================
