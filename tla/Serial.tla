------------------------------- MODULE Serial -------------------------------
(***************************************************************************)
(* A serial port with meters of DL/T645 (sdccp/dlt645.c and, the same but  *)
(* for the width of the markers, sdccp/dlt645_1997.c) or with a dust       *)
(* sensor (sdccp/sdccp_dust.c): the worker of sdccp/sdccp_serial.c gathers *)
(* what the bus brings, the parser puts answers and readings into a        *)
(* mailbox of one message, and the collection task asks and receives.  The *)
(* mailbox is BlockMsgQueue with its unlooped wait, used here in a way its *)
(* Discipline rules out: the sending side resets it.                       *)
(*                                                                         *)
(* A message is a kind: the variable an answer is for (meter and marker),  *)
(* "ok" for the acknowledgement of the sensor or "data" for a reading.     *)
(***************************************************************************)
EXTENDS Integers, Sequences

CONSTANTS Vars,     \* what is read from the meters of the port
          WireLen,  \* bound: frames on their way from the bus
          Burst     \* readings of the sensor after a start, DUST_DATA_CNT_MAX

ASSUME SerialAssumption ==
  /\ Vars \cap {"ok", "data", "dataNext", "nothing", "zero"} = {}
  /\ WireLen \in Nat \ {0} /\ Burst \in Nat

VARIABLES pool, head, tail, rx, inbox, ret, live,  \* of the mailbox
          proto,   \* proto_type of the port
          first,   \* it is the port of index 0
          harsh,   \* the system: see below
          pc,      \* where the collection task is
          want,    \* the variable it asks for
          packet,  \* what the static buf of vCreatePaket asks for
          wire,    \* frames from the bus, not gathered yet
          hand,    \* what the worker has parsed and not handed over yet
          left,    \* readings the sensor still sends
          stale    \* slots not written since the request began

mailbox == <<pool, head, tail, rx, inbox, ret, live>>
port == <<proto, first, harsh>>
bus == <<wire, hand, left>>
vars == <<mailbox, port, pc, want, packet, bus, stale>>

Task == "task"
Worker == "worker"
Kinds == Vars \cup {"ok", "data"}
Zero == "zero"
Nothing == "nothing"

Q == INSTANCE BlockMsgQueue WITH
       Msg <- Kinds, TooBig <- {}, MaxMsgs <- 1, Spurious <- TRUE,
       Senders <- {Worker}, Receivers <- {Task}, Resetters <- {Worker}

Init ==
  /\ Q!Init
  /\ proto \in {"dlt645", "dust"}
  /\ first \in BOOLEAN
  /\ harsh \in BOOLEAN
  /\ pc = "idle"
  /\ want \in Vars
  /\ packet = Nothing
  /\ wire = <<>>
  /\ hand = Nothing
  /\ left = 0
  /\ stale = {}

-----------------------------------------------------------------------------
(* The bus.                                                                *)

(* On a harsh system a wait may end without a signal, and a task that was  *)
(* woken may come to its mutex only after further frames, milliseconds at  *)
(* the least, have been gathered and handed over.                          *)
InTime == ~harsh => rx[Task] # "woken"

(* Two frames with no gap between them are one to the worker, and its      *)
(* checksum is wrong; one may be damaged as well.                          *)
Gather ==
  /\ hand = Nothing
  /\ InTime
  /\ \E n \in 1 .. Len(wire) :
       /\ wire' = SubSeq(wire, n + 1, Len(wire))
       /\ hand' \in IF n = 1 THEN {Head(wire), Nothing} ELSE {Nothing}
  /\ UNCHANGED <<mailbox, port, pc, want, packet, left, stale>>

(* rt_mq_send, refused when the slot is taken. *)
Put(m) ==
  /\ Q!Send(Worker, m)
  /\ stale' = IF tail' = tail THEN stale ELSE stale \ {tail}

(* Dlt645_ParsePack, and the first two cases of Dust_ParsePack. *)
HandOver ==
  /\ hand \in Kinds \ {"data"}
  /\ Put(hand)
  /\ hand' = Nothing
  /\ UNCHANGED <<port, pc, want, packet, wire, left>>

(* A reading replaces what is in the mailbox: in one critical section the  *)
(* reset, in the next the message.                                         *)
ResetForData ==
  /\ hand = "data"
  /\ Q!Reset(Worker)
  /\ hand' = "dataNext"
  /\ UNCHANGED <<port, pc, want, packet, wire, left, stale>>

SendData ==
  /\ hand = "dataNext"
  /\ Put("data")
  /\ hand' = Nothing
  /\ UNCHANGED <<port, pc, want, packet, wire, left>>

(* Once started the sensor sends a reading every second and then stops. *)
Reading ==
  /\ left > 0
  /\ left' = left - 1
  /\ wire' = IF Len(wire) < WireLen THEN Append(wire, "data") ELSE wire
  /\ UNCHANGED <<mailbox, port, pc, want, packet, hand, stale>>

(* An answer comes at any time after its request, or never. *)
Answered(m) ==
  wire' \in {wire} \cup (IF Len(wire) < WireLen THEN {Append(wire, m)} ELSE {})

(* A sensor that hears the start begins anew. *)
Started == Answered("ok") /\ left' \in {left, Burst}
NotAsked == UNCHANGED <<wire, left>>

-----------------------------------------------------------------------------
(* The collection task.                                                    *)

(* The first lines of bDlt645ReadData; bDustStartSample, when the interval *)
(* of the port is over, sends its first start to the port of index 0.      *)
AskMeter(v) ==
  /\ proto = "dlt645" /\ pc = "idle"
  /\ want' = v
  /\ packet' = v
  /\ stale' = Q!Indices
  /\ pc' = "clear"
  /\ UNCHANGED <<mailbox, port, bus>>

StartSample(v) ==
  /\ proto = "dust" /\ pc = "idle"
  /\ want' = v
  /\ stale' = Q!Indices
  /\ pc' = "clear"
  /\ IF first THEN Started ELSE NotAsked
  /\ UNCHANGED <<mailbox, port, packet, hand>>

ReadOnly(v) ==
  /\ proto = "dust" /\ pc = "idle"
  /\ want' = v
  /\ pc' = "read"
  /\ UNCHANGED <<mailbox, port, packet, bus, stale>>

(* The packet is made in a static buffer: the task of another port with    *)
(* meters may make its own in it before this one is sent.                  *)
OtherPort ==
  /\ proto = "dlt645" /\ pc \in {"clear", "send"}
  /\ packet' = Nothing
  /\ UNCHANGED <<mailbox, port, pc, want, bus, stale>>

(* bDustStartSample of another port's task sends a start here as well. *)
OtherStarts ==
  /\ proto = "dust" /\ first
  /\ Started
  /\ UNCHANGED <<mailbox, port, pc, want, packet, hand, stale>>

(* One receive with RT_WAITING_NO. *)
NotReceived == UNCHANGED mailbox
ReceiveNoWait == Q!RecvNow(Task) \/ Q!RecvPoll(Task)

Clear ==
  /\ pc = "clear"
  /\ ReceiveNoWait
  /\ pc' = "send"
  /\ UNCHANGED <<port, want, packet, bus, stale>>

(* Nobody on this bus answers the request of another port. *)
SendRequest ==
  /\ pc = "send"
  /\ pc' = "wait"
  /\ CASE proto = "dust" -> Started
       [] proto # "dust" /\ packet = want -> Answered(want) /\ UNCHANGED left
       [] OTHER -> NotAsked
  /\ UNCHANGED <<mailbox, port, want, packet, hand, stale>>

Wanted == IF proto = "dust" THEN "ok" ELSE want
AfterWait == IF proto = "dust" THEN "read" ELSE "idle"

(* The loop of receives: each one that brings something else begins        *)
(* another wait of the whole timeout.                                      *)
Receive ==
  /\ pc = "wait"
  /\ Q!RecvNow(Task) \/ Q!WakeUp(Task)
  /\ pc' = IF inbox'[Task] = Wanted THEN AfterWait ELSE "wait"
  /\ UNCHANGED <<port, want, packet, bus, stale>>

TimeoutForever == "forever"
Timeout == "timed"

Wait ==
  /\ pc = "wait"
  /\ Q!RecvWait(Task, Timeout)
  /\ UNCHANGED <<port, pc, want, packet, bus, stale>>

GiveUp ==
  /\ pc = "wait"
  /\ Q!Expire(Task)
  /\ pc' = AfterWait
  /\ UNCHANGED <<port, want, packet, bus, stale>>

SpuriousReturn ==
  /\ harsh
  /\ Q!SpuriousWakeUp(Task)
  /\ UNCHANGED <<port, pc, want, packet, bus, stale>>

(* bDust_ReadData, called with timeout 0: one receive. *)
ReadData ==
  /\ pc = "read"
  /\ ReceiveNoWait
  /\ pc' = "idle"
  /\ UNCHANGED <<port, want, packet, bus, stale>>

TaskNext ==
  \/ \E v \in Vars : AskMeter(v) \/ StartSample(v) \/ ReadOnly(v)
  \/ Clear \/ SendRequest \/ Receive \/ Wait \/ GiveUp \/ ReadData
WorkerNext == Gather \/ HandOver \/ ResetForData \/ SendData

Next ==
  \/ TaskNext \/ WorkerNext \/ Reading
  \/ OtherPort \/ OtherStarts \/ SpuriousReturn
Spec == Init /\ [][Next]_vars

(* Both threads are scheduled and time passes; the sensor stops by itself. *)
Fairness == WF_vars(TaskNext) /\ WF_vars(WorkerNext) /\ WF_vars(Reading)
FairSpec == Spec /\ Fairness

-----------------------------------------------------------------------------
(* The task sleeps in its mailbox only as long as there is nothing in it,  *)
(* although the worker resets it while the task waits and the wait may end *)
(* without a signal.                                                       *)
SleepsOnlyWhenEmpty == Q!SleepsOnlyWhenEmpty

(* A message in the mailbox is taken or replaced, and does not keep later  *)
(* ones out for ever.                                                      *)
MessageMovesOn == Q!MessageMovesOn

(* Unless the system is harsh, what the task takes for the answer to its   *)
(* request has come since the request began: no answer that was too late   *)
(* for the last request, perhaps for the same variable, and no slot that a *)
(* reset leaves behind under a waiting task.                               *)
AnswerIsNew ==
  [][~harsh /\ pc = "wait" /\ pc' # "wait" /\ ret'[Task] = "ok"
       => head \notin stale]_vars

(* Unless the system is harsh a request comes to its end, although every   *)
(* message that is not its answer begins the wait anew, a sensor may go on *)
(* sending readings, and the tasks of other ports may start it, too.  They *)
(* do so once in an interval: only if they did for ever could their starts *)
(* keep the readings coming, and every acknowledgement be lost.            *)
RequestEnds ==
  \/ ~harsh /\ pc = "wait" ~> pc # "wait"
  \/ []<><<OtherStarts>>_vars
=============================================================================
