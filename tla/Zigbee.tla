------------------------------- MODULE Zigbee -------------------------------
(***************************************************************************)
(* The radio of the device: the commands of drivers/zigbee/zigbee.c to the *)
(* module on its serial port, the list of nodes of board/zgb_std.c, and    *)
(* the threads that use both.  A command is sent and its answer waited for *)
(* under s_zgb_mutex; the list is guarded by s_zgb_std_mutex; both may be  *)
(* taken again by the thread that holds them (das_util.c:193).  Where a    *)
(* frame goes is decided by the module's destination, of which             *)
(* ucZigbeeSetDstAddr remembers what it last set.                          *)
(*                                                                         *)
(* s_zgb_cmd_queue and s_zgb_buf_queue hold one message each.  Each has    *)
(* one thread receiving at a time, which alone may reset it, so that they  *)
(* are the buffers BlockMsgQueue implements; here they are two slots.      *)
(***************************************************************************)
EXTENDS Integers, Sequences

CONSTANTS Nodes,    \* end devices, each with one modbus slave behind it
          Master,   \* the coordinator, as an end device sees it
          Default,  \* the destination of the module after a reset
          Chain,    \* the nodes in the order a collection task polls them
          Pollers,  \* threads that call zgb_set_dst_node
          ReplyMax  \* bound: answers of the module on their way

ASSUME ZigbeeAssumption ==
  /\ Nodes \cap {Master, Default, "none"} = {} /\ Master # "none"
  /\ Pollers \cap {"parser", "gateway", "web", "none"} = {}
  /\ Chain \in Seq(Nodes) /\ Len(Chain) > 0
  /\ ReplyMax \in Nat \ {0}

VARIABLES role,      \* xInfo.WorkMode: "coordinator" or "end"
          line,      \* the surroundings: "clean", troubled or "settled"
          dst, mode, \* destination and way of sending of the module
          reply,     \* answers of the module on their way to the worker
          air,       \* those whose scan frames are on their way to it
          slot,      \* s_zgb_cmd_queue
          std,       \* s_zgb_buf_queue
          zgbOwner,  \* who holds s_zgb_mutex
          hold,      \* s_zgb_incmd_hold
          stdOwner,  \* who holds s_zgb_std_mutex
          usAddr,    \* s_usAddr of ucZigbeeSetDstAddr
          online,    \* the nodes of s_zgb_mnode that are online
          place,     \* where each thread is
          at,        \* the place in Chain each poller has come to
          from       \* whom the parser or the gateway is concerned with

moduleVars == <<dst, mode, reply>>
queueVars == <<slot, std>>
lockVars == <<zgbOwner, hold, stdOwner>>
radioVars == <<role, line, moduleVars, air, queueVars, lockVars, usAddr,
               online, place, at, from>>

Parser == "parser"
Gateway == "gateway"
Web == "web"
Threads == Pollers \cup {Parser, Gateway, Web}
None == "none"
Listed == Nodes \cup {Master}

(* Answers late or lost and a clock that is set; a gateway port; a change  *)
(* of the configuration.  On a settled line a command is not refused, and  *)
(* every node hears the scan and its answer is stored before the next one. *)
Troubles == {"noise", "gateway", "web"}

Ops == {"dst", "mode", "rssi", "set"}
Answers == [op : Ops, ok : BOOLEAN]
Empty == [op |-> None, ok |-> FALSE]
InCmd == hold > 0

RadioInit ==
  /\ role \in {"coordinator", "end"}
  /\ line \in {"clean"} \cup Troubles
  /\ dst = Default
  /\ mode = "single"
  /\ reply = <<>>
  /\ air = {}
  /\ slot = Empty
  /\ std = None
  /\ zgbOwner = None
  /\ hold = 0
  /\ stdOwner = None
  /\ usAddr = None
  /\ online = {}
  /\ place = [t \in Threads |-> IF t = Parser THEN "recv" ELSE "idle"]
  /\ at = [p \in Pollers |-> 1]
  /\ from = [t \in {Parser, Gateway} |-> None]

Goto(t, to) == place' = [place EXCEPT ![t] = to]
NoLonger(t) == from' = [from EXCEPT ![t] = None]

-----------------------------------------------------------------------------
(* Commands.                                                               *)

(* sZigbeeEnterConfigMode, n times over by the thread that has or takes    *)
(* the mutex, and sZigbeeExitConfigMode.                                   *)
EnterConfigMode(t, n) ==
  /\ zgbOwner \in {None, t}
  /\ zgbOwner' = t
  /\ hold' = hold + n
  /\ slot' = Empty

ExitReleasesOnly(n) ==
  /\ zgbOwner' = None
  /\ UNCHANGED hold
ExitConfigMode(n) ==
  /\ hold' = hold - n
  /\ zgbOwner' = IF hold = n THEN None ELSE zgbOwner

(* The module answers what it has done, or that it refuses. *)
Replied(op, ok) ==
  reply' = IF Len(reply) < ReplyMax THEN Append(reply, [op |-> op, ok |-> ok])
           ELSE reply

MayRefuse == line # "settled"

(* The answer, or another one that is thrown away while the wait goes on;  *)
(* but for noise the answer comes within the time.                         *)
OtherAnswer(op) ==
  /\ slot # Empty /\ slot.op # op
  /\ slot' = Empty

Got(op, ok) ==
  /\ slot # Empty /\ slot.op = op /\ slot.ok = ok
  /\ slot' = Empty

NoAnswer ==
  /\ slot = Empty
  /\ line = "noise" \/ reply = <<>>
  /\ UNCHANGED slot

Failed(op) == NoAnswer \/ Got(op, FALSE)
Ended(op) == Failed(op) \/ Got(op, TRUE)

(* In every wait for an answer: the loop of prvRecvTempHeadWithTime and    *)
(* zigbeeRecvHead.                                                         *)
WaitsFor(t) ==
  CASE place[t] = "dst" -> "dst"
    [] place[t] \in {"broad", "single"} -> "mode"
    [] place[t] = "rssi" -> "rssi"
    [] place[t] = "set" -> "set"
    [] OTHER -> None

Discard(t) ==
  /\ WaitsFor(t) # None
  /\ OtherAnswer(WaitsFor(t))
  /\ UNCHANGED <<role, line, moduleVars, air, std, lockVars, usAddr,
                 online, place, at, from>>

(* The command of ucZigbeeSetDstAddr. *)
AskDst(t, n) ==
  /\ EnterConfigMode(t, 1)
  /\ \/ dst' = n /\ Replied("dst", TRUE)
     \/ MayRefuse /\ UNCHANGED dst /\ Replied("dst", FALSE)
  /\ Goto(t, "dst")
  /\ UNCHANGED <<mode, std, stdOwner>>

-----------------------------------------------------------------------------
(* A thread that collects from, or writes to, a slave behind a node:       *)
(* zgb_set_dst_node and the request of libmodbus.                          *)

Target(p) == Chain[at[p]]
Onward(p) == at' = [at EXCEPT ![p] = (at[p] % Len(Chain)) + 1]
NotOnward == UNCHANGED at
AlreadySet(n) == usAddr = n

Lookup(p) ==
  /\ place[p] = "idle"
  /\ stdOwner = None
  /\ \/ Target(p) \notin online /\ Onward(p) /\ UNCHANGED <<place, stdOwner>>
     \/ /\ Target(p) \in online /\ AlreadySet(Target(p))
        /\ Goto(p, "send")
        /\ NotOnward /\ UNCHANGED stdOwner
     \/ /\ Target(p) \in online /\ ~AlreadySet(Target(p))
        /\ stdOwner' = p
        /\ Goto(p, "enter")
        /\ NotOnward
  /\ UNCHANGED <<role, line, moduleVars, air, queueVars, zgbOwner,
                 hold, usAddr, online, from>>

PollerAsks(p) ==
  /\ place[p] = "enter"
  /\ AskDst(p, Target(p))
  /\ UNCHANGED <<role, line, air, usAddr, online, at, from>>

RememberedAlways(n, ok) == usAddr' = n
Remembered(n, ok) == usAddr' = IF ok THEN n ELSE usAddr

(* The end of ucZigbeeSetDstAddr and of zgb_set_dst_node. *)
PollerAnswered(p) ==
  /\ place[p] = "dst"
  /\ \/ /\ Got("dst", TRUE)
        /\ Remembered(Target(p), TRUE)
        /\ Goto(p, "send") /\ NotOnward
     \/ /\ Failed("dst")
        /\ Remembered(Target(p), FALSE)
        /\ Goto(p, "idle") /\ Onward(p)
  /\ ExitConfigMode(1)
  /\ stdOwner' = None
  /\ UNCHANGED <<role, line, moduleVars, air, std, online,
                 from>>

(* The request; what becomes of it is between libmodbus and the slave. *)
HeardBy == Nodes \cap (IF mode = "broad" THEN Nodes ELSE {dst})

SendToNode(p) ==
  /\ place[p] = "send"
  /\ Onward(p)
  /\ Goto(p, "idle")
  /\ UNCHANGED <<role, line, moduleVars, air, queueVars, lockVars,
                 usAddr, online, from>>

PollerNext(p) ==
  Lookup(p) \/ PollerAsks(p) \/ PollerAnswered(p) \/ SendToNode(p)

-----------------------------------------------------------------------------
(* __xfer_rcv_frame: a frame of a gateway port is passed on to a node.  It *)
(* asks for the destination without s_zgb_std_mutex and remembers it after *)
(* s_zgb_mutex was released.                                               *)
GatewayFinds(n) ==
  /\ line = "gateway"
  /\ place[Gateway] = "idle"
  /\ stdOwner = None
  /\ n \in online /\ ~AlreadySet(n)
  /\ from' = [from EXCEPT ![Gateway] = n]
  /\ Goto(Gateway, "enter")
  /\ UNCHANGED <<role, line, moduleVars, air, queueVars, lockVars,
                 usAddr, online, at>>

GatewayAsks ==
  /\ place[Gateway] = "enter"
  /\ AskDst(Gateway, from[Gateway])
  /\ UNCHANGED <<role, line, air, usAddr, online, at, from>>

GatewayAnswered ==
  /\ place[Gateway] = "dst"
  /\ \/ /\ Got("dst", TRUE)
        /\ Goto(Gateway, "remember") /\ UNCHANGED from
     \/ Failed("dst") /\ Goto(Gateway, "idle") /\ NoLonger(Gateway)
  /\ ExitConfigMode(1)
  /\ UNCHANGED <<role, line, moduleVars, air, std, stdOwner, usAddr,
                 online, at>>

GatewayRemembers ==
  /\ place[Gateway] = "remember"
  /\ Remembered(from[Gateway], TRUE)
  /\ NoLonger(Gateway)
  /\ Goto(Gateway, "idle")
  /\ UNCHANGED <<role, line, moduleVars, air, queueVars, lockVars,
                 online, at>>

GatewayNext ==
  (\E n \in Nodes : GatewayFinds(n)) \/ GatewayAsks \/ GatewayAnswered
  \/ GatewayRemembers

-----------------------------------------------------------------------------
ModuleRestarts ==
  /\ dst' = Default
  /\ mode' = "single"

(* setZigbeeCfgWithJson: the module is given the configuration and, once   *)
(* it has taken it, reset.                                                 *)
WebAsks ==
  /\ line = "web"
  /\ place[Web] = "idle"
  /\ EnterConfigMode(Web, 1)
  /\ \E ok \in BOOLEAN : Replied("set", ok)
  /\ Goto(Web, "set")
  /\ UNCHANGED <<role, line, dst, mode, air, std, stdOwner, usAddr,
                 online, at, from>>

WebAnswered ==
  /\ place[Web] = "set"
  /\ \/ Got("set", TRUE) /\ Goto(Web, "reset")
     \/ Failed("set") /\ Goto(Web, "idle")
  /\ ExitConfigMode(1)
  /\ UNCHANGED <<role, line, moduleVars, air, std, stdOwner, usAddr,
                 online, at, from>>

(* vZigbeeReset waits for nothing: it enters, sends and exits. *)
WebResets ==
  /\ place[Web] = "reset"
  /\ zgbOwner = None
  /\ slot' = Empty
  /\ ModuleRestarts
  /\ Goto(Web, "idle")
  /\ UNCHANGED <<role, line, reply, air, std, lockVars, usAddr, online, at,
                 from>>

WebNext == WebAsks \/ WebAnswered \/ WebResets

-----------------------------------------------------------------------------
(* _zgbparse_thread.                                                       *)

(* The head of the loop: a frame, or none for a second.  An end device     *)
(* gets the scans of the coordinator, the coordinator the answers to its.  *)
TakeFrame ==
  /\ place[Parser] = "recv"
  /\ std' = None
  /\ from' = [from EXCEPT ![Parser] = IF role = "end" THEN None ELSE std]
  /\ Goto(Parser, CASE std = None -> "after"
                    [] std # None /\ role = "end" -> "answer"
                    [] OTHER -> "store")
  /\ UNCHANGED <<role, line, moduleVars, air, slot, lockVars, usAddr,
                 online, at>>

(* zgb_std_parse_buffer and zgb_mnode_insert. *)
Inserted(n) == online' = online \cup {n}

Store ==
  /\ place[Parser] = "store"
  /\ stdOwner = None
  /\ Inserted(from[Parser])
  /\ NoLonger(Parser)
  /\ Goto(Parser, "after")
  /\ UNCHANGED <<role, line, moduleVars, air, queueVars, lockVars,
                 usAddr, at>>

(* eZigbeeSendStdLstRsp keeps s_zgb_mutex while it asks for the signal,    *)
(* answers the scan and enters the coordinator, which has no slave, into   *)
(* the list.                                                               *)
AskSignal ==
  /\ place[Parser] = "answer"
  /\ EnterConfigMode(Parser, 2)
  /\ Replied("rssi", TRUE)
  /\ Goto(Parser, "rssi")
  /\ UNCHANGED <<role, line, dst, mode, air, std, stdOwner, usAddr,
                 online, at, from>>

AnswerScan ==
  /\ place[Parser] = "rssi"
  /\ Ended("rssi")
  /\ ExitConfigMode(1)
  /\ Goto(Parser, "master")
  /\ UNCHANGED <<role, line, moduleVars, air, std, stdOwner, usAddr,
                 online, at, from>>

MasterInsertedWithSlaves == \E n \in Nodes : Inserted(n)
MasterInserted == Inserted(Master)

StoreMaster ==
  /\ place[Parser] = "master"
  /\ stdOwner = None
  /\ MasterInserted
  /\ ExitConfigMode(1)
  /\ Goto(Parser, "after")
  /\ UNCHANGED <<role, line, moduleVars, air, queueVars, stdOwner,
                 usAddr, at, from>>

(* A learning step: under s_zgb_mutex the module is told to broadcast, the *)
(* scan is sent, and the module is told to send to one node again.  No     *)
(* other thread acts between the last two.                                 *)
ScanModeSingle == "single"
ScanMode == "broad"

Learn ==
  /\ place[Parser] = "after" /\ role = "coordinator"
  /\ line = "settled" => air = {}
  /\ EnterConfigMode(Parser, 2)
  /\ mode' = ScanMode
  /\ Replied("mode", TRUE)
  /\ Goto(Parser, "broad")
  /\ UNCHANGED <<role, line, dst, air, std, stdOwner, usAddr, online,
                 at, from>>

Scan ==
  /\ place[Parser] = "broad"
  /\ Ended("mode")
  /\ \E answering \in SUBSET HeardBy :
       /\ line = "settled" => answering = HeardBy
       /\ air' = air \cup answering
  /\ mode' = "single"
  /\ Replied("mode", TRUE)
  /\ Goto(Parser, "single")
  /\ UNCHANGED <<role, line, dst, std, lockVars, usAddr, online, at,
                 from>>

Learnt ==
  /\ place[Parser] = "single"
  /\ Ended("mode")
  /\ ExitConfigMode(2)
  /\ Goto(Parser, "check")
  /\ UNCHANGED <<role, line, moduleVars, air, std, stdOwner, usAddr,
                 online, at, from>>

(* zgb_check_online: a node not heard of for four learning steps goes      *)
(* offline, or sooner when the clock is set, and leaves the list later,    *)
(* which nothing here can tell.  On a settled line every node is heard of  *)
(* in time.                                                                *)
CheckOnline ==
  /\ place[Parser] \in {"after", "check"}
  /\ stdOwner = None
  /\ online' \in IF line = "settled" THEN {online} ELSE SUBSET online
  /\ Goto(Parser, "recv")
  /\ UNCHANGED <<role, line, moduleVars, air, queueVars, lockVars,
                 usAddr, at, from>>

ParserNext ==
  TakeFrame \/ Store \/ AskSignal \/ AnswerScan \/ StoreMaster \/ Learn
  \/ Scan \/ Learnt \/ CheckOnline

-----------------------------------------------------------------------------
(* _zgbworker_thread and __zgb_recv_buffer: what the port brings goes to   *)
(* the one or the other queue, or is lost when that is full.  An answer    *)
(* that comes when no command is in progress is thrown away.               *)
RouteAnswer ==
  /\ reply # <<>>
  /\ reply' = Tail(reply)
  /\ slot' = IF InCmd /\ slot = Empty THEN Head(reply) ELSE slot
  /\ UNCHANGED <<role, line, dst, mode, air, std, lockVars, usAddr,
                 online, place, at, from>>

RouteScan(n) ==
  /\ n \in air
  /\ line = "settled" => std = None
  /\ air' = air \ {n}
  /\ std' = IF std = None THEN n ELSE std
  /\ UNCHANGED <<role, line, moduleVars, slot, lockVars, usAddr,
                 online, place, at, from>>

(* Frames with less than two milliseconds between them are one buffer, of  *)
(* which only the first frame is looked at: here an answer of the module   *)
(* behind a scan frame.  A scan frame behind another frame is lost, as in  *)
(* RouteScan with a full queue.                                            *)
RouteMerged(n) ==
  /\ line = "noise"
  /\ n \in air /\ reply # <<>>
  /\ air' = air \ {n}
  /\ reply' = Tail(reply)
  /\ std' = IF std = None THEN n ELSE std
  /\ UNCHANGED <<role, line, dst, mode, slot, lockVars, usAddr,
                 online, place, at, from>>

RouteNext == RouteAnswer \/ \E n \in Listed : RouteScan(n) \/ RouteMerged(n)

-----------------------------------------------------------------------------
(* Time and the surroundings.                                              *)

NothingElse ==
  UNCHANGED <<role, moduleVars, queueVars, lockVars, usAddr, place,
              at, from>>

ScanHeard ==
  /\ role = "end"
  /\ air' = {Master}
  /\ UNCHANGED <<line, online>> /\ NothingElse

Settle ==
  /\ line \in Troubles
  /\ line' = "settled"
  /\ UNCHANGED <<air, online>> /\ NothingElse

EnvironmentNext ==
  \/ ScanHeard \/ Settle

RadioNext ==
  \/ \E p \in Pollers : PollerNext(p)
  \/ GatewayNext \/ WebNext \/ ParserNext
  \/ \E t \in Threads : Discard(t)
  \/ RouteNext \/ EnvironmentNext
RadioSpec == RadioInit /\ [][RadioNext]_radioVars

(* Threads run, and one that waits for a mutex gets it: the others wait    *)
(* for answers or sleep between their critical sections.  Time passes and  *)
(* brings learning steps.  Nothing is asked of the gateway and of the web  *)
(* interface but to end a command they have begun.                         *)
RadioFairness ==
  /\ \A p \in Pollers : SF_radioVars(PollerNext(p))
  /\ SF_radioVars(ParserNext) /\ SF_radioVars(Learn)
  /\ WF_radioVars(GatewayAnswered) /\ WF_radioVars(WebAnswered)
  /\ WF_radioVars(\E t \in Threads : Discard(t))
  /\ WF_radioVars(RouteAnswer) /\ WF_radioVars(\E n \in Nodes : RouteScan(n))
FairRadioSpec == RadioSpec /\ RadioFairness

-----------------------------------------------------------------------------
TypeOK ==
  /\ role \in {"coordinator", "end"}
  /\ line \in {"clean", "settled"} \cup Troubles
  /\ dst \in Nodes \cup {Default} /\ mode \in {"single", "broad"}
  /\ reply \in Seq(Answers) /\ Len(reply) <= ReplyMax
  /\ air \subseteq Listed /\ std \in Listed \cup {None}
  /\ slot \in Answers \cup {Empty}
  /\ zgbOwner \in Threads \cup {None} /\ hold \in 0 .. 2
  /\ stdOwner \in Pollers \cup {None}
  /\ usAddr \in Nodes \cup {None}
  /\ online \subseteq Listed
  /\ at \in [Pollers -> 1 .. Len(Chain)]

(* In the absence of trouble, when zgb_set_dst_node returns success the    *)
(* destination of the module is the node asked for, by a command or since  *)
(* the last one, although the module may refuse commands and the other     *)
(* threads send theirs in between.                                         *)
DestinationSet ==
  [][\A p \in Pollers :
       line = "clean" /\ place[p] # "send" /\ place'[p] = "send"
         => dst' = Target(p)]_radioVars

(* A thread that turns to a node comes to the end of it: it gets both      *)
(* mutexes, which it takes in the order opposite to that of a scan being   *)
(* answered, and every wait for an answer ends.                            *)
PollEnds == \A p \in Pollers : place[p] # "idle" ~> place[p] = "idle"

(* After any trouble the requests for a slave reach its node again, and    *)
(* again and again: the node is listed, set as destination and sent to,    *)
(* whatever destination was remembered wrongly.                            *)
Reaches(p, n) == SendToNode(p) /\ Target(p) = n /\ n \in HeardBy
SlavesReached ==
  role = "coordinator" /\ <>[](line = "settled")
    => \A n \in Nodes : []<><<\E p \in Pollers : Reaches(p, n)>>_radioVars
=============================================================================
