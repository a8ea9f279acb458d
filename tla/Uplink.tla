------------------------------- MODULE Uplink -------------------------------
(***************************************************************************)
(* A session with a server in the cloud: the network thread of NetHelper,  *)
(* the parser it calls with what it reads, the queue behind it and the     *)
(* work task of one of the three protocols, sdccp/cc_bjdc.c,               *)
(* sdccp/hjt212.c and sdccp/dm101/dm101.c, together with the server and a  *)
(* connection that may fail at any time.  "xfer" is a port of transparent  *)
(* transfer, which has no session and may have any role.                   *)
(*                                                                         *)
(* A message is a kind.  "seq" the sequence a verification is answered     *)
(* with, "pass" and "fail" its result, "ok" the answer to anything else,   *)
(* "other" what the server sends of its own accord, "restart" its command. *)
(* What a report holds is the matter of module Report.                     *)
(***************************************************************************)
EXTENDS NetHelper, Sequences

CONSTANTS Setups,        \* the configurations: protocol, role and options
          QueueLen,      \* messages s_CCDataQueue or frames the FIFO holds
          WireLen,       \* bound: messages on their way to the device
          MissLimit,     \* heartbeats without an answer before hanging up
          InitPackets    \* packets DM101 begins with

ASSUME SetupsAssumption ==
  /\ Setups \subseteq [proto : {"bjdc", "hjt212", "dm101", "xfer"},
                       role : Roles, opts : SUBSET {"ini", "verify", "heart"}]
  /\ \A s \in Setups : s.proto # "xfer" => s.role = "tcp_client"
ASSUME BoundsAssumption ==
  /\ QueueLen \in Nat \ {0}
  /\ WireLen \in Nat \ {0}
  /\ MissLimit \in Nat \ {0}
  /\ InitPackets \in Nat

VARIABLES proto, opts,   \* the configuration of the port
          task,          \* where the work task is, "none" without one
          flag,          \* s_cc_reinit_flag
          queue,         \* s_CCDataQueue, for DM101 the frames in the FIFO
          misses,        \* login_err_count; for DM101 heartbeats since data
          init,          \* eInitStatus of DM101
          due,           \* the time of the next heartbeat has come
          torn,          \* the parser holds a part of a frame
          attempt,       \* connecting ended since the wait of the task began
          mood,          \* how the server behaves
          srv,           \* what it knows of the device on this connection
          wire,          \* what it sent that is not read yet
          oldPass        \* history, no part of the code: see PassIsOld

cfgVars == <<proto, opts>>
asideVars == <<cfgVars, oldPass>>
serverVars == <<mood, srv, wire>>
taskVars == <<task, flag, queue, misses, init, due, torn, attempt>>
vars == <<netVars, asideVars, taskVars, serverVars>>

Kinds == {"seq", "pass", "fail", "ok", "other", "restart"}
(* "start": the label _START; "recv...": in rt_mq_recv for an answer;      *)
(* "passed": verified, the flag not cleared yet; "top": the head of the    *)
(* session's loop; "poll": in its receive; "act": heartbeat and reports;   *)
(* "hanging": in net_disconnect; "delay": the five seconds after it.       *)
Session == {"top", "poll", "act", "recvBeat"}
Places == Session \cup {"none", "start", "recvSeq", "recvResult", "passed",
                        "login", "recvLogin", "hanging", "delay"}

TypeOK ==
  /\ NetTypeOK
  /\ [proto |-> proto, role |-> role, opts |-> opts] \in Setups
  /\ task \in Places
  /\ flag \in BOOLEAN
  /\ queue \in Seq(Kinds) /\ Len(queue) <= QueueLen
  /\ misses \in 0 .. MissLimit
  /\ init \in 0 .. InitPackets
  /\ due \in BOOLEAN
  /\ torn \in BOOLEAN
  /\ attempt \in BOOLEAN
  /\ mood \in {"normal", "calm", "silent"}
  /\ srv \in {"none", "asked", "verified"}
  /\ wire \in Seq(Kinds) /\ Len(wire) <= WireLen
  /\ oldPass \in BOOLEAN

Init ==
  /\ NetInit
  /\ \E s \in Setups : proto = s.proto /\ role = s.role /\ opts = s.opts
  /\ task = "none"
  /\ flag = FALSE
  /\ queue = <<>>
  /\ misses = 0
  /\ init = 0
  /\ due = FALSE
  /\ torn = FALSE
  /\ attempt = FALSE
  /\ mood = "normal"
  /\ srv = "none"
  /\ wire = <<>>
  /\ oldPass = FALSE

-----------------------------------------------------------------------------
(* The network thread with its part of the session.                        *)

(* The pause of two seconds is longer than the tenth of a second after     *)
(* which net_disconnect looks again, unless the threads are held up.       *)
Paused == mood = "normal" \/ task # "hanging"
NetBegin == Paused /\ Begin /\ UNCHANGED <<asideVars, taskVars, serverVars>>
NetSocket == OpenSocket /\ UNCHANGED <<asideVars, taskVars, serverVars>>
NetListen == Listen /\ UNCHANGED <<asideVars, taskVars, serverVars>>
NetAccept == Accept /\ UNCHANGED <<asideVars, taskVars, serverVars>>
NetClose == CloseAll /\ UNCHANGED <<asideVars, taskVars, serverVars>>

(* ..._startwork creates the work task unless it is there already. *)
StartWork == task' = IF task = "none" /\ proto # "xfer" THEN "start" ELSE task

NetEstablish ==
  /\ Establish
  /\ StartWork
  /\ attempt' = TRUE
  /\ srv' = "none"
  /\ wire' = <<>>
  /\ UNCHANGED <<asideVars, flag, queue, misses, init, due, torn, mood>>

(* ..._exitwork, at __END before anything is closed: the work task is only *)
(* told, and goes on until it looks at the flag.                           *)
ExitWorkForgotten == flag' = flag
ExitWork == flag' = (proto # "xfer" \/ flag)

NetFails ==
  /\ mood = "normal"
  /\ AttemptFails
  /\ ExitWork
  /\ attempt' = TRUE
  /\ UNCHANGED <<asideVars, task, queue, misses, init, due, torn, serverVars>>

(* History: TRUE when the verification that BJDC is in or has passed may   *)
(* rest on a "pass" that is not an answer to it or whose connection is     *)
(* gone.  There was one before it asked, in the queue (cc_bjdc.c:84),      *)
(* which nothing empties, or on its way; or the connection ended with one  *)
(* in the queue, or before the flag had been cleared for it (377).         *)
Pending(m) == \E i \in DOMAIN (queue \o wire) : (queue \o wire)[i] = m
PassIsOld ==
  oldPass' = \/ oldPass
             \/ task = "passed"
             \/ task = "recvResult" /\ Pending("pass")

(* The peer closes or the line breaks, whatever is unread.  What is on its *)
(* way is lost, and may leave the first part of a frame in the parser;     *)
(* what is in the queue stays there.                                       *)
NetLoss ==
  /\ mood = "normal"
  /\ PeerGone
  /\ ExitWork
  /\ wire' = <<>>
  /\ torn' \in IF wire = <<>> THEN {torn} ELSE BOOLEAN
  /\ PassIsOld
  /\ UNCHANGED <<cfgVars, task, queue, misses, init, due, attempt, mood, srv>>

NetIdle ==
  /\ wire = <<>>
  /\ IdleEnd
  /\ ExitWork
  /\ PassIsOld
  /\ UNCHANGED <<cfgVars, task, queue, misses, init, due, torn, attempt,
                 serverVars>>

(* ..._PutBytes.  The parser loses the frame that follows a torn one.  A   *)
(* full queue drops the message; the FIFO of DM101 makes the thread wait.  *)
RefusedWhenTorn == torn
Refused == torn \/ Len(queue) = QueueLen

PutBytes ==
  /\ npc = "run"
  /\ wire # <<>>
  /\ proto = "dm101" => Len(queue) < QueueLen
  /\ wire' = Tail(wire)
  /\ queue' = IF Refused THEN queue ELSE Append(queue, Head(wire))
  /\ torn' = FALSE
  /\ due' = (due /\ proto = "bjdc")
  /\ misses' = IF proto = "dm101" THEN 0 ELSE misses
  /\ UNCHANGED <<netVars, asideVars, task, flag, init, attempt, mood, srv>>

-----------------------------------------------------------------------------
(* The server.  It answers what reaches it at once or not at all: how long *)
(* an answer takes is how long it stays in wire.                           *)

Nothing == "nothing"
ProperAnswer(req) ==
  CASE req = "verify" -> <<"seq", "asked">>
    [] req = "md5" -> IF srv = "asked" THEN <<"pass", "verified">>
                      ELSE <<"fail", srv>>
    [] req = "devinfo" -> <<"other", srv>>
    [] OTHER -> <<"ok", srv>>
Answers(req) ==
  CASE mood = "calm" -> {ProperAnswer(req)}
    [] mood = "silent" -> {<<Nothing, srv>>}
    [] OTHER -> {ProperAnswer(req), <<Nothing, srv>>}
                  \cup (IF req = "md5" THEN {<<"fail", "none">>} ELSE {})

(* cc_net_send: without a connection, or on one at its end, it is lost. *)
Send(req) ==
  IF Connected /\ npc = "run"
  THEN \E a \in Answers(req) :
         /\ srv' = a[2]
         /\ wire' = IF a[1] = Nothing \/ Len(wire) = WireLen THEN wire
                    ELSE Append(wire, a[1])
         /\ UNCHANGED mood
  ELSE UNCHANGED serverVars

(* Commands and queries: of BJDC only to a device that it has let in. *)
Unasked ==
  /\ mood = "normal"
  /\ proto # "xfer" /\ (proto = "bjdc" => srv = "verified")
  /\ Connected /\ npc = "run"
  /\ Len(wire) < WireLen
  /\ \E m \in {"other"} \cup (IF proto = "bjdc" THEN {"restart"} ELSE {}) :
       wire' = Append(wire, m)
  /\ UNCHANGED <<netVars, asideVars, taskVars, mood, srv>>

(* At some time the server and the line are in order for good: no failure, *)
(* every answer within the wait for it, and connecting within the delays.  *)
(* Or the server accepts connections and never says anything again.        *)
SettleDown ==
  /\ mood = "normal"
  /\ proto # "xfer" /\ (proto = "bjdc" => "ini" \in opts)
  /\ mood' \in {"calm", "silent"}
  /\ UNCHANGED <<netVars, asideVars, taskVars, srv, wire>>

-----------------------------------------------------------------------------
(* The work task.                                                          *)

Took(m) == queue # <<>> /\ Head(queue) = m
TookOther(ms) == queue # <<>> /\ Head(queue) \notin ms
DropHead == queue' = Tail(queue)

(* The waits for an answer and the delay after hanging up, five seconds    *)
(* and more, end whatever is on its way or being done about the connection *)
(* by then, unless server and line are in order.                           *)
Settled == mood = "calm" => npc = "run" \/ attempt
TimedOut == queue = <<>> /\ Settled /\ (mood = "calm" => wire = <<>>)

WaitAt(place) == task' = place /\ attempt' = FALSE
GoTo(place) == task' = place /\ attempt' = attempt

(* net_disconnect returns at once without a connection; DM101 then goes on *)
(* in its loop, the others wait another five seconds before _START.        *)
AfterHangUp == IF proto = "dm101" THEN GoTo("top") ELSE WaitAt("delay")
HangUp == AskDisconnect
          /\ IF Connected THEN GoTo("hanging") ELSE AfterHangUp

(* BJDC does not wait for the connection; without its file it ends. *)
BjdcVerify ==
  /\ proto = "bjdc" /\ task = "start"
  /\ IF "ini" \in opts THEN WaitAt("recvSeq") /\ Send("verify")
     ELSE GoTo("none") /\ UNCHANGED serverVars
  /\ oldPass' = Pending("pass")
  /\ UNCHANGED <<netVars, cfgVars, flag, queue, misses, init, due, torn>>

(* The sequence is answered with its MD5; anything else begins again. *)
BjdcSequence ==
  /\ task = "recvSeq"
  /\ \/ Took("seq") /\ WaitAt("recvResult") /\ Send("md5")
     \/ TookOther({"seq"}) /\ GoTo("start") /\ UNCHANGED serverVars
  /\ DropHead
  /\ UNCHANGED <<netVars, asideVars, flag, misses, init, due, torn>>

BjdcNoSequence ==
  /\ task = "recvSeq"
  /\ TimedOut
  /\ HangUp
  /\ UNCHANGED <<asideVars, flag, queue, misses, init, due, torn, serverVars>>

BjdcResult ==
  /\ task = "recvResult"
  /\ \/ Took("pass") /\ GoTo("passed") /\ UNCHANGED netVars
     \/ Took("fail") /\ HangUp
     \/ TookOther({"pass", "fail"}) /\ GoTo("start") /\ UNCHANGED netVars
  /\ DropHead
  /\ UNCHANGED <<asideVars, flag, misses, init, due, torn, serverVars>>

BjdcNoResult ==
  /\ task = "recvResult"
  /\ TimedOut
  /\ GoTo("start")
  /\ UNCHANGED <<netVars, asideVars, flag, queue, misses, init, due, torn,
                 serverVars>>

(* The flag is cleared whatever happened since the answer came. *)
BjdcPassed ==
  /\ task = "passed"
  /\ flag' = FALSE
  /\ due' = FALSE
  /\ GoTo("top")
  /\ Send("devinfo")
  /\ UNCHANGED <<netVars, asideVars, queue, misses, init, torn>>

(* HJT212 logs in on a connection, twice when it waits for the answer. *)
HjtLogin ==
  /\ proto = "hjt212" /\ task = "start"
  /\ Connected
  /\ IF "verify" \in opts THEN GoTo("login") /\ UNCHANGED <<flag, due>>
     ELSE GoTo("top") /\ flag' = FALSE /\ due' = FALSE
  /\ Send("login")
  /\ UNCHANGED <<netVars, asideVars, queue, misses, init, torn>>

HjtLoginAgain ==
  /\ task = "login"
  /\ WaitAt("recvLogin")
  /\ Send("login")
  /\ UNCHANGED <<netVars, asideVars, flag, queue, misses, init, due, torn>>

(* Any message is taken for the answer. *)
HjtLoggedIn ==
  /\ task = "recvLogin"
  /\ queue # <<>>
  /\ DropHead
  /\ GoTo("top")
  /\ flag' = FALSE
  /\ due' = FALSE
  /\ UNCHANGED <<netVars, asideVars, misses, init, torn, serverVars>>

HjtNoLogin ==
  /\ task = "recvLogin"
  /\ TimedOut
  /\ HangUp
  /\ UNCHANGED <<asideVars, flag, queue, misses, init, due, torn, serverVars>>

(* DM101 sends one of its first packets in each round, never again later. *)
DmStart ==
  /\ proto = "dm101" /\ task = "start"
  /\ Connected
  /\ IF init < InitPackets THEN init' = init + 1 /\ Send("init")
     ELSE UNCHANGED <<init, serverVars>>
  /\ flag' = FALSE
  /\ misses' = 0
  /\ due' = FALSE
  /\ GoTo("top")
  /\ UNCHANGED <<netVars, asideVars, queue, torn>>

-----------------------------------------------------------------------------
(* The loop of the session.                                                *)

(* The head of the loop: the flag, the connection where it is waited for,  *)
(* and the averages; DM101 takes one frame and goes on beginning.          *)
Ended == flag \/ (proto = "dm101" /\ ~Connected)

LeaveSession ==
  /\ task = "top"
  /\ Ended
  /\ GoTo("start")
  /\ UNCHANGED <<netVars, asideVars, flag, queue, misses, init, due, torn,
                 serverVars>>

StaySession ==
  /\ task = "top"
  /\ ~Ended
  /\ \/ proto = "bjdc" /\ GoTo("poll") /\ UNCHANGED queue
     \/ proto = "hjt212" /\ Connected /\ GoTo("poll") /\ UNCHANGED queue
     \/ /\ proto = "dm101"
        /\ GoTo(IF init < InitPackets THEN "start" ELSE "act")
        /\ IF queue = <<>> THEN UNCHANGED queue ELSE DropHead
  /\ UNCHANGED <<netVars, asideVars, flag, misses, init, due, torn, serverVars>>

(* The short receive: an answer to a heartbeat sets BJDC's clock, commands *)
(* and queries are carried out on the spot.                                *)
Poll ==
  /\ task = "poll"
  /\ GoTo("act")
  /\ \/ queue = <<>> /\ UNCHANGED <<queue, due>>
     \/ /\ queue # <<>>
        /\ ~Took("restart")
        /\ DropHead
        /\ due' = (due /\ ~(proto = "bjdc" /\ Took("ok")))
  /\ UNCHANGED <<netVars, asideVars, flag, misses, init, torn, serverVars>>

(* vDoSystemReset. *)
Restart ==
  /\ task = "poll"
  /\ Took("restart")
  /\ npc' = "pause" /\ sockFd' = NoFd /\ tcpFd' = NoFd
  /\ disconnect' = FALSE /\ opened' = {}
  /\ task' = "none" /\ flag' = FALSE /\ queue' = <<>> /\ misses' = 0
  /\ init' = 0 /\ due' = FALSE /\ torn' = FALSE /\ attempt' = FALSE
  /\ srv' = "none" /\ wire' = <<>>
  /\ UNCHANGED <<role, asideVars, mood>>

(* The heartbeat, when it is due, then the reports.  BJDC repeats it until *)
(* it is answered, HJT212 waits for the answer, DM101 counts and hangs up. *)
GivesUpNever == FALSE
GivesUp == misses = MissLimit

Act ==
  /\ task = "act"
  /\ \/ ~due /\ GoTo("top") /\ UNCHANGED <<netVars, misses, due, serverVars>>
     \/ /\ due /\ proto = "bjdc"
        /\ GoTo("top") /\ Send("heartbeat")
        /\ UNCHANGED <<netVars, misses, due>>
     \/ /\ due /\ proto = "hjt212"
        /\ WaitAt("recvBeat") /\ Send("login") /\ due' = FALSE
        /\ UNCHANGED <<netVars, misses>>
     \/ /\ due /\ proto = "dm101" /\ ~GivesUp
        /\ GoTo("top") /\ Send("heartbeat") /\ due' = FALSE
        /\ misses' = IF misses = MissLimit THEN misses ELSE misses + 1
        /\ UNCHANGED netVars
     \/ /\ due /\ proto = "dm101" /\ GivesUp
        /\ HangUp
        /\ UNCHANGED <<misses, due, serverVars>>
  /\ UNCHANGED <<asideVars, flag, queue, init, torn>>

(* HJT212 in the receive of twenty seconds after its heartbeat.  The count *)
(* of misses is not cleared by hanging up, only by an answer.              *)
BeatAnswered ==
  /\ task = "recvBeat"
  /\ queue # <<>>
  /\ DropHead
  /\ misses' = 0
  /\ GoTo("top")
  /\ UNCHANGED <<netVars, asideVars, flag, init, due, torn, serverVars>>

BeatMissed ==
  /\ task = "recvBeat"
  /\ TimedOut
  /\ misses' = IF misses = MissLimit THEN misses ELSE misses + 1
  /\ IF misses + 1 >= MissLimit THEN HangUp
     ELSE GoTo("top") /\ UNCHANGED netVars
  /\ UNCHANGED <<asideVars, flag, queue, init, due, torn, serverVars>>

(* It returns otherwise when the connection is closed, which it looks for  *)
(* every tenth of a second, or after five seconds with a peer that went on *)
(* sending or a connection made meanwhile.                                 *)
HungUp ==
  /\ task = "hanging"
  /\ ~Connected \/ mood = "normal" \/ wire # <<>> \/ ~disconnect
  /\ AfterHangUp
  /\ UNCHANGED <<netVars, asideVars, flag, queue, misses, init, due, torn,
                 serverVars>>

DelayOver ==
  /\ task = "delay"
  /\ Settled
  /\ GoTo("start")
  /\ UNCHANGED <<netVars, asideVars, flag, queue, misses, init, due, torn,
                 serverVars>>

(* The time of a heartbeat comes: 20 s, enable_heart or 30 s after what it *)
(* is counted from, for DM101 the fourth time for the 110 s.  By then the  *)
(* network thread has done what it was asked for, unless the line is bad.  *)
Tick ==
  /\ task \in {"top", "poll", "act"}
  /\ proto = "hjt212" => "heart" \in opts
  /\ mood = "normal" \/ (npc = "run" /\ ~disconnect)
  /\ ~due
  /\ wire = <<>> /\ queue = <<>>
  /\ due' = TRUE
  /\ UNCHANGED <<netVars, asideVars, task, flag, queue, misses, init, torn,
                 attempt, serverVars>>

NetNext ==
  \/ NetBegin \/ NetSocket \/ NetFails \/ NetEstablish \/ NetListen
  \/ NetAccept \/ NetLoss \/ NetIdle \/ NetClose \/ PutBytes
ServerNext == Unasked \/ SettleDown
TaskProgress ==
  \/ BjdcVerify \/ BjdcSequence \/ BjdcNoSequence \/ BjdcResult
  \/ BjdcNoResult \/ BjdcPassed
  \/ HjtLogin \/ HjtLoginAgain \/ HjtLoggedIn \/ HjtNoLogin
  \/ DmStart
  \/ LeaveSession \/ StaySession \/ Poll \/ Restart \/ Act
  \/ BeatAnswered \/ BeatMissed \/ HungUp \/ DelayOver

Next == NetNext \/ ServerNext \/ TaskProgress \/ Tick
Spec == Init /\ [][Next]_vars

(* The network thread and the work task go on, bytes are read and time     *)
(* passes.  The select of four seconds comes to an idle end again and      *)
(* again: strong, because what is read in between puts it off.             *)
NetProgress == NetBegin \/ NetSocket \/ NetEstablish \/ NetListen \/ NetClose
               \/ PutBytes
Fairness == /\ WF_vars(NetProgress)
            /\ WF_vars(TaskProgress)
            /\ WF_vars(Tick)
            /\ SF_vars(NetIdle)
FairSpec == Spec /\ Fairness

-----------------------------------------------------------------------------
(* With the flag down and a connection, BJDC reports to a server that has  *)
(* not verified the device on this connection in two cases only, those of  *)
(* oldPass: a connection that ends after its "pass" came and before the    *)
(* flag is cleared for it (cc_bjdc.c:352-377), and a "pass" that an older  *)
(* request or connection has left.  However a connection ends otherwise,   *)
(* in the middle of the verification or of the session, and whatever else  *)
(* it leaves behind, the work task comes to the verification again first.  *)
ReportsAreVerified ==
  proto = "bjdc" /\ task \in Session /\ ~flag /\ Connected /\ ~oldPass
    => srv = "verified"

(* A connection to a server that has fallen silent is left in the end: by  *)
(* HJT212 where heartbeats are on, and by DM101.  The heartbeat counts,    *)
(* the request and the idle select must work together.                     *)
Leaves == proto = "dm101" \/ (proto = "hjt212" /\ "heart" \in opts)
SilentServerIsLeft ==
  mood = "silent" /\ Leaves /\ Connected ~> ~Connected

(* With a server and a line in order the device comes into the session and *)
(* stays there: no hang-up in flight, torn frame or old count keeps it out *)
(* for ever.  Of HJT212 and DM101 that holds whatever went on before.  Of  *)
(* BJDC it holds from a verification that it begins with nothing unread    *)
(* and no hang-up in flight: an answer that is left in its queue keeps it  *)
(* one answer behind (cc_bjdc.c:320-376), and nothing ever takes it out.   *)
InSession ==
  /\ Connected /\ npc = "run" /\ ~disconnect
  /\ task \in Session
  /\ proto = "bjdc" => srv = "verified"
BeginsAfresh ==
  mood = "calm" /\ task = "start" /\ queue = <<>> /\ wire = <<>> /\ ~disconnect
SessionComesUp ==
  <>[](mood = "calm") /\ (proto = "bjdc" => <>BeginsAfresh) => <>[]InSession
=============================================================================
