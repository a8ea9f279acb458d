---------------------------- MODULE UplinkProofs ----------------------------
(***************************************************************************)
(* Proofs about NetHelper and Uplink for any number of descriptors, all    *)
(* configurations, and queues, heartbeat counts and bursts of any size.    *)
(***************************************************************************)
EXTENDS Uplink, TLAPS

USE FdsAssumption, RolesAssumption, SetupsAssumption, BoundsAssumption

-----------------------------------------------------------------------------
(***************************************************************************)
(* The descriptors.  Whatever the protocol does, of the network thread it  *)
(* sees one of the steps of NetHelper, a request to disconnect, a restart  *)
(* of the device, or nothing.                                              *)
(***************************************************************************)
NetRestart ==
  /\ npc' = "pause" /\ sockFd' = NoFd /\ tcpFd' = NoFd
  /\ disconnect' = FALSE /\ opened' = {}
  /\ UNCHANGED role

NetStep ==
  \/ Begin \/ OpenSocket \/ AttemptFails \/ Establish \/ Listen \/ Accept
  \/ PeerGone \/ IdleEnd \/ CloseAll \/ AskDisconnect \/ NetRestart
  \/ UNCHANGED netVars

\* Every step of a session is one of those.
LEMMA StepsOfNet == [Next]_vars => NetStep
<1> USE DEF NetStep
<1>1. HangUp => NetStep
  BY DEF HangUp
<1>2. NetNext => NetStep
  BY DEF NetNext, NetBegin, NetSocket, NetFails, NetEstablish, NetListen,
         NetAccept, NetLoss, NetIdle, NetClose, PutBytes
<1>3. ServerNext => NetStep
  BY DEF ServerNext, Unasked, SettleDown
<1>4. BjdcVerify \/ BjdcSequence \/ BjdcNoSequence \/ BjdcResult
      \/ BjdcNoResult \/ BjdcPassed => NetStep
  BY <1>1 DEF BjdcVerify, BjdcSequence, BjdcNoSequence, BjdcResult,
              BjdcNoResult, BjdcPassed
<1>5. HjtLogin \/ HjtLoginAgain \/ HjtLoggedIn \/ HjtNoLogin \/ DmStart
        => NetStep
  BY <1>1 DEF HjtLogin, HjtLoginAgain, HjtLoggedIn, HjtNoLogin, DmStart
<1>6. LeaveSession \/ StaySession \/ Poll \/ Act => NetStep
  BY <1>1 DEF LeaveSession, StaySession, Poll, Act
<1>7. Restart => NetStep
  BY DEF Restart, NetRestart
<1>8. BeatAnswered \/ BeatMissed \/ HungUp \/ DelayOver \/ Tick => NetStep
  BY <1>1 DEF BeatAnswered, BeatMissed, HungUp, DelayOver, Tick
<1>9. UNCHANGED vars => NetStep
  BY DEF vars
<1>10. QED
  BY <1>2, <1>3, <1>4, <1>5, <1>6, <1>7, <1>8, <1>9 DEF Next, TaskProgress

\* Where the thread stands says which descriptors it can have.
NetPhases ==
  /\ npc \in {"pause", "resolve"} => sockFd = NoFd /\ tcpFd = NoFd
  /\ npc = "connecting" => tcpFd = NoFd

NetInv == NetTypeOK /\ NetPhases /\ NoFdLost

LEMMA InitNet == NetInit => NetInv
BY DEF NetInit, NetInv, NetTypeOK, NetPhases, NoFdLost, NetPlaces

LEMMA NextNet == NetInv /\ NetStep => NetInv'
<1> SUFFICES ASSUME NetInv, NetStep PROVE NetInv'
  OBVIOUS
<1> USE DEF NetInv, NetTypeOK, NetPhases, NoFdLost, NetPlaces
<1>0. NoFd \notin Fds
  BY DEF NoFd
<1>1. CASE Begin
  BY <1>1 DEF Begin, RequestDropped
<1>2. CASE OpenSocket
  BY <1>0, <1>2 DEF OpenSocket, Free
<1>3. CASE AttemptFails \/ Listen \/ PeerGone \/ IdleEnd
  BY <1>3 DEF AttemptFails, Listen, PeerGone, IdleEnd
<1>4. CASE Establish
  BY <1>4 DEF Establish, Handed
<1>5. CASE Accept
  <2>1. PICK fd \in Free : TakePeer(fd)
    BY <1>5 DEF Accept
  <2>2. UNCHANGED <<role, npc, sockFd, disconnect>> /\ npc = "run"
    BY <1>5 DEF Accept
  <2>3. CASE Connected
    BY <2>1, <2>2, <2>3 DEF TakePeer
  <2>4. CASE ~Connected
    <3>1. tcpFd' = fd /\ opened' = opened \cup {fd} /\ fd \in Fds
      BY <2>1, <2>4 DEF TakePeer, Free
    <3>2. fd # NoFd /\ fd \notin opened /\ fd # sockFd
      BY <1>0, <2>1, <3>1 DEF Free
    <3>3. opened' = {sockFd, fd} \ {NoFd}
      BY <2>4, <3>1, <3>2 DEF Connected
    <3>4. QED
      BY <2>2, <3>1, <3>2, <3>3
  <2>5. QED
    BY <2>3, <2>4
<1>6. CASE CloseAll
  BY <1>6 DEF CloseAll, Closed
<1>7. CASE AskDisconnect
  BY <1>7 DEF AskDisconnect
<1>8. CASE NetRestart
  BY <1>8 DEF NetRestart
<1>9. CASE UNCHANGED netVars
  BY <1>9 DEF netVars
<1>10. QED
  BY <1>1, <1>2, <1>3, <1>4, <1>5, <1>6, <1>7, <1>8, <1>9 DEF NetStep

LEMMA NetInvariant == Spec => []NetInv
<1>1. Init => NetInv
  BY InitNet DEF Init
<1>2. NetInv /\ [Next]_vars => NetInv'
  BY StepsOfNet, NextNet
<1>3. QED
  BY <1>1, <1>2, PTL DEF Spec

\* No descriptor is lost and none is in two places, over any number of
\* failed attempts, refused peers, disconnects, reconnections and restarts.
THEOREM DescriptorsKept == Spec => []NoFdLost
<1>1. NetInv => NoFdLost
  BY DEF NetInv
<1>2. QED
  BY <1>1, NetInvariant, PTL

-----------------------------------------------------------------------------
(***************************************************************************)
(* Type correctness.  The network's part is NetInvariant's; the rest falls *)
(* into the configuration, the server's side and the work task's side.     *)
(***************************************************************************)
CfgType == [proto |-> proto, role |-> role, opts |-> opts] \in Setups
ServerType ==
  /\ mood \in {"normal", "calm", "silent"}
  /\ srv \in {"none", "asked", "verified"}
  /\ wire \in Seq(Kinds) /\ Len(wire) <= WireLen
QueueType == queue \in Seq(Kinds) /\ Len(queue) <= QueueLen
TaskType ==
  /\ task \in Places
  /\ misses \in 0 .. MissLimit
  /\ init \in 0 .. InitPackets
FlagsType ==
  /\ flag \in BOOLEAN
  /\ due \in BOOLEAN
  /\ torn \in BOOLEAN
  /\ attempt \in BOOLEAN

\* Dropping the head and appending keep a bounded sequence one.
LEMMA BoundedTail ==
  ASSUME NEW S, NEW s \in Seq(S), NEW n \in Nat, Len(s) <= n, s # <<>>
  PROVE  /\ Tail(s) \in Seq(S) /\ Len(Tail(s)) <= n
         /\ Head(s) \in S
OBVIOUS

LEMMA BoundedAppend ==
  ASSUME NEW S, NEW s \in Seq(S), NEW n \in Nat, Len(s) <= n, Len(s) # n,
         NEW e \in S
  PROVE  Append(s, e) \in Seq(S) /\ Len(Append(s, e)) <= n
OBVIOUS

\* What a server may answer.
LEMMA AnswerTypes ==
  ASSUME srv \in {"none", "asked", "verified"}, NEW req,
         NEW a \in Answers(req)
  PROVE  /\ a[1] \in Kinds \cup {Nothing}
         /\ a[2] \in {"none", "asked", "verified"}
<1>1. /\ ProperAnswer(req)[1] \in Kinds
      /\ ProperAnswer(req)[2] \in {"none", "asked", "verified"}
  BY DEF ProperAnswer, Kinds
<1>2. a = ProperAnswer(req) \/ a = <<Nothing, srv>> \/ a = <<"fail", "none">>
  BY DEF Answers
<1>3. QED
  BY <1>1, <1>2 DEF Kinds

LEMMA SendTypes ==
  ASSUME ServerType, NEW req, Send(req)
  PROVE  ServerType'
<1>1. CASE Connected /\ npc = "run"
  <2>1. PICK a \in Answers(req) :
          /\ srv' = a[2]
          /\ wire' = IF a[1] = Nothing \/ Len(wire) = WireLen THEN wire
                     ELSE Append(wire, a[1])
          /\ UNCHANGED mood
    BY <1>1 DEF Send
  <2>2. a[1] \in Kinds \cup {Nothing} /\ a[2] \in {"none", "asked", "verified"}
    BY AnswerTypes DEF ServerType
  <2>3. CASE a[1] = Nothing \/ Len(wire) = WireLen
    BY <2>1, <2>2, <2>3 DEF ServerType
  <2>4. CASE ~(a[1] = Nothing \/ Len(wire) = WireLen)
    BY <2>1, <2>2, <2>4, BoundedAppend DEF ServerType
  <2>5. QED
    BY <2>3, <2>4
<1>2. CASE ~(Connected /\ npc = "run")
  BY <1>2 DEF Send, ServerType, serverVars
<1>3. QED
  BY <1>1, <1>2

\* The configuration never changes.
LEMMA ProtoKept == [Next]_vars => UNCHANGED cfgVars
<1> USE DEF asideVars
<1>1. NetNext => UNCHANGED cfgVars
  BY DEF NetNext, NetBegin, NetSocket, NetFails, NetEstablish, NetListen,
         NetAccept, NetLoss, NetIdle, NetClose, PutBytes, cfgVars
<1>2. TaskProgress => UNCHANGED cfgVars
  BY DEF TaskProgress, BjdcVerify, BjdcSequence, BjdcNoSequence, BjdcResult,
         BjdcNoResult, BjdcPassed, HjtLogin, HjtLoginAgain, HjtLoggedIn,
         HjtNoLogin, DmStart, LeaveSession, StaySession, Poll, Restart, Act,
         BeatAnswered, BeatMissed, HungUp, DelayOver, cfgVars
<1>3. ServerNext \/ Tick \/ UNCHANGED vars => UNCHANGED cfgVars
  BY DEF ServerNext, Unasked, SettleDown, Tick, vars, cfgVars
<1>4. QED
  BY <1>1, <1>2, <1>3 DEF Next

LEMMA NextCfg == CfgType /\ [Next]_vars => CfgType'
<1>1. NetStep => UNCHANGED role
  BY DEF NetStep, Begin, OpenSocket, AttemptFails, Establish, Listen, Accept,
         PeerGone, IdleEnd, CloseAll, AskDisconnect, NetRestart, netVars
<1>2. QED
  BY <1>1, ProtoKept, StepsOfNet DEF CfgType, cfgVars

LEMMA NextServer == ServerType /\ [Next]_vars => ServerType'
<1> SUFFICES ASSUME ServerType, [Next]_vars PROVE ServerType'
  OBVIOUS
<1>1. UNCHANGED serverVars => ServerType'
  BY DEF ServerType, serverVars
<1>2. ASSUME NEW req, Send(req) PROVE ServerType'
  BY <1>2, SendTypes
<1>3. CASE NetNext
  <2>1. CASE NetEstablish
    BY <2>1 DEF NetEstablish, ServerType
  <2>2. CASE NetLoss
    BY <2>2 DEF NetLoss, ServerType
  <2>3. CASE PutBytes
    BY <2>3, BoundedTail DEF PutBytes, ServerType
  <2>4. CASE NetBegin \/ NetSocket \/ NetFails \/ NetListen \/ NetAccept
             \/ NetIdle \/ NetClose
    BY <1>1, <2>4 DEF NetBegin, NetSocket, NetFails, NetListen, NetAccept,
                      NetIdle, NetClose
  <2>5. QED
    BY <1>3, <2>1, <2>2, <2>3, <2>4 DEF NetNext
<1>4. CASE Unasked
  <2>1. PICK m \in {"other"} \cup (IF proto = "bjdc" THEN {"restart"} ELSE {}) :
          wire' = Append(wire, m)
    BY <1>4 DEF Unasked
  <2>2. m \in Kinds /\ Len(wire) # WireLen
    BY <1>4, <2>1 DEF Unasked, Kinds
  <2>3. QED
    BY <1>4, <2>1, <2>2, BoundedAppend DEF Unasked, ServerType
<1>5. CASE SettleDown
  BY <1>5 DEF SettleDown, ServerType
<1>6. CASE BjdcVerify \/ BjdcSequence \/ BjdcPassed \/ HjtLogin \/ HjtLoginAgain
           \/ DmStart \/ Act
  BY <1>1, <1>2, <1>6 DEF BjdcVerify, BjdcSequence, BjdcPassed, HjtLogin,
     HjtLoginAgain, DmStart, Act, serverVars
<1>7. CASE BjdcNoSequence \/ BjdcResult \/ BjdcNoResult \/ HjtLoggedIn
           \/ HjtNoLogin \/ LeaveSession \/ StaySession \/ Poll
           \/ BeatAnswered \/ BeatMissed \/ HungUp \/ DelayOver \/ Tick
  BY <1>1, <1>7 DEF BjdcNoSequence, BjdcResult, BjdcNoResult, HjtLoggedIn,
     HjtNoLogin, LeaveSession, StaySession, Poll, BeatAnswered, BeatMissed,
     HungUp, DelayOver, Tick
<1>8. CASE Restart
  BY <1>8 DEF Restart, ServerType
<1>9. CASE UNCHANGED vars
  BY <1>1, <1>9 DEF vars
<1>10. QED
  BY <1>3, <1>4, <1>5, <1>6, <1>7, <1>8, <1>9 DEF Next, ServerNext, TaskProgress

\* What the parser brings and the work task takes.
LEMMA NextQueue == QueueType /\ ServerType /\ [Next]_vars => QueueType'
<1> SUFFICES ASSUME QueueType, ServerType, [Next]_vars PROVE QueueType'
  OBVIOUS
<1>1. UNCHANGED queue => QueueType'
  BY DEF QueueType
<1>2. queue # <<>> /\ DropHead => QueueType'
  BY BoundedTail DEF DropHead, QueueType
<1>3. CASE PutBytes
  <2>1. CASE Refused
    BY <1>3, <2>1 DEF PutBytes, QueueType
  <2>2. CASE ~Refused
    <3>1. Head(wire) \in Kinds
      BY <1>3, BoundedTail DEF PutBytes, ServerType
    <3>2. QED
      BY <1>3, <2>2, <3>1, BoundedAppend DEF PutBytes, Refused, QueueType
  <2>3. QED
    BY <2>1, <2>2
<1>4. CASE NetNext /\ ~PutBytes
  BY <1>1, <1>4 DEF NetNext, NetBegin, NetSocket, NetFails, NetEstablish,
     NetListen, NetAccept, NetLoss, NetIdle, NetClose, taskVars
<1>5. CASE ServerNext \/ Tick \/ UNCHANGED vars
  BY <1>1, <1>5 DEF ServerNext, Unasked, SettleDown, Tick, vars, taskVars
<1>6. CASE BjdcSequence \/ BjdcResult \/ HjtLoggedIn \/ BeatAnswered
  BY <1>2, <1>6 DEF BjdcSequence, BjdcResult, HjtLoggedIn, BeatAnswered, Took,
     TookOther
<1>7. CASE StaySession \/ Poll
  BY <1>1, <1>2, <1>7 DEF StaySession, Poll
<1>8. CASE Restart
  BY <1>8 DEF Restart, QueueType
<1>9. CASE BjdcVerify \/ BjdcNoSequence \/ BjdcNoResult \/ BjdcPassed \/ HjtLogin
           \/ HjtLoginAgain \/ HjtNoLogin \/ DmStart \/ LeaveSession \/ Act
           \/ BeatMissed \/ HungUp \/ DelayOver
  BY <1>1, <1>9 DEF BjdcVerify, BjdcNoSequence, BjdcNoResult, BjdcPassed,
     HjtLogin, HjtLoginAgain, HjtNoLogin, DmStart, LeaveSession, Act,
     BeatMissed, HungUp, DelayOver
<1>10. QED
  BY <1>3, <1>4, <1>5, <1>6, <1>7, <1>8, <1>9 DEF Next, TaskProgress

\* Where the work task goes.
LEMMA HangUpPlaces == HangUp => task' \in {"hanging", "top", "delay"}
BY DEF HangUp, AfterHangUp, GoTo, WaitAt

LEMMA NextTask == TaskType /\ [Next]_vars => TaskType'
<1> SUFFICES ASSUME TaskType, [Next]_vars PROVE TaskType'
  OBVIOUS
<1> USE DEF TaskType, Places, Session
<1>1. CASE NetNext
  BY <1>1 DEF NetNext, NetBegin, NetSocket, NetFails, NetEstablish, NetListen,
     NetAccept, NetLoss, NetIdle, NetClose, PutBytes, taskVars, ExitWork, StartWork
<1>2. CASE ServerNext \/ Tick \/ UNCHANGED vars
  BY <1>2 DEF ServerNext, Unasked, SettleDown, Tick, vars, taskVars
<1>3. CASE BjdcVerify \/ BjdcSequence \/ BjdcNoSequence \/ BjdcResult
           \/ BjdcNoResult \/ BjdcPassed
  BY <1>3, HangUpPlaces DEF BjdcVerify, BjdcSequence, BjdcNoSequence,
     BjdcResult, BjdcNoResult, BjdcPassed, GoTo, WaitAt
<1>4. CASE HjtLogin \/ HjtLoginAgain \/ HjtLoggedIn \/ HjtNoLogin \/ DmStart
  BY <1>4, HangUpPlaces DEF HjtLogin, HjtLoginAgain, HjtLoggedIn, HjtNoLogin,
     DmStart, GoTo, WaitAt
<1>5. CASE LeaveSession \/ StaySession \/ Poll \/ Restart
  BY <1>5 DEF LeaveSession, StaySession, Poll, Restart, GoTo
<1>6. CASE Act
  BY <1>6, HangUpPlaces DEF Act, GivesUp, GoTo, WaitAt
<1>7. CASE BeatAnswered \/ BeatMissed \/ HungUp \/ DelayOver
  BY <1>7, HangUpPlaces DEF BeatAnswered, BeatMissed, HungUp, DelayOver,
     AfterHangUp, GoTo, WaitAt
<1>8. QED
  BY <1>1, <1>2, <1>3, <1>4, <1>5, <1>6, <1>7 DEF Next, TaskProgress

LEMMA HangUpFlags == attempt \in BOOLEAN /\ HangUp => attempt' \in BOOLEAN
BY DEF HangUp, AfterHangUp, GoTo, WaitAt

LEMMA NextFlags == FlagsType /\ [Next]_vars => FlagsType'
<1> SUFFICES ASSUME FlagsType, [Next]_vars PROVE FlagsType'
  OBVIOUS
<1> USE DEF FlagsType
<1>1. CASE NetNext
  BY <1>1 DEF NetNext, NetBegin, NetSocket, NetFails, NetEstablish, NetListen,
     NetAccept, NetLoss, NetIdle, NetClose, PutBytes, taskVars, ExitWork, StartWork
<1>2. CASE ServerNext \/ Tick \/ UNCHANGED vars
  BY <1>2 DEF ServerNext, Unasked, SettleDown, Tick, vars, taskVars
<1>3. CASE BjdcVerify \/ BjdcSequence \/ BjdcNoSequence \/ BjdcResult
           \/ BjdcNoResult \/ BjdcPassed
  BY <1>3, HangUpFlags DEF BjdcVerify, BjdcSequence, BjdcNoSequence,
     BjdcResult, BjdcNoResult, BjdcPassed, GoTo, WaitAt
<1>4. CASE HjtLogin \/ HjtLoginAgain \/ HjtLoggedIn \/ HjtNoLogin \/ DmStart
  BY <1>4, HangUpFlags DEF HjtLogin, HjtLoginAgain, HjtLoggedIn, HjtNoLogin,
     DmStart, GoTo, WaitAt
<1>5. CASE LeaveSession \/ StaySession \/ Poll \/ Restart
  BY <1>5 DEF LeaveSession, StaySession, Poll, Restart, GoTo
<1>6. CASE Act
  BY <1>6, HangUpFlags DEF Act, GivesUp, GoTo, WaitAt
<1>7. CASE BeatAnswered \/ BeatMissed \/ HungUp \/ DelayOver
  BY <1>7, HangUpFlags DEF BeatAnswered, BeatMissed, HungUp, DelayOver,
     AfterHangUp, GoTo, WaitAt
<1>8. QED
  BY <1>1, <1>2, <1>3, <1>4, <1>5, <1>6, <1>7 DEF Next, TaskProgress

\* The history is recorded where a connection ends and BJDC asks.
HistoryType == oldPass \in BOOLEAN

LEMMA NextHistory == HistoryType /\ [Next]_vars => HistoryType'
<1> USE DEF asideVars, HistoryType
<1>1. NetNext => HistoryType' \/ UNCHANGED oldPass
  BY DEF NetNext, NetBegin, NetSocket, NetFails, NetEstablish, NetListen,
         NetAccept, NetLoss, NetIdle, NetClose, PutBytes, PassIsOld
<1>2. TaskProgress => HistoryType' \/ UNCHANGED oldPass
  BY DEF TaskProgress, BjdcVerify, BjdcSequence, BjdcNoSequence, BjdcResult,
         BjdcNoResult, BjdcPassed, HjtLogin, HjtLoginAgain, HjtLoggedIn,
         HjtNoLogin, DmStart, LeaveSession, StaySession, Poll, Restart, Act,
         BeatAnswered, BeatMissed, HungUp, DelayOver, Pending
<1>3. ServerNext \/ Tick \/ UNCHANGED vars => UNCHANGED oldPass
  BY DEF ServerNext, Unasked, SettleDown, Tick, vars
<1>4. QED
  BY <1>1, <1>2, <1>3 DEF Next

SessionTypes ==
  /\ CfgType /\ ServerType /\ QueueType
  /\ TaskType /\ FlagsType /\ HistoryType

LEMMA Types == Spec => [](NetInv /\ SessionTypes)
<1>1. Init => SessionTypes
  <2> SUFFICES ASSUME Init PROVE SessionTypes
    OBVIOUS
  <2>1. PICK s \in Setups : proto = s.proto /\ role = s.role /\ opts = s.opts
    BY DEF Init
  <2>2. s = [proto |-> s.proto, role |-> s.role, opts |-> s.opts]
    OBVIOUS
  <2>3. FlagsType /\ HistoryType
    BY DEF Init, FlagsType, HistoryType
  <2>4. QED
    BY <2>1, <2>2, <2>3 DEF SessionTypes, Init, CfgType, ServerType, QueueType,
       TaskType, Places, Session
<1>2. SessionTypes /\ [Next]_vars => SessionTypes'
  BY NextCfg, NextServer, NextQueue, NextTask, NextFlags, NextHistory
     DEF SessionTypes
<1>3. QED
  BY <1>1, <1>2, NetInvariant, PTL DEF Spec

\* In every reachable state the session, its queue and the network thread
\* have values of their types; the queue never holds more than its length.
THEOREM TypesKept == Spec => []TypeOK
<1>1. NetInv /\ SessionTypes => TypeOK
  BY DEF NetInv, SessionTypes, CfgType, ServerType, QueueType, TaskType,
     FlagsType, HistoryType,
     TypeOK
<1>2. QED
  BY <1>1, Types, PTL

-----------------------------------------------------------------------------
(***************************************************************************)
(* The session of BJDC.  ReportsAreVerified is not inductive: that the     *)
(* server has let the device in follows, unless the "pass" is old, from    *)
(* where a "pass" may be unread at each place of the work task before it.  *)
(***************************************************************************)
Verified == srv = "verified" /\ npc = "run"

PassParts ==
  /\ task = "recvSeq" => ~Pending("pass")
  /\ task = "recvResult" /\ Pending("pass") => Verified
  /\ task = "passed" => Verified
  /\ task \in Session /\ ~flag => Verified
OwnPlaces == task \notin {"login", "recvLogin", "recvBeat"}
BjdcInv == proto = "bjdc" => OwnPlaces /\ (~oldPass => PassParts)

SeqTypes == wire \in Seq(Kinds) /\ queue \in Seq(Kinds)

\* A message is unread if it is in the queue or on its way.
Has(s, m) == \E i \in DOMAIN s : s[i] = m

LEMMA HasTail ==
  ASSUME NEW S, NEW s \in Seq(S), s # <<>>, NEW m
  PROVE  /\ Has(Tail(s), m) => Has(s, m)
         /\ Head(s) = m => Has(s, m)
<1>1. ASSUME NEW i \in DOMAIN Tail(s), Tail(s)[i] = m PROVE Has(s, m)
  <2>1. i + 1 \in DOMAIN s /\ s[i + 1] = m
    BY <1>1
  <2>2. QED
    BY <2>1 DEF Has
<1>2. 1 \in DOMAIN s /\ Head(s) = s[1]
  OBVIOUS
<1>3. QED
  BY <1>1, <1>2 DEF Has

LEMMA HasAppend ==
  ASSUME NEW S, NEW s \in Seq(S), NEW e \in S, NEW m, Has(Append(s, e), m)
  PROVE  Has(s, m) \/ e = m
<1>1. PICK i \in DOMAIN Append(s, e) : Append(s, e)[i] = m
  BY DEF Has
<1>2. i \in DOMAIN s \/ i = Len(s) + 1
  BY <1>1
<1>3. QED
  BY <1>1, <1>2 DEF Has

LEMMA HasBoth ==
  ASSUME NEW S, NEW s \in Seq(S), NEW t \in Seq(S), NEW m
  PROVE  Has(s \o t, m) <=> Has(s, m) \/ Has(t, m)
<1> DEFINE st == s \o t
<1>0. /\ st \in Seq(S) /\ Len(st) = Len(s) + Len(t)
      /\ \A i \in 1 .. Len(s) : st[i] = s[i]
      /\ \A i \in 1 .. Len(t) : st[Len(s) + i] = t[i]
  OBVIOUS
<1>1. ASSUME NEW i \in DOMAIN s, s[i] = m PROVE Has(st, m)
  <2>1. i \in DOMAIN st /\ st[i] = m
    BY <1>0, <1>1
  <2>2. QED
    BY <2>1 DEF Has
<1>2. ASSUME NEW i \in DOMAIN t, t[i] = m PROVE Has(st, m)
  <2>1. Len(s) + i \in DOMAIN st /\ st[Len(s) + i] = m
    BY <1>0, <1>2
  <2>2. QED
    BY <2>1 DEF Has
<1>3. ASSUME NEW i \in DOMAIN st, st[i] = m PROVE Has(s, m) \/ Has(t, m)
  <2>1. CASE i <= Len(s)
    BY <1>0, <1>3, <2>1 DEF Has
  <2>2. CASE i > Len(s)
    <3>1. i - Len(s) \in 1 .. Len(t) /\ i = Len(s) + (i - Len(s))
      BY <1>0, <1>3, <2>2
    <3>2. t[i - Len(s)] = m
      BY <1>0, <1>3, <3>1
    <3>3. QED
      BY <3>1, <3>2 DEF Has
  <2>3. QED
    BY <1>0, <1>3, <2>1, <2>2
<1>4. QED
  BY <1>1, <1>2, <1>3 DEF Has

LEMMA PendingHas ==
  ASSUME NEW q \in Seq(Kinds), NEW w \in Seq(Kinds)
  PROVE  (\E i \in DOMAIN (q \o w) : (q \o w)[i] = "pass")
           <=> Has(q, "pass") \/ Has(w, "pass")
<1>1. Has(q \o w, "pass") <=> Has(q, "pass") \/ Has(w, "pass")
  BY HasBoth
<1>2. QED
  BY <1>1 DEF Has

LEMMA NothingHas == ASSUME NEW m PROVE ~Has(<<>>, m)
BY DEF Has

\* The steps of the network thread and the parser: they bring no "pass" that
\* was not there before, and the connection ends with the flag up.
LEMMA BjdcNet ==
  ASSUME proto = "bjdc", role = "tcp_client", SeqTypes, SeqTypes',
         BjdcInv, NetNext
  PROVE  BjdcInv'
<1> USE DEF BjdcInv, PassParts, OwnPlaces, Session, Verified, asideVars, cfgVars
<1>0. /\ Pending("pass") <=> Has(queue, "pass") \/ Has(wire, "pass")
      /\ Pending("pass")' <=> Has(queue', "pass") \/ Has(wire', "pass")
  BY PendingHas DEF Pending, SeqTypes
<1>1. CASE NetBegin \/ NetSocket \/ NetClose
  BY <1>0, <1>1 DEF NetBegin, Begin, NetSocket, OpenSocket, NetClose, CloseAll,
     taskVars, serverVars
<1>2. CASE NetFails
  BY <1>0, <1>2 DEF NetFails, AttemptFails, ExitWork, serverVars
<1>3. CASE NetEstablish
  BY <1>0, <1>3, NothingHas DEF NetEstablish, Establish, StartWork
<1>4. CASE NetListen \/ NetAccept
  BY <1>4 DEF NetListen, Listen, NetAccept, Accept
<1>5. CASE NetLoss
  BY <1>0, <1>5, NothingHas DEF NetLoss, PeerGone, ExitWork, PassIsOld
<1>6. CASE NetIdle
  BY <1>0, <1>6 DEF NetIdle, IdleEnd, ExitWork, PassIsOld, serverVars
<1>7. CASE PutBytes
  <2>1. /\ wire # <<>> /\ wire' = Tail(wire)
        /\ UNCHANGED <<npc, task, flag, srv, oldPass, proto>>
        /\ queue' = IF Refused THEN queue ELSE Append(queue, Head(wire))
    BY <1>7 DEF PutBytes, netVars
  <2>2. Head(wire) \in Kinds
    BY <2>1 DEF SeqTypes
  <2>3. Has(queue', "pass") => Has(queue, "pass") \/ Head(wire) = "pass"
    BY <2>1, <2>2, HasAppend DEF SeqTypes
  <2>4. /\ Has(wire', "pass") => Has(wire, "pass")
        /\ Head(wire) = "pass" => Has(wire, "pass")
    BY <2>1, HasTail DEF SeqTypes
  <2>5. QED
    BY <1>0, <2>1, <2>3, <2>4
<1>8. QED
  BY <1>1, <1>2, <1>3, <1>4, <1>5, <1>6, <1>7 DEF NetNext

\* The server's own messages are none of the answers.
LEMMA BjdcServer ==
  ASSUME proto = "bjdc", SeqTypes, SeqTypes', BjdcInv, ServerNext
  PROVE  BjdcInv'
<1> USE DEF BjdcInv, PassParts, OwnPlaces, Session, Verified, asideVars, cfgVars
<1>0. /\ Pending("pass") <=> Has(queue, "pass") \/ Has(wire, "pass")
      /\ Pending("pass")' <=> Has(queue', "pass") \/ Has(wire', "pass")
  BY PendingHas DEF Pending, SeqTypes
<1>1. CASE Unasked
  <2>1. PICK m \in {"other", "restart"} : wire' = Append(wire, m)
    BY <1>1 DEF Unasked
  <2>2. Has(wire', "pass") => Has(wire, "pass")
    BY <2>1, HasAppend DEF SeqTypes, Kinds
  <2>3. QED
    BY <1>0, <1>1, <2>2 DEF Unasked, netVars, taskVars
<1>2. CASE SettleDown
  BY <1>0, <1>2 DEF SettleDown, netVars, taskVars
<1>3. QED
  BY <1>1, <1>2 DEF ServerNext

\* What a request brings: a "pass" only with the MD5, and then the server has
\* let the device in.
LEMMA Answered ==
  ASSUME SeqTypes, NEW req, Send(req)
  PROVE  /\ req # "md5" =>
              /\ Has(wire', "pass") => Has(wire, "pass")
              /\ req # "verify" => srv' = srv
         /\ Has(wire', "pass") =>
              Has(wire, "pass") \/ (srv' = "verified" /\ npc = "run")
<1>1. CASE Connected /\ npc = "run"
  <2>1. PICK a \in Answers(req) :
          /\ srv' = a[2]
          /\ wire' = IF a[1] = Nothing \/ Len(wire) = WireLen THEN wire
                     ELSE Append(wire, a[1])
    BY <1>1 DEF Send
  <2>2. \/ a = ProperAnswer(req)
        \/ a = <<Nothing, srv>>
        \/ req = "md5" /\ a = <<"fail", "none">>
    BY DEF Answers
  <2>3. /\ a[1] \in Kinds \cup {Nothing}
        /\ a[1] = "pass" => req = "md5" /\ a[2] = "verified"
        /\ req \notin {"md5", "verify"} => a[2] = srv
    BY <2>2 DEF ProperAnswer, Nothing, Kinds
  <2>4. Has(wire', "pass") => Has(wire, "pass") \/ a[1] = "pass"
    BY <2>1, <2>3, HasAppend DEF SeqTypes
  <2>5. QED
    BY <1>1, <2>1, <2>3, <2>4
<1>2. CASE ~(Connected /\ npc = "run")
  BY <1>2 DEF Send, serverVars
<1>3. QED
  BY <1>1, <1>2

\* Before the verification is over: asking, answering and giving up.
LEMMA BjdcAsks ==
  ASSUME proto = "bjdc", SeqTypes, SeqTypes', BjdcInv,
         BjdcVerify \/ BjdcSequence \/ BjdcNoSequence \/ BjdcResult
         \/ BjdcNoResult
  PROVE  BjdcInv'
<1> USE DEF BjdcInv, PassParts, OwnPlaces, Session, Verified, asideVars, cfgVars
<1>0. /\ Pending("pass") <=> Has(queue, "pass") \/ Has(wire, "pass")
      /\ Pending("pass")' <=> Has(queue', "pass") \/ Has(wire', "pass")
  BY PendingHas DEF Pending, SeqTypes
<1>a. HangUp => task' \in {"hanging", "delay"}
  BY DEF HangUp, AfterHangUp, GoTo, WaitAt
<1>b. queue # <<>> /\ DropHead =>
        /\ Has(queue', "pass") => Has(queue, "pass")
        /\ Head(queue) = "pass" => Has(queue, "pass")
  BY HasTail DEF DropHead, SeqTypes
<1>1. CASE BjdcVerify
  <2>1. /\ queue' = queue /\ proto' = proto
        /\ oldPass' = Pending("pass")
        /\ \/ task' = "recvSeq" /\ Send("verify")
           \/ task' = "none"
    BY <1>1 DEF BjdcVerify, WaitAt, GoTo
  <2>2. CASE task' = "recvSeq" /\ Send("verify")
    BY <1>0, <2>1, <2>2, Answered
  <2>3. QED
    BY <2>1, <2>2
<1>2. CASE BjdcSequence
  <2>1. /\ task = "recvSeq" /\ queue # <<>> /\ DropHead
        /\ UNCHANGED <<npc, flag, oldPass, proto>>
        /\ \/ task' = "recvResult" /\ Send("md5")
           \/ task' = "start"
    BY <1>2 DEF BjdcSequence, Took, TookOther, WaitAt, GoTo, netVars
  <2>2. CASE task' = "recvResult" /\ Send("md5")
    BY <1>0, <1>b, <2>1, <2>2, Answered
  <2>3. QED
    BY <2>1, <2>2
<1>3. CASE BjdcNoSequence
  BY <1>a, <1>3 DEF BjdcNoSequence
<1>4. CASE BjdcResult
  <2>1. /\ task = "recvResult" /\ queue # <<>> /\ DropHead
        /\ UNCHANGED <<srv, oldPass, proto>>
        /\ \/ Head(queue) = "pass" /\ task' = "passed" /\ UNCHANGED npc
           \/ task' \in {"start", "hanging", "delay"}
    BY <1>a, <1>4 DEF BjdcResult, Took, TookOther, GoTo, netVars, serverVars
  <2>2. QED
    BY <1>0, <1>b, <2>1
<1>5. CASE BjdcNoResult
  BY <1>5 DEF BjdcNoResult, GoTo
<1>6. QED
  BY <1>1, <1>2, <1>3, <1>4, <1>5

\* In the session and after it.
LEMMA BjdcReports ==
  ASSUME proto = "bjdc", SeqTypes, BjdcInv,
         BjdcPassed \/ LeaveSession \/ StaySession \/ Poll \/ Restart \/ Act
         \/ HungUp \/ DelayOver \/ Tick
  PROVE  BjdcInv'
<1> USE DEF BjdcInv, PassParts, OwnPlaces, Session, Verified, asideVars, cfgVars
<1>1. CASE BjdcPassed
  BY <1>1, Answered DEF BjdcPassed, GoTo, netVars
<1>2. CASE LeaveSession \/ StaySession
  BY <1>2 DEF LeaveSession, StaySession, GoTo, netVars, serverVars
<1>3. CASE Poll
  BY <1>3 DEF Poll, GoTo, netVars, serverVars
<1>4. CASE Restart
  BY <1>4 DEF Restart
<1>5. CASE Act
  <2>1. /\ task = "act" /\ task' = "top"
        /\ UNCHANGED <<npc, flag, oldPass, proto>>
        /\ UNCHANGED serverVars \/ Send("heartbeat")
    BY <1>5 DEF Act, GoTo, netVars
  <2>2. srv' = srv
    BY <2>1, Answered DEF serverVars
  <2>3. QED
    BY <2>1, <2>2
<1>6. CASE HungUp \/ DelayOver
  BY <1>6 DEF HungUp, DelayOver, AfterHangUp, GoTo, WaitAt
<1>7. CASE Tick
  BY <1>7 DEF Tick, netVars, serverVars
<1>8. QED
  BY <1>1, <1>2, <1>3, <1>4, <1>5, <1>6, <1>7

\* The actions of the other protocols are not taken.
LEMMA BjdcOthers ==
  ASSUME proto = "bjdc", BjdcInv,
         HjtLogin \/ HjtLoginAgain \/ HjtLoggedIn \/ HjtNoLogin \/ DmStart
         \/ BeatAnswered \/ BeatMissed
  PROVE  FALSE
BY DEF HjtLogin, HjtLoginAgain, HjtLoggedIn, HjtNoLogin, DmStart, BeatAnswered,
       BeatMissed, BjdcInv, OwnPlaces

\* BJDC hands reports over only to a server that has verified the device on
\* this connection, whatever is lost, late or left over: the two races in
\* which it does not are those that leave it with an old "pass".
THEOREM VerifiedReports == Spec => []ReportsAreVerified
<1> DEFINE All == NetInv /\ SessionTypes
<1>1. Init => BjdcInv
  BY DEF Init, BjdcInv, PassParts, OwnPlaces, Session
<1>2. All /\ All' /\ BjdcInv /\ [Next]_vars => BjdcInv'
  <2> SUFFICES ASSUME All, All', BjdcInv, [Next]_vars, proto' = "bjdc"
               PROVE  BjdcInv'
    BY DEF BjdcInv
  <2>1. proto = "bjdc"
    BY ProtoKept DEF cfgVars
  <2>2. SeqTypes /\ SeqTypes' /\ role = "tcp_client"
    BY <2>1 DEF SeqTypes, SessionTypes, ServerType, QueueType, CfgType
  <2>3. CASE NetNext
    BY <2>1, <2>2, <2>3, BjdcNet
  <2>4. CASE ServerNext
    BY <2>1, <2>2, <2>4, BjdcServer
  <2>5. CASE BjdcVerify \/ BjdcSequence \/ BjdcNoSequence \/ BjdcResult
             \/ BjdcNoResult
    BY <2>1, <2>2, <2>5, BjdcAsks
  <2>6. CASE BjdcPassed \/ LeaveSession \/ StaySession \/ Poll \/ Restart
             \/ Act \/ HungUp \/ DelayOver \/ Tick
    BY <2>1, <2>2, <2>6, BjdcReports
  <2>7. CASE HjtLogin \/ HjtLoginAgain \/ HjtLoggedIn \/ HjtNoLogin \/ DmStart
             \/ BeatAnswered \/ BeatMissed
    BY <2>1, <2>7, BjdcOthers
  <2>8. CASE UNCHANGED vars
    BY <2>8 DEF vars, netVars, taskVars, serverVars, asideVars, cfgVars,
       BjdcInv,
       PassParts, OwnPlaces, Session, Verified, Pending
  <2>9. QED
    BY <2>3, <2>4, <2>5, <2>6, <2>7, <2>8 DEF Next, TaskProgress
<1>3. All /\ BjdcInv => ReportsAreVerified
  BY DEF BjdcInv, PassParts, Verified, ReportsAreVerified
<1>4. QED
  BY <1>1, <1>2, <1>3, Types, PTL DEF Spec
=============================================================================
