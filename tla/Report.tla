------------------------------- MODULE Report -------------------------------
(***************************************************************************)
(* What the work task of a session reports: the values of the variables of *)
(* one port are counted into averages and handed over in frames, by the    *)
(* sweeps of sdccp/hjt212.c (one per kind of average, frames of one MN and *)
(* of bounded length, taken up again at *ppnode), of sdccp/cc_bjdc.c (one  *)
(* document with all) and of sdccp/dm101/dm101.c (packets of a bounded     *)
(* number, each begun at the head of the list).  Handed over means given   *)
(* to cc_net_send, whose result nobody looks at.                           *)
(*                                                                         *)
(* A value is a tag.  An average is the set of the values counted in it,   *)
(* so that what is lost and what is sent twice can be told.                *)
(***************************************************************************)
EXTENDS Integers, FiniteSets, Sequences

CONSTANTS N,          \* variables reported by the port, in list order
          Devices,    \* how they belong to devices, szNid or the port's MN
          Tags,       \* values told apart at a time
          FrameMax,   \* entries that fit one frame or packet
          Setups      \* protocol, averages in the order swept, sharp_flag

ASSUME NAssumption == N \in Nat /\ FrameMax \in Nat \ {0}
ASSUME DevicesAssumption == \A d \in Devices : DOMAIN d = 1 .. N
ASSUME SetupsAssumption ==
  /\ Setups \subseteq [proto : {"hjt212", "bjdc", "dm101"}, sharp : BOOLEAN,
                       order : Seq({"real", "min", "5min", "hour"})]
  /\ \A s \in Setups : s.order # <<>>

Nodes == 1 .. N
AllKinds == {"real", "min", "5min", "hour"}

VARIABLES proto, order, sharp,  \* the configuration of the port
          nid,        \* the device of each variable
          counted,    \* the values of each variable, for the properties
          pending,    \* in its averages, val_avg and count
          reported,   \* handed over, for the properties
          elapsed,    \* the period since time of an average is over
          turned,     \* the minute or hour of sharp_flag has changed
          stage,      \* index in order of the sweep going on, 0 in the loop
          at,         \* *ppnode, 0 for NULL
          lost,       \* s_cc_reinit_flag is up or the connection is gone
          owed        \* history: what was due when the sweep began

cfgVars == <<proto, order, sharp, nid>>
valueVars == <<counted, pending, reported>>
vars == <<cfgVars, valueVars, elapsed, turned, stage, at, lost, owed>>

Kinds == {order[i] : i \in DOMAIN order}

TypeOK ==
  /\ [proto |-> proto, order |-> order, sharp |-> sharp] \in Setups
  /\ nid \in Devices
  /\ counted \in [Nodes -> SUBSET Tags]
  /\ pending \in [Nodes -> [Kinds -> SUBSET Tags]]
  /\ reported \in [Nodes -> [Kinds -> SUBSET Tags]]
  /\ elapsed \in [Nodes -> [Kinds -> BOOLEAN]]
  /\ turned \in [Kinds -> BOOLEAN]
  /\ stage \in 0 .. Len(order)
  /\ at \in 0 .. N
  /\ lost \in BOOLEAN
  /\ owed \subseteq Nodes

Init ==
  /\ \E s \in Setups : proto = s.proto /\ order = s.order /\ sharp = s.sharp
  /\ nid \in Devices
  /\ counted = [n \in Nodes |-> {}]
  /\ pending = [n \in Nodes |-> [k \in Kinds |-> {}]]
  /\ reported = [n \in Nodes |-> [k \in Kinds |-> {}]]
  /\ elapsed = [n \in Nodes |-> [k \in Kinds |-> FALSE]]
  /\ turned = [k \in Kinds |-> FALSE]
  /\ stage = 0
  /\ at = 0
  /\ lost = FALSE
  /\ owed = {}

-----------------------------------------------------------------------------
ByClock(k) == sharp /\ k # "real"
Due(n, k) == (ByClock(k) \/ elapsed[n][k]) /\ pending[n][k] # {}
Ready(S, k) == {n \in S : Due(n, k)}

(* History, no part of the code. *)
Owes == owed' = IF stage' \in DOMAIN order \ {stage}
                THEN Ready(Nodes, order[stage])' ELSE owed

(* A tag is used again when no average holds the value it stood for. *)
FreeTag(t) == \A n \in Nodes, k \in Kinds : t \notin pending[n][k]

(* The head of the loop, in one critical section: the value of each        *)
(* variable that has one is added to every average.  When the session ends *)
(* meanwhile, the rest of the list is left out.                            *)
Count ==
  /\ stage = 0
  /\ ~lost
  /\ \E t \in Tags, S \in SUBSET Nodes :
       /\ FreeTag(t)
       /\ counted' = [n \in Nodes |->
                        IF n \in S THEN counted[n] \cup {t}
                        ELSE counted[n] \ {t}]
       /\ pending' = [n \in Nodes |-> [k \in Kinds |->
                        IF n \in S THEN pending[n][k] \cup {t}
                        ELSE pending[n][k]]]
       /\ reported' = [n \in Nodes |-> [k \in Kinds |-> reported[n][k] \ {t}]]
  /\ stage' = 1
  /\ UNCHANGED <<cfgVars, elapsed, turned, at, lost>>
  /\ Owes

(* Nothing to count: the loop goes round for the heartbeat's sake. *)
CountNothing ==
  /\ stage = 0
  /\ stage' = 1
  /\ UNCHANGED <<cfgVars, valueVars, elapsed, turned, at, lost>>
  /\ Owes

(* The session ends at any time, and begins again at the head of the loop  *)
(* with the averages as they are.                                          *)
Lose ==
  /\ ~lost
  /\ lost' = TRUE
  /\ UNCHANGED <<cfgVars, valueVars, elapsed, turned, stage, at, owed>>

BeginAgain ==
  /\ stage = 0
  /\ lost
  /\ lost' = FALSE
  /\ UNCHANGED <<cfgVars, valueVars, elapsed, turned, stage, at, owed>>

(* The period of an average ends for any variables and at any time, in the *)
(* middle of its own sweep too.                                            *)
Elapse ==
  /\ \E k \in Kinds, S \in SUBSET Nodes :
       /\ S # {}
       /\ elapsed' = [n \in Nodes |->
                        IF n \in S THEN [elapsed[n] EXCEPT ![k] = TRUE]
                        ELSE elapsed[n]]
  /\ UNCHANGED <<cfgVars, valueVars, turned, stage, at, lost, owed>>

(* With sharp_flag the clock decides for all variables. *)
Turn ==
  /\ sharp
  /\ stage = 0
  /\ \E k \in Kinds \ {"real"} :
       ~turned[k] /\ turned' = [turned EXCEPT ![k] = TRUE]
  /\ UNCHANGED <<cfgVars, valueVars, elapsed, stage, at, lost, owed>>

-----------------------------------------------------------------------------
(* The sweep goes on behind *ppnode and ends at the first variable of      *)
(* another device, at the end of the list or when the frame is full.       *)
Rest == at + 1 .. N
SameDeviceAlways(n) == TRUE
SameDevice(n) == nid[n] = nid[at + 1]
Run == {n \in Rest : \A m \in at + 1 .. n : SameDevice(m)}

(* The first FrameMax of them; HJT212 leaves the one that does not fit.    *)
FirstOf(S) == {n \in S : Cardinality({m \in S : m < n}) < FrameMax}

Entries(k) == CASE proto = "hjt212" -> FirstOf(Ready(Run, k))
                [] proto = "dm101" -> FirstOf(Ready(Nodes, k))
                [] OTHER -> Ready(Nodes, k)

Last(S) == CHOOSE n \in S : \A m \in S : m <= n

(* *ppnode becomes the last one taken, and NULL at the end of the list. A  *)
(* call that takes nothing and meets another device leaves it as it was.   *)
NextInList(k) == IF Entries(k) = {} THEN at ELSE Last(Entries(k))
NextAt(k) ==
  IF proto # "hjt212" \/ (Run = Rest /\ Entries(k) = Ready(Run, k)) THEN 0
  ELSE NextInList(k)

(* What is taken is cleared, in the same critical section. *)
ClearedAll(k) == Ready(IF proto = "hjt212" THEN Run ELSE Nodes, k)
Cleared(k) == Entries(k)

(* HJT212 calls on until *ppnode is NULL, DM101 until a packet is empty. *)
SweepOverFull(k) == Cardinality(Entries(k)) < FrameMax
SweepOver(k) == IF proto = "dm101" THEN Entries(k) = {} ELSE NextAt(k) = 0

NextStageOn == stage + 1
NextStage == (stage + 1) % (Len(order) + 1)

(* DM101 looks at the flag and the connection before each packet and BJDC  *)
(* at the flag before each variable of its document, which the end of the  *)
(* session may therefore cut short behind any of them (m): the critical    *)
(* section does not keep the network thread from raising the flag.  HJT212 *)
(* does not look before all its sweeps are over.                           *)
LooksAway == proto = "hjt212"

CutShort ==
  /\ stage # 0
  /\ lost /\ ~LooksAway
  /\ stage' = NextStage
  /\ UNCHANGED <<cfgVars, valueVars, elapsed, turned, at, lost>>
  /\ Owes

(* The variables S go into a frame, the averages of the variables C are    *)
(* begun again.                                                            *)
HandOver(S, C, k) ==
  /\ reported' = [n \in Nodes |->
       IF n \in S THEN [reported[n] EXCEPT ![k] = @ \cup pending[n][k]]
       ELSE reported[n]]
  /\ pending' = [n \in Nodes |->
       IF n \in C THEN [pending[n] EXCEPT ![k] = {}] ELSE pending[n]]
  /\ elapsed' = [n \in Nodes |->
       IF n \in C THEN [elapsed[n] EXCEPT ![k] = FALSE] ELSE elapsed[n]]

CutInside ==
  /\ stage # 0
  /\ proto = "bjdc"
  /\ ~lost
  /\ lost' = TRUE
  /\ \E m \in 0 .. N : LET k == order[stage]
                           S == Ready(1 .. m, k)
                       IN  HandOver(S, S, k)
  /\ stage' = NextStage
  /\ UNCHANGED <<cfgVars, counted, turned, at>>
  /\ Owes

(* One call: hjt212_report_..._data, or the body of the report loop.       *)
ReportFrame ==
  /\ stage # 0
  /\ lost => LooksAway
  /\ LET k == order[stage] IN
       /\ ByClock(k) => turned[k]
       /\ HandOver(Entries(k), Cleared(k), k)
       /\ at' = NextAt(k)
       /\ stage' = IF SweepOver(k) THEN NextStage
                   ELSE stage
       /\ turned' = IF SweepOver(k) THEN [turned EXCEPT ![k] = FALSE]
                    ELSE turned
  /\ UNCHANGED <<cfgVars, counted, lost>>
  /\ Owes

(* With sharp_flag a sweep whose minute or hour has not changed is left out. *)
SkipSweep ==
  /\ stage # 0
  /\ ByClock(order[stage]) /\ ~turned[order[stage]]
  /\ stage' = NextStage
  /\ UNCHANGED <<cfgVars, valueVars, elapsed, turned, at, lost>>
  /\ Owes

Next == \/ Count \/ CountNothing \/ ReportFrame \/ SkipSweep
        \/ CutShort \/ CutInside \/ Elapse \/ Turn \/ Lose \/ BeginAgain
Spec == Init /\ [][Next]_vars

(* The work task goes on. *)
Fairness == WF_vars(Count \/ CountNothing \/ ReportFrame \/ SkipSweep
                    \/ CutShort)
FairSpec == Spec /\ Fairness

-----------------------------------------------------------------------------
(* A value counted is in the average or has been handed over, for each     *)
(* kind exactly one of the two: none is lost where a frame is full or      *)
(* another device begins, and none is in two frames.                       *)
EachValueOnce ==
  \A n \in Nodes, k \in Kinds :
    /\ pending[n][k] \cap reported[n][k] = {}
    /\ pending[n][k] \cup reported[n][k] = counted[n]

(* A frame of HJT212 goes out under one MN: the variables in it are all of *)
(* that device, wherever the frame before it ended.                        *)
OneDeviceFrames ==
  [][proto = "hjt212" /\ stage # 0 =>
       \A m, n \in Nodes : reported'[m] # reported[m] /\ reported'[n] # reported[n]
                             => nid[m] = nid[n]]_vars

(* The sweep of HJT212 stands at a device of which nothing is due while    *)
(* another follows it: the call takes nothing and leaves *ppnode.          *)
Silent == proto = "hjt212" /\ Entries(order[stage]) = {} /\ Run # Rest

(* A sweep that the end of the session does not cut short leaves nothing   *)
(* of what was due when it began, wherever its frames end and whatever     *)
(* comes due meanwhile, but for the one case in which the code does: when  *)
(* nothing of the first device is due HJT212 takes *ppnode, still NULL,    *)
(* for the end of the list, and the devices behind the first are left.     *)
NothingLeftOver ==
  [][\A i \in 1 .. Len(order) :
       /\ stage = i /\ stage' # i
       /\ ByClock(order[i]) => turned[order[i]]
       /\ lost' => LooksAway
       => \A n \in owed : pending'[n][order[i]] = {}
                            \/ (at = 0 /\ Silent /\ n \notin Run)]_vars

(* The work task comes back to its messages, its heartbeat and the flag    *)
(* again and again, however the frames end and whatever comes due during   *)
(* the sweeps; or HJT212 stands for ever behind a frame, at a device of    *)
(* which nothing comes due any more while another device follows it.       *)
SweepEnds == []<>(stage = 0) \/ <>[](stage # 0 /\ at # 0 /\ Silent)
=============================================================================
