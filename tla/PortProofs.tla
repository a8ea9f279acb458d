----------------------------- MODULE PortProofs -----------------------------
(***************************************************************************)
(* Proofs about the two ways to a slave: Serial, for any variables, any    *)
(* burst and any number of frames on the bus, and Zigbee, for any nodes,   *)
(* any pollers and any chain.  No step is of both; the names of Zigbee are *)
(* its own.                                                                *)
(***************************************************************************)
EXTENDS Serial, Zigbee, TLAPS

USE SerialAssumption

-----------------------------------------------------------------------------
(***************************************************************************)
(* The mailbox.  Whatever the task and the worker do, what the mailbox     *)
(* sees is a call of block_msg_queue.c.                                    *)
(***************************************************************************)
LEMMA StepsOfMailbox == [Next]_vars => [Q!Next]_(Q!vars)
<1> SUFFICES ASSUME [Next]_vars PROVE Q!Next \/ UNCHANGED mailbox
  BY DEF Q!vars, mailbox
<1> USE DEF Q!Next
<1>1. ASSUME NEW m \in Kinds, Put(m) PROVE Q!Next
  BY <1>1 DEF Put
<1>2. CASE HandOver
  BY <1>1, <1>2 DEF HandOver
<1>3. CASE SendData
  BY <1>1, <1>3 DEF SendData, Kinds
<1>4. CASE ResetForData
  BY <1>4 DEF ResetForData
<1>5. CASE Clear \/ ReadData
  BY <1>5 DEF Clear, ReadData, ReceiveNoWait, Q!Recv
<1>6. CASE Receive
  BY <1>6 DEF Receive, Q!Recv
<1>7. CASE Wait
  BY <1>7 DEF Wait, Timeout, Q!Recv, Q!Waiting
<1>8. CASE GiveUp
  BY <1>8 DEF GiveUp, Q!ReturnUnsignalled, Q!Expire, Q!Waiting
<1>9. CASE SpuriousReturn
  BY <1>9 DEF SpuriousReturn, Q!ReturnUnsignalled, Q!SpuriousWakeUp
<1>10. CASE Gather \/ Reading \/ OtherPort \/ OtherStarts \/ SendRequest
  BY <1>10 DEF Gather, Reading, OtherPort, OtherStarts, SendRequest
<1>11. CASE \E v \in Vars : AskMeter(v) \/ StartSample(v) \/ ReadOnly(v)
  BY <1>11 DEF AskMeter, StartSample, ReadOnly
<1>12. CASE UNCHANGED vars
  BY <1>12 DEF vars
<1>13. QED
  BY <1>2, <1>3, <1>4, <1>5, <1>6, <1>7, <1>8, <1>9, <1>10, <1>11, <1>12
  DEF Next, TaskNext, WorkerNext

\* The mailbox of a port is a queue of block_msg_queue.c with one slot, one
\* sender that also resets it, and one receiver.
THEOREM MailboxIsQueue == Spec => Q!Spec
<1>1. Init => Q!Init
  BY DEF Init
<1>2. QED
  BY <1>1, StepsOfMailbox, PTL DEF Spec, Q!Spec

-----------------------------------------------------------------------------
(***************************************************************************)
(* A queue of one slot, two places in the ring.                            *)
(***************************************************************************)
MailboxType ==
  /\ head \in {0, 1} /\ tail \in {0, 1}
  /\ rx \in [{Task} -> {"idle", "woken", "timed", "forever"}]
  /\ ret \in [{Task, Worker} -> Q!Codes]
Asleep == rx[Task] \in {"timed", "forever"}
MailboxInv ==
  /\ MailboxType
  /\ Asleep => head = tail
  /\ ~live => rx[Task] = "idle"

LEMMA SuccOfOne == /\ Q!Succ(0) = 1 /\ Q!Succ(1) = 0
                   /\ Q!Indices = {0, 1}
                   /\ Q!Threads = {Task, Worker}
BY DEF Q!Succ, Q!Slots, Q!Indices, Q!Threads

LEMMA MailboxStep == MailboxInv /\ [Q!Next]_(Q!vars) => MailboxInv'
<1> SUFFICES ASSUME MailboxInv, [Q!Next]_(Q!vars) PROVE MailboxInv'
  OBVIOUS
<1> USE DEF MailboxInv, MailboxType, Asleep
<1>0. Task # Worker
  BY DEF Task, Worker
<1>1. ASSUME NEW m \in Kinds \cup {}, Q!Send(Worker, m) PROVE MailboxInv'
  <2>1. CASE Q!SendRefused(Worker, m)
    BY <1>0, <2>1 DEF Q!SendRefused, Q!Returns, Q!Codes
  <2>2. CASE Q!SendAccepted(Worker, m)
    <3>1. tail' = Q!Succ(tail) /\ UNCHANGED <<head, live>> /\ Q!Signal
          /\ ret' = [ret EXCEPT ![Worker] = "ok"] /\ live
      BY <2>2 DEF Q!SendAccepted, Q!Returns
    <3>2. rx' \in [{Task} -> {"idle", "woken"}]
      BY <3>1 DEF Q!Signal, Q!Waiters, Q!Waiting
    <3>3. QED
      BY <1>0, <3>1, <3>2, SuccOfOne DEF Q!Codes
  <2>3. QED
    BY <1>1, <2>1, <2>2 DEF Q!Send
<1>2. ASSUME Q!TakeSlot(Task) PROVE MailboxInv'
  BY <1>0, <1>2, SuccOfOne DEF Q!TakeSlot, Q!Returns, Q!Codes
<1>3. ASSUME Q!Recv(Task) PROVE MailboxInv'
  <2>1. CASE Q!RecvNow(Task)
    BY <1>2, <2>1 DEF Q!RecvNow
  <2>2. CASE Q!RecvPoll(Task)
    BY <1>0, <2>2 DEF Q!RecvPoll, Q!Returns, Q!Codes
  <2>3. CASE \E t \in Q!Waiting : Q!RecvWait(Task, t)
    BY <2>3 DEF Q!RecvWait, Q!Waiting, Q!IsEmpty
  <2>4. QED
    BY <1>3, <2>1, <2>2, <2>3 DEF Q!Recv
<1>4. ASSUME Q!WakeUp(Task) PROVE MailboxInv'
  BY <1>2, <1>4 DEF Q!WakeUp
<1>5. ASSUME Q!Expire(Task) PROVE MailboxInv'
  BY <1>0, <1>5 DEF Q!Expire, Q!Returns, Q!Codes
<1>6. ASSUME Q!SpuriousWakeUp(Task) PROVE MailboxInv'
  BY <1>6 DEF Q!SpuriousWakeUp, Q!Waiting
<1>7. ASSUME Q!Reset(Worker) PROVE MailboxInv'
  BY <1>0, <1>7 DEF Q!Reset, Q!Returns, Q!Codes
<1>8. CASE Q!Delete \/ Q!Create
  BY <1>8 DEF Q!Delete, Q!Create
<1>9. CASE UNCHANGED Q!vars
  BY <1>9 DEF Q!vars
<1>10. QED
  BY <1>1, <1>3, <1>4, <1>5, <1>6, <1>7, <1>8, <1>9
  DEF Q!Next, Q!ReturnUnsignalled

LEMMA MailboxInvariant == Spec => []MailboxInv
<1>1. Q!Init => MailboxInv
  BY SuccOfOne DEF Q!Init, MailboxInv, MailboxType, Asleep, Q!Codes
<1>2. Q!Spec => []MailboxInv
  BY <1>1, MailboxStep, PTL DEF Q!Spec
<1>3. QED
  BY <1>2, MailboxIsQueue, PTL

\* A task asleep on its mailbox has nothing to receive, although the worker
\* resets it behind the task's back and waits may end without a signal.
THEOREM NobodySleepsOnAMessage == Spec => []SleepsOnlyWhenEmpty
<1>1. MailboxInv => SleepsOnlyWhenEmpty
  BY DEF MailboxInv, Asleep, SleepsOnlyWhenEmpty, Q!SleepsOnlyWhenEmpty,
         Q!Waiting, Q!IsEmpty
<1>2. QED
  BY <1>1, MailboxInvariant, PTL

-----------------------------------------------------------------------------
(***************************************************************************)
(* What is taken for an answer.  Not inductive by itself: that the slot at *)
(* head was written since the request began needs the receive that clears  *)
(* the mailbox, and for a task that was woken that nothing is handed over  *)
(* before it has the mutex.                                                *)
(***************************************************************************)
SentOn == {"send", "wait"}
NewInv ==
  /\ rx[Task] # "idle" => pc = "wait"
  /\ ~harsh =>
       /\ pc \in SentOn /\ head # tail => head \notin stale
       /\ rx[Task] = "woken" => hand = Nothing /\ head # tail

\* A message put into the mailbox is not stale.
LEMMA PutIsNew ==
  ASSUME MailboxInv, NewInv, NEW m \in Kinds, Put(m), hand # Nothing,
         hand' = Nothing, UNCHANGED <<harsh, pc>>
  PROVE  NewInv'
<1> USE DEF MailboxInv, MailboxType, Asleep, NewInv, SentOn
<1>1. CASE Q!SendRefused(Worker, m)
  BY <1>1 DEF Put, Q!SendRefused
<1>2. CASE Q!SendAccepted(Worker, m)
  <2>1. /\ tail' = Q!Succ(tail) /\ head' = head /\ Q!Succ(tail) # head
        /\ Q!Signal
    BY <1>2 DEF Q!SendAccepted, Q!IsFull
  <2>2. head = tail /\ tail' # tail
    BY <2>1, SuccOfOne
  <2>3. stale' = stale \ {tail}
    BY <2>2 DEF Put
  <2>4. rx' = rx \/ (Asleep /\ rx' = [rx EXCEPT ![Task] = "woken"])
    BY <2>1 DEF Q!Signal, Q!Waiters, Q!Waiting
  <2>5. harsh \/ rx[Task] # "woken"
    BY <2>2
  <2>6. QED
    BY <2>1, <2>2, <2>3, <2>4, <2>5
<1>3. QED
  BY <1>1, <1>2 DEF Put, Q!Send

LEMMA NewStep == MailboxInv /\ NewInv /\ [Next]_vars => NewInv'
<1> SUFFICES ASSUME MailboxInv, NewInv, [Next]_vars PROVE NewInv'
  OBVIOUS
<1> USE DEF MailboxInv, MailboxType, Asleep, NewInv, SentOn
<1>1. CASE Gather
  BY <1>1 DEF Gather, InTime, mailbox, port
<1>2. CASE HandOver
  BY <1>2, PutIsNew DEF HandOver, port, Kinds, Nothing
<1>3. CASE ResetForData
  BY <1>3 DEF ResetForData, Q!Reset, port, Nothing
<1>4. CASE SendData
  BY <1>4, PutIsNew DEF SendData, port, Kinds, Nothing
<1>5. CASE Reading \/ OtherPort \/ OtherStarts
  BY <1>5 DEF Reading, OtherPort, OtherStarts, mailbox, port, bus
<1>6. CASE \E v \in Vars : AskMeter(v) \/ StartSample(v) \/ ReadOnly(v)
  BY <1>6 DEF AskMeter, StartSample, ReadOnly, mailbox, port, bus
<1>7. CASE Clear
  <2>1. CASE Q!RecvNow(Task)
    <3>1. /\ head # tail /\ head' = Q!Succ(head) /\ tail' = tail
          /\ rx' = [rx EXCEPT ![Task] = "idle"]
      BY <2>1 DEF Q!RecvNow, Q!IsEmpty, Q!TakeSlot
    <3>2. head' = tail'
      BY <3>1, SuccOfOne
    <3>3. QED
      BY <1>7, <3>1, <3>2 DEF Clear, port, bus
  <2>2. CASE Q!RecvPoll(Task)
    BY <1>7, <2>2 DEF Clear, Q!RecvPoll, Q!IsEmpty, port, bus
  <2>3. QED
    BY <1>7, <2>1, <2>2 DEF Clear, ReceiveNoWait
<1>8. CASE SendRequest
  BY <1>8 DEF SendRequest, mailbox, port
<1>9. CASE Receive
  <2>1. Q!TakeSlot(Task)
    BY <1>9 DEF Receive, Q!RecvNow, Q!WakeUp
  <2>2. harsh \/ head # tail
    BY <1>9 DEF Receive, Q!RecvNow, Q!WakeUp, Q!IsEmpty
  <2>3. harsh' = harsh /\ rx'[Task] = "idle" /\ head' = Q!Succ(head) /\ tail' = tail
    BY <1>9, <2>1 DEF Receive, Q!TakeSlot, port
  <2>4. QED
    BY <2>2, <2>3, SuccOfOne
<1>10. CASE Wait
  BY <1>10 DEF Wait, Q!RecvWait, Timeout, port, bus
<1>11. CASE GiveUp
  BY <1>11 DEF GiveUp, Q!Expire, AfterWait, port, bus
<1>12. CASE SpuriousReturn
  BY <1>12 DEF SpuriousReturn, Q!SpuriousWakeUp, Q!Waiting, port, bus
<1>13. CASE ReadData
  BY <1>13 DEF ReadData, ReceiveNoWait, Q!RecvNow, Q!RecvPoll, Q!TakeSlot, port, bus
<1>14. CASE UNCHANGED vars
  BY <1>14 DEF vars, mailbox, port, bus
<1>15. QED
  BY <1>1, <1>2, <1>3, <1>4, <1>5, <1>6, <1>7, <1>8, <1>9, <1>10, <1>11, <1>12,
     <1>13, <1>14
  DEF Next, TaskNext, WorkerNext

\* Unless the system is harsh, what the task takes for the answer came to the
\* mailbox after its request began, whatever late answers and readings come.
THEOREM AnswersAreNew == Spec => AnswerIsNew
<1> DEFINE IsNew == ~harsh /\ pc = "wait" /\ pc' # "wait" /\ ret'[Task] = "ok"
                      => head \notin stale
<1>1. Init => NewInv
  BY DEF Init, Q!Init, NewInv, SentOn
<1>2. MailboxInv /\ NewInv /\ [Next]_vars => IsNew
  <2> SUFFICES ASSUME MailboxInv, NewInv, [Next]_vars, ~harsh, pc = "wait",
                      pc' # "wait", ret'[Task] = "ok"
               PROVE  head \notin stale
    OBVIOUS
  <2>1. Receive \/ GiveUp
    BY DEF Next, TaskNext, WorkerNext, Gather, HandOver, ResetForData, SendData,
       Reading, OtherPort, OtherStarts, AskMeter, StartSample, ReadOnly, Clear, SendRequest,
       Wait, SpuriousReturn, ReadData, vars
  <2>2. CASE GiveUp
    BY <2>2 DEF GiveUp, Q!Expire, Q!Returns, MailboxInv, MailboxType, Q!Codes
  <2>3. CASE Receive
    BY <2>3 DEF Receive, Q!RecvNow, Q!WakeUp, Q!IsEmpty, NewInv, SentOn
  <2>4. QED
    BY <2>1, <2>2, <2>3
<1>3. Spec => []NewInv
  BY <1>1, NewStep, MailboxInvariant, PTL DEF Spec
<1>4. MailboxInv /\ NewInv /\ [Next]_vars => [IsNew]_vars
  BY <1>2
<1>5. QED
  <2>1. Spec => [][IsNew]_vars
    BY <1>3, <1>4, MailboxInvariant, PTL DEF Spec
  <2>2. QED
    BY <2>1 DEF AnswerIsNew

-----------------------------------------------------------------------------
(***************************************************************************)
(* The radio: where its threads can be, and who has which mutex.           *)
(***************************************************************************)
PollerPlaces == {"idle", "enter", "dst", "send"}
GatewayPlaces == {"idle", "enter", "dst", "remember"}
WebPlaces == {"idle", "set", "reset"}
ParserPlaces == {"recv", "answer", "store", "rssi", "master", "after", "broad",
                 "single", "check"}
Places == PollerPlaces \cup GatewayPlaces \cup WebPlaces \cup ParserPlaces

PlacesOK ==
  /\ place \in [Threads -> Places]
  /\ \A p \in Pollers : place[p] \in PollerPlaces
  /\ place[Gateway] \in GatewayPlaces
  /\ place[Web] \in WebPlaces
  /\ place[Parser] \in ParserPlaces
  /\ from \in [{Parser, Gateway} -> Listed \cup {None}]
  /\ place[Parser] = "store" => from[Parser] \in Listed
  /\ place[Gateway] # "idle" => from[Gateway] \in Nodes

\* How often a thread at a place has taken s_zgb_mutex.
LevelAt(where) ==
  IF where \in {"dst", "set", "master"} THEN 1
  ELSE IF where \in {"rssi", "broad", "single"} THEN 2 ELSE 0

\* s_zgb_mutex is with the thread that is in a command, which has counted
\* s_zgb_incmd_hold up as often as it will count it down.
ZgbMutexOK ==
  /\ zgbOwner \in Threads \cup {None}
  /\ \A t \in Threads : (zgbOwner = t) <=> (LevelAt(place[t]) > 0)
  /\ hold = IF zgbOwner = None THEN 0 ELSE LevelAt(place[zgbOwner])

\* s_zgb_std_mutex is with the poller in zgb_set_dst_node.
StdMutexOK ==
  /\ stdOwner \in Pollers \cup {None}
  /\ \A p \in Pollers : (stdOwner = p) <=> (place[p] \in {"enter", "dst"})

\* An end device knows nobody with a slave and polls nobody by radio.
RolesOK ==
  /\ role = "end" => /\ online \subseteq {Master}
                     /\ \A p \in Pollers : place[p] = "idle"
                     /\ place[Parser] # "store"
  /\ role # "end" => place[Parser] \notin {"answer", "rssi", "master"}

ThreadsOK == PlacesOK /\ ZgbMutexOK /\ StdMutexOK /\ RolesOK

LEMMA ThreadsDiffer ==
  /\ Parser # Gateway /\ Parser # Web /\ Gateway # Web
  /\ Pollers \cap {Parser, Gateway, Web} = {} /\ None \notin Threads
  /\ Pollers \cup {Parser, Gateway, Web} \subseteq Threads
  /\ None \notin Listed /\ Nodes \subseteq Listed /\ Master \in Listed
BY ZigbeeAssumption DEF Parser, Gateway, Web, Threads, None, Listed

\* sZigbeeEnterConfigMode by a thread that is in no command.
LEMMA EnterKeepsMutex ==
  ASSUME ZgbMutexOK, place \in [Threads -> Places], NEW t \in Threads,
         LevelAt(place[t]) = 0, NEW n \in {1, 2}, EnterConfigMode(t, n),
         NEW to, LevelAt(to) = n, Goto(t, to)
  PROVE  ZgbMutexOK'
<1>1. zgbOwner # t /\ zgbOwner = None /\ hold = 0
  BY DEF ZgbMutexOK, EnterConfigMode
<1>2. zgbOwner' = t /\ hold' = n
  BY <1>1 DEF EnterConfigMode
<1>3. place' = [place EXCEPT ![t] = to] /\ place'[t] = to
  BY DEF Goto
<1>4. ASSUME NEW u \in Threads PROVE (zgbOwner' = u) <=> (LevelAt(place'[u]) > 0)
  <2>1. CASE u = t
    BY <1>2, <1>3, <2>1
  <2>2. CASE u # t
    BY <1>1, <1>2, <1>3, <2>2, ThreadsDiffer DEF ZgbMutexOK
  <2>3. QED
    BY <2>1, <2>2
<1>5. QED
  BY <1>2, <1>3, <1>4, ThreadsDiffer DEF ZgbMutexOK

\* sZigbeeExitConfigMode, n times, by a thread in a command.
LEMMA ExitKeepsMutex ==
  ASSUME ZgbMutexOK, place \in [Threads -> Places], NEW t \in Threads,
         NEW n \in {1, 2}, ExitConfigMode(n),
         NEW to, LevelAt(place[t]) = LevelAt(to) + n, Goto(t, to)
  PROVE  ZgbMutexOK'
<1>0. LevelAt(to) \in {0, 1, 2}
  BY DEF LevelAt
<1>1. zgbOwner = t /\ hold = LevelAt(to) + n
  BY <1>0, ThreadsDiffer DEF ZgbMutexOK
<1>2. hold' = LevelAt(to) /\ zgbOwner' = IF LevelAt(to) = 0 THEN None ELSE t
  BY <1>0, <1>1 DEF ExitConfigMode
<1>3. place' = [place EXCEPT ![t] = to] /\ place'[t] = to
  BY DEF Goto
<1>4. ASSUME NEW u \in Threads PROVE (zgbOwner' = u) <=> (LevelAt(place'[u]) > 0)
  <2>1. CASE u = t
    BY <1>0, <1>2, <1>3, <2>1, ThreadsDiffer
  <2>2. CASE u # t
    BY <1>1, <1>2, <1>3, <2>2, ThreadsDiffer DEF ZgbMutexOK
  <2>3. QED
    BY <2>1, <2>2
<1>5. QED
  BY <1>0, <1>2, <1>3, <1>4, ThreadsDiffer DEF ZgbMutexOK

\* A step that neither enters nor exits.
LEMMA StayKeepsMutex ==
  ASSUME ZgbMutexOK, place \in [Threads -> Places], NEW t \in Threads,
         UNCHANGED <<zgbOwner, hold>>,
         NEW to, LevelAt(to) = LevelAt(place[t]), Goto(t, to)
  PROVE  ZgbMutexOK'
<1>1. place' = [place EXCEPT ![t] = to] /\ place'[t] = to
  BY DEF Goto
<1>2. \A u \in Threads : LevelAt(place'[u]) = LevelAt(place[u])
  BY <1>1
<1>3. QED
  BY <1>2 DEF ZgbMutexOK

\* A step of a poller touches no other thread's place.
LEMMA PollerMoves ==
  ASSUME PlacesOK, NEW p \in Pollers, NEW to \in PollerPlaces, Goto(p, to),
         UNCHANGED from
  PROVE  /\ PlacesOK'
         /\ place'[p] = to /\ \A t \in Threads \ {p} : place'[t] = place[t]
<1>1. p \in Threads /\ p \notin {Parser, Gateway, Web}
  BY ThreadsDiffer
<1>2. \A t \in Threads : place'[t] = IF t = p THEN to ELSE place[t]
  BY <1>1 DEF Goto, PlacesOK
<1>3. place' \in [Threads -> Places]
  BY <1>1 DEF Goto, PlacesOK, Places
<1>4. QED
  BY <1>1, <1>2, <1>3, ThreadsDiffer DEF PlacesOK

\* Nor does one of another thread, which leaves all pollers where they are.
LEMMA OtherMoves ==
  ASSUME PlacesOK, NEW t \in {Parser, Gateway, Web}, NEW to \in Places, Goto(t, to)
  PROVE  /\ place' \in [Threads -> Places]
         /\ place'[t] = to /\ \A u \in Threads \ {t} : place'[u] = place[u]
         /\ \A p \in Pollers : place'[p] = place[p]
<1>1. t \in Threads /\ t \notin Pollers
  BY ThreadsDiffer
<1>2. QED
  BY <1>1, ThreadsDiffer DEF Goto, PlacesOK

LEMMA PollerKeepsStd ==
  ASSUME PlacesOK, StdMutexOK, NEW p \in Pollers, NEW to \in PollerPlaces,
         \A t \in Threads \ {p} : place'[t] = place[t], place'[p] = to,
         stdOwner \in {None, p} \/ stdOwner' = stdOwner,
         stdOwner' = IF to \in {"enter", "dst"} THEN p
                     ELSE IF stdOwner = p THEN None ELSE stdOwner
  PROVE  StdMutexOK'
<1>1. \A q \in Pollers : q \in Threads /\ q # None
  BY ThreadsDiffer
<1>2. QED
  BY <1>1 DEF StdMutexOK

LEMMA OthersKeepStd ==
  ASSUME StdMutexOK, \A p \in Pollers : place'[p] = place[p], UNCHANGED stdOwner
  PROVE  StdMutexOK'
BY DEF StdMutexOK

USE DEF moduleVars, queueVars, lockVars

\* What the threads do with their places and the mutexes, one by one.
LEMMA PollerKeepsThreads ==
  ASSUME TypeOK, ThreadsOK, NEW p \in Pollers, PollerNext(p)
  PROVE  ThreadsOK'
<1>0. /\ p \in Threads /\ p \notin {Parser, Gateway, Web} /\ p # None
      /\ Target(p) \in Nodes
  BY ThreadsDiffer, ZigbeeAssumption DEF TypeOK, Target
<1>1. role = "end" => Target(p) \notin online
  BY <1>0, ZigbeeAssumption DEF ThreadsOK, RolesOK
<1>2. ASSUME NEW to \in PollerPlaces, Goto(p, to), UNCHANGED <<from, role, online>>,
             role = "end" => to = "idle"
      PROVE  /\ PlacesOK' /\ RolesOK'
             /\ place'[p] = to /\ \A t \in Threads \ {p} : place'[t] = place[t]
  <2>1. /\ PlacesOK' /\ place'[p] = to
        /\ \A t \in Threads \ {p} : place'[t] = place[t]
    BY <1>2, PollerMoves DEF ThreadsOK
  <2>2. RolesOK'
    BY <1>0, <1>2, <2>1, ThreadsDiffer DEF ThreadsOK, RolesOK
  <2>3. QED
    BY <2>1, <2>2
<1>3. CASE Lookup(p) /\ UNCHANGED place
  BY <1>0, <1>3 DEF Lookup, Goto, ThreadsOK, PlacesOK, ZgbMutexOK, StdMutexOK, RolesOK
<1>4. CASE Lookup(p) /\ Goto(p, "send")
  <2>1. /\ place[p] = "idle" /\ stdOwner = None /\ role # "end"
        /\ UNCHANGED <<zgbOwner, hold, from, role, online, stdOwner>>
    BY <1>0, <1>1, <1>4 DEF Lookup, Goto, ThreadsOK, PlacesOK
  <2>2. PlacesOK' /\ RolesOK'
    BY <1>2, <1>4, <2>1 DEF PollerPlaces
  <2>3. ZgbMutexOK'
    BY <1>0, <1>4, <2>1, StayKeepsMutex DEF ThreadsOK, PlacesOK, LevelAt
  <2>4. StdMutexOK'
    BY <1>0, <1>2, <1>4, <2>1, PollerKeepsStd DEF ThreadsOK, PollerPlaces
  <2>5. QED
    BY <2>2, <2>3, <2>4 DEF ThreadsOK
<1>5. CASE Lookup(p) /\ Goto(p, "enter")
  <2>1. /\ place[p] = "idle" /\ stdOwner = None /\ stdOwner' = p /\ role # "end"
        /\ UNCHANGED <<zgbOwner, hold, from, role, online>>
    BY <1>0, <1>1, <1>5 DEF Lookup, Goto, ThreadsOK, PlacesOK
  <2>2. PlacesOK' /\ RolesOK'
    BY <1>2, <1>5, <2>1 DEF PollerPlaces
  <2>3. ZgbMutexOK'
    BY <1>0, <1>5, <2>1, StayKeepsMutex DEF ThreadsOK, PlacesOK, LevelAt
  <2>4. StdMutexOK'
    BY <1>0, <1>2, <1>5, <2>1, PollerKeepsStd DEF ThreadsOK, PollerPlaces
  <2>5. QED
    BY <2>2, <2>3, <2>4 DEF ThreadsOK
<1>6. CASE PollerAsks(p)
  <2>1. /\ place[p] = "enter" /\ stdOwner = p /\ role # "end"
        /\ UNCHANGED <<stdOwner, from, role, online>>
        /\ EnterConfigMode(p, 1) /\ Goto(p, "dst")
    BY <1>0, <1>6 DEF PollerAsks, AskDst, ThreadsOK, StdMutexOK, RolesOK
  <2>2. PlacesOK' /\ RolesOK'
    BY <1>2, <2>1 DEF PollerPlaces
  <2>3. ZgbMutexOK'
    BY <1>0, <2>1, EnterKeepsMutex DEF ThreadsOK, PlacesOK, LevelAt
  <2>4. StdMutexOK'
    BY <1>0, <1>2, <2>1, PollerKeepsStd DEF ThreadsOK, PollerPlaces
  <2>5. QED
    BY <2>2, <2>3, <2>4 DEF ThreadsOK
<1>7. CASE PollerAnswered(p)
  <2>1. PICK to \in {"send", "idle"} : Goto(p, to)
    BY <1>7 DEF PollerAnswered
  <2>2. /\ place[p] = "dst" /\ stdOwner = p /\ stdOwner' = None /\ role # "end"
        /\ UNCHANGED <<from, role, online>> /\ ExitConfigMode(1)
    BY <1>0, <1>7 DEF PollerAnswered, ThreadsOK, StdMutexOK, RolesOK
  <2>3. PlacesOK' /\ RolesOK'
    BY <1>2, <2>1, <2>2 DEF PollerPlaces
  <2>4. ZgbMutexOK'
    BY <1>0, <2>1, <2>2, ExitKeepsMutex DEF ThreadsOK, PlacesOK, LevelAt
  <2>5. StdMutexOK'
    BY <1>0, <1>2, <2>1, <2>2, PollerKeepsStd DEF ThreadsOK, PollerPlaces
  <2>6. QED
    BY <2>3, <2>4, <2>5 DEF ThreadsOK
<1>8. CASE SendToNode(p)
  <2>1. /\ place[p] = "send" /\ Goto(p, "idle")
        /\ UNCHANGED <<stdOwner, zgbOwner, hold, from, role, online>>
    BY <1>8 DEF SendToNode
  <2>2. PlacesOK' /\ RolesOK'
    BY <1>2, <2>1 DEF PollerPlaces
  <2>3. ZgbMutexOK'
    BY <1>0, <2>1, StayKeepsMutex DEF ThreadsOK, PlacesOK, LevelAt
  <2>4. stdOwner # p
    BY <2>1 DEF ThreadsOK, StdMutexOK
  <2>5. StdMutexOK'
    BY <1>0, <1>2, <2>1, <2>4, PollerKeepsStd DEF ThreadsOK, PollerPlaces
  <2>6. QED
    BY <2>2, <2>3, <2>5 DEF ThreadsOK
<1>9. Lookup(p) => UNCHANGED place \/ Goto(p, "send") \/ Goto(p, "enter")
  BY DEF Lookup
<1>10. QED
  BY <1>3, <1>4, <1>5, <1>6, <1>7, <1>8, <1>9 DEF PollerNext

LEMMA GatewayKeepsThreads == TypeOK /\ ThreadsOK /\ GatewayNext => ThreadsOK'
<1> SUFFICES ASSUME TypeOK, ThreadsOK, GatewayNext PROVE ThreadsOK'
  OBVIOUS
<1>1. Gateway \in Threads /\ PlacesOK /\ ZgbMutexOK /\ StdMutexOK /\ RolesOK
  BY ThreadsDiffer DEF ThreadsOK
<1>2. ASSUME NEW to \in GatewayPlaces, Goto(Gateway, to),
             UNCHANGED <<role, online, stdOwner>>,
             from' \in [{Parser, Gateway} -> Listed \cup {None}],
             from'[Parser] = from[Parser], to # "idle" => from'[Gateway] \in Nodes,
             ZgbMutexOK'
      PROVE  ThreadsOK'
  <2>1. /\ place' \in [Threads -> Places] /\ place'[Gateway] = to
        /\ \A u \in Threads \ {Gateway} : place'[u] = place[u]
        /\ \A p \in Pollers : place'[p] = place[p]
    BY <1>1, <1>2, OtherMoves DEF Places
  <2>2. PlacesOK'
    BY <1>1, <1>2, <2>1, ThreadsDiffer DEF PlacesOK
  <2>3. StdMutexOK' /\ RolesOK'
    BY <1>1, <1>2, <2>1, OthersKeepStd, ThreadsDiffer DEF RolesOK
  <2>4. QED
    BY <1>2, <2>2, <2>3 DEF ThreadsOK
<1>3. ASSUME NEW n \in Nodes, GatewayFinds(n) PROVE ThreadsOK'
  <2>1. from' = [from EXCEPT ![Gateway] = n] /\ Goto(Gateway, "enter")
    BY <1>3 DEF GatewayFinds
  <2>2. ZgbMutexOK'
    BY <1>1, <1>3, <2>1, StayKeepsMutex DEF GatewayFinds, PlacesOK, LevelAt
  <2>3. /\ from' \in [{Parser, Gateway} -> Listed \cup {None}]
        /\ from'[Parser] = from[Parser] /\ from'[Gateway] = n
    BY <1>1, <2>1, ThreadsDiffer DEF PlacesOK
  <2>4. QED
    BY <1>2, <1>3, <2>1, <2>2, <2>3 DEF GatewayFinds, GatewayPlaces
<1>4. CASE GatewayAsks
  <2>1. /\ Goto(Gateway, "dst") /\ place[Gateway] = "enter" /\ EnterConfigMode(Gateway, 1)
        /\ UNCHANGED <<role, online, stdOwner, from>>
    BY <1>4 DEF GatewayAsks, AskDst
  <2>2. ZgbMutexOK'
    BY <1>1, <2>1, EnterKeepsMutex DEF PlacesOK, LevelAt
  <2>3. QED
    BY <1>1, <1>2, <2>1, <2>2 DEF PlacesOK, GatewayPlaces
<1>5. CASE GatewayAnswered
  <2>1. PICK to \in {"remember", "idle"} :
          /\ Goto(Gateway, to)
          /\ IF to = "idle" THEN NoLonger(Gateway) ELSE UNCHANGED from
    BY <1>5 DEF GatewayAnswered
  <2>2. /\ place[Gateway] = "dst" /\ ExitConfigMode(1)
        /\ UNCHANGED <<role, online, stdOwner>>
    BY <1>5 DEF GatewayAnswered
  <2>3. ZgbMutexOK'
    BY <1>1, <2>1, <2>2, ExitKeepsMutex DEF PlacesOK, LevelAt
  <2>4. /\ from' \in [{Parser, Gateway} -> Listed \cup {None}]
        /\ from'[Parser] = from[Parser]
        /\ to # "idle" => from'[Gateway] \in Nodes
    BY <1>1, <2>1, <2>2, ThreadsDiffer DEF PlacesOK, NoLonger
  <2>5. QED
    BY <1>2, <2>1, <2>2, <2>3, <2>4 DEF GatewayPlaces
<1>6. CASE GatewayRemembers
  <2>1. /\ Goto(Gateway, "idle") /\ place[Gateway] = "remember" /\ NoLonger(Gateway)
        /\ UNCHANGED <<zgbOwner, hold, role, online, stdOwner>>
    BY <1>6 DEF GatewayRemembers
  <2>2. ZgbMutexOK'
    BY <1>1, <2>1, StayKeepsMutex DEF PlacesOK, LevelAt
  <2>3. /\ from' \in [{Parser, Gateway} -> Listed \cup {None}]
        /\ from'[Parser] = from[Parser]
    BY <1>1, <2>1, ThreadsDiffer DEF PlacesOK, NoLonger
  <2>4. QED
    BY <1>2, <2>1, <2>2, <2>3 DEF GatewayPlaces
<1>7. QED
  BY <1>3, <1>4, <1>5, <1>6 DEF GatewayNext

LEMMA WebKeepsThreads == TypeOK /\ ThreadsOK /\ WebNext => ThreadsOK'
<1> SUFFICES ASSUME TypeOK, ThreadsOK, WebNext PROVE ThreadsOK'
  OBVIOUS
<1>1. Web \in Threads /\ PlacesOK /\ ZgbMutexOK /\ StdMutexOK /\ RolesOK
  BY ThreadsDiffer DEF ThreadsOK
<1>2. ASSUME NEW to \in WebPlaces, Goto(Web, to),
             UNCHANGED <<role, online, stdOwner, from>>, ZgbMutexOK'
      PROVE  ThreadsOK'
  <2>1. /\ place' \in [Threads -> Places] /\ place'[Web] = to
        /\ \A u \in Threads \ {Web} : place'[u] = place[u]
        /\ \A p \in Pollers : place'[p] = place[p]
    BY <1>1, <1>2, OtherMoves DEF Places
  <2>2. PlacesOK'
    BY <1>1, <1>2, <2>1, ThreadsDiffer DEF PlacesOK
  <2>3. StdMutexOK' /\ RolesOK'
    BY <1>1, <1>2, <2>1, OthersKeepStd, ThreadsDiffer DEF RolesOK
  <2>4. QED
    BY <1>2, <2>2, <2>3 DEF ThreadsOK
<1>3. CASE WebAsks
  <2>1. /\ Goto(Web, "set") /\ place[Web] = "idle" /\ EnterConfigMode(Web, 1)
        /\ UNCHANGED <<role, online, stdOwner, from>>
    BY <1>3 DEF WebAsks
  <2>2. ZgbMutexOK'
    BY <1>1, <2>1, EnterKeepsMutex DEF PlacesOK, LevelAt
  <2>3. QED
    BY <1>2, <2>1, <2>2 DEF WebPlaces
<1>4. CASE WebAnswered
  <2>1. PICK to \in {"reset", "idle"} : Goto(Web, to)
    BY <1>4 DEF WebAnswered
  <2>2. /\ place[Web] = "set" /\ ExitConfigMode(1)
        /\ UNCHANGED <<role, online, stdOwner, from>>
    BY <1>4 DEF WebAnswered
  <2>3. ZgbMutexOK'
    BY <1>1, <2>1, <2>2, ExitKeepsMutex DEF PlacesOK, LevelAt
  <2>4. QED
    BY <1>2, <2>1, <2>2, <2>3 DEF WebPlaces
<1>5. CASE WebResets
  <2>1. /\ Goto(Web, "idle") /\ place[Web] = "reset"
        /\ UNCHANGED <<role, online, zgbOwner, hold, stdOwner, from>>
    BY <1>5 DEF WebResets
  <2>2. ZgbMutexOK'
    BY <1>1, <2>1, StayKeepsMutex DEF PlacesOK, LevelAt
  <2>3. QED
    BY <1>2, <2>1, <2>2 DEF WebPlaces
<1>6. QED
  BY <1>3, <1>4, <1>5 DEF WebNext

LEMMA ParserKeepsThreads == TypeOK /\ ThreadsOK /\ ParserNext => ThreadsOK'
<1> SUFFICES ASSUME TypeOK, ThreadsOK, ParserNext PROVE ThreadsOK'
  OBVIOUS
<1>1. Parser \in Threads /\ PlacesOK /\ ZgbMutexOK /\ StdMutexOK /\ RolesOK
  BY ThreadsDiffer DEF ThreadsOK
<1>2. ASSUME NEW to \in ParserPlaces, Goto(Parser, to), UNCHANGED <<role, stdOwner>>,
             from' \in [{Parser, Gateway} -> Listed \cup {None}],
             from'[Gateway] = from[Gateway],
             to = "store" => from'[Parser] \in Listed,
             IF role = "end" THEN to # "store"
                             ELSE to \notin {"answer", "rssi", "master"},
             online' \subseteq online \/ role # "end" \/ online' = online \cup {Master},
             ZgbMutexOK'
      PROVE  ThreadsOK'
  <2>1. /\ place' \in [Threads -> Places] /\ place'[Parser] = to
        /\ \A u \in Threads \ {Parser} : place'[u] = place[u]
        /\ \A p \in Pollers : place'[p] = place[p]
    BY <1>1, <1>2, OtherMoves DEF Places
  <2>2. PlacesOK'
    BY <1>1, <1>2, <2>1, ThreadsDiffer DEF PlacesOK
  <2>3. RolesOK'
    BY <1>1, <1>2, <2>1 DEF RolesOK
  <2>4. StdMutexOK'
    BY <1>1, <1>2, <2>1, OthersKeepStd
  <2>5. QED
    BY <1>2, <2>2, <2>3, <2>4 DEF ThreadsOK
<1>3. /\ from \in [{Parser, Gateway} -> Listed \cup {None}]
      /\ NoLonger(Parser) => /\ from' \in [{Parser, Gateway} -> Listed \cup {None}]
                             /\ from'[Gateway] = from[Gateway]
  BY <1>1, ThreadsDiffer DEF PlacesOK, NoLonger
<1>4. CASE TakeFrame
  <2>1. PICK to \in {"after", "answer", "store"} :
          /\ Goto(Parser, to)
          /\ to = "answer" => role = "end"
          /\ to = "store" => std # None /\ role # "end"
    BY <1>4, Zenon DEF TakeFrame
  <2>2. /\ place[Parser] = "recv"
        /\ UNCHANGED <<role, zgbOwner, hold, stdOwner, online>>
        /\ from' = [from EXCEPT ![Parser] = IF role = "end" THEN None ELSE std]
    BY <1>4 DEF TakeFrame
  <2>3. ZgbMutexOK'
    BY <1>1, <2>1, <2>2, StayKeepsMutex DEF PlacesOK, LevelAt
  <2>4. /\ from' \in [{Parser, Gateway} -> Listed \cup {None}]
        /\ from'[Gateway] = from[Gateway]
        /\ to = "store" => from'[Parser] \in Listed
    BY <1>1, <2>1, <2>2, ThreadsDiffer DEF PlacesOK, TypeOK
  <2>5. QED
    BY <1>2, <2>1, <2>2, <2>3, <2>4 DEF ParserPlaces
<1>5. CASE Store
  <2>1. /\ place[Parser] = "store" /\ Goto(Parser, "after") /\ role # "end"
        /\ UNCHANGED <<role, zgbOwner, hold, stdOwner>> /\ NoLonger(Parser)
    BY <1>1, <1>5 DEF Store, RolesOK
  <2>2. ZgbMutexOK'
    BY <1>1, <2>1, StayKeepsMutex DEF PlacesOK, LevelAt
  <2>3. QED
    BY <1>2, <1>3, <2>1, <2>2 DEF ParserPlaces
<1>6. CASE AskSignal
  <2>1. /\ place[Parser] = "answer" /\ Goto(Parser, "rssi") /\ role = "end"
        /\ EnterConfigMode(Parser, 2) /\ UNCHANGED <<role, stdOwner, online, from>>
    BY <1>1, <1>6 DEF AskSignal, RolesOK
  <2>2. ZgbMutexOK'
    BY <1>1, <2>1, EnterKeepsMutex DEF PlacesOK, LevelAt
  <2>3. QED
    BY <1>2, <1>3, <2>1, <2>2 DEF ParserPlaces
<1>7. CASE AnswerScan
  <2>1. /\ place[Parser] = "rssi" /\ Goto(Parser, "master") /\ role = "end"
        /\ ExitConfigMode(1) /\ UNCHANGED <<role, stdOwner, online, from>>
    BY <1>1, <1>7 DEF AnswerScan, RolesOK
  <2>2. ZgbMutexOK'
    BY <1>1, <2>1, ExitKeepsMutex DEF PlacesOK, LevelAt
  <2>3. QED
    BY <1>2, <1>3, <2>1, <2>2 DEF ParserPlaces
<1>8. CASE StoreMaster
  <2>1. /\ place[Parser] = "master" /\ Goto(Parser, "after")
        /\ online' = online \cup {Master}
        /\ ExitConfigMode(1) /\ UNCHANGED <<role, stdOwner, from>>
    BY <1>8 DEF StoreMaster, MasterInserted, Inserted
  <2>2. ZgbMutexOK'
    BY <1>1, <2>1, ExitKeepsMutex DEF PlacesOK, LevelAt
  <2>3. QED
    BY <1>2, <1>3, <2>1, <2>2 DEF ParserPlaces
<1>9. CASE Learn
  <2>1. /\ place[Parser] = "after" /\ Goto(Parser, "broad")
        /\ EnterConfigMode(Parser, 2) /\ UNCHANGED <<role, stdOwner, online, from>>
    BY <1>9 DEF Learn
  <2>2. ZgbMutexOK'
    BY <1>1, <2>1, EnterKeepsMutex DEF PlacesOK, LevelAt
  <2>3. QED
    BY <1>2, <1>3, <2>1, <2>2 DEF ParserPlaces
<1>10. CASE Scan
  <2>1. /\ place[Parser] = "broad" /\ Goto(Parser, "single")
        /\ UNCHANGED <<role, zgbOwner, hold, stdOwner, online, from>>
    BY <1>10 DEF Scan
  <2>2. ZgbMutexOK'
    BY <1>1, <2>1, StayKeepsMutex DEF PlacesOK, LevelAt
  <2>3. QED
    BY <1>2, <1>3, <2>1, <2>2 DEF ParserPlaces
<1>11. CASE Learnt
  <2>1. /\ place[Parser] = "single" /\ Goto(Parser, "check")
        /\ ExitConfigMode(2) /\ UNCHANGED <<role, stdOwner, online, from>>
    BY <1>11 DEF Learnt
  <2>2. ZgbMutexOK'
    BY <1>1, <2>1, ExitKeepsMutex DEF PlacesOK, LevelAt
  <2>3. QED
    BY <1>2, <1>3, <2>1, <2>2 DEF ParserPlaces
<1>12. CASE CheckOnline
  <2>1. /\ place[Parser] \in {"after", "check"} /\ Goto(Parser, "recv")
        /\ online' \subseteq online
        /\ UNCHANGED <<role, zgbOwner, hold, stdOwner, from>>
    BY <1>12 DEF CheckOnline
  <2>2. ZgbMutexOK'
    BY <1>1, <2>1, StayKeepsMutex DEF PlacesOK, LevelAt
  <2>3. QED
    BY <1>2, <1>3, <2>1, <2>2 DEF ParserPlaces
<1>13. QED
  BY <1>4, <1>5, <1>6, <1>7, <1>8, <1>9, <1>10, <1>11, <1>12 DEF ParserNext

\* The worker and the surroundings move no thread and take no mutex.
LEMMA OthersKeepThreads ==
  ASSUME ThreadsOK, \/ \E t \in Threads : Discard(t)
                    \/ RouteNext \/ EnvironmentNext \/ UNCHANGED radioVars
  PROVE  ThreadsOK'
<1>1. UNCHANGED <<role, online, place, from, lockVars>>
  BY DEF Discard, RouteNext, RouteAnswer, RouteScan, RouteMerged, EnvironmentNext,
         ScanHeard, Settle, NothingElse, radioVars
<1>2. QED
  BY <1>1 DEF ThreadsOK, PlacesOK, ZgbMutexOK, StdMutexOK, RolesOK

-----------------------------------------------------------------------------
(***************************************************************************)
(* Type correctness.                                                       *)
(***************************************************************************)
LEMMA RepliedType ==
  ASSUME TypeOK, NEW op \in Ops, NEW ok \in BOOLEAN, Replied(op, ok)
  PROVE  reply' \in Seq(Answers) /\ Len(reply') <= ReplyMax
<1>1. [op |-> op, ok |-> ok] \in Answers
  BY DEF Answers
<1>2. QED
  BY <1>1, ZigbeeAssumption DEF TypeOK, Replied

LEMMA OnwardType ==
  ASSUME TypeOK, NEW p \in Pollers, Onward(p) \/ NotOnward
  PROVE  at' \in [Pollers -> 1 .. Len(Chain)]
<1>1. Len(Chain) \in Nat \ {0} /\ at[p] \in Nat
  BY ZigbeeAssumption DEF TypeOK
<1>2. (at[p] % Len(Chain)) + 1 \in 1 .. Len(Chain)
  BY <1>1
<1>3. QED
  BY <1>2 DEF TypeOK, Onward, NotOnward

LEMMA CommandTypes ==
  ASSUME TypeOK, NEW t, NEW op, NEW n \in Nodes
  PROVE  /\ AskDst(t, n) => /\ dst' \in Nodes \cup {Default}
                            /\ reply' \in Seq(Answers) /\ Len(reply') <= ReplyMax
                            /\ slot' \in Answers \cup {Empty}
                            /\ UNCHANGED <<mode, std>>
         /\ Ended(op) => slot' \in Answers \cup {Empty}
<1>1. AskDst(t, n) => \E ok \in BOOLEAN : Replied("dst", ok)
  BY DEF AskDst
<1>2. QED
  BY <1>1, RepliedType DEF Ops, AskDst, EnterConfigMode, TypeOK, Ended, Failed, NoAnswer, Got

\* What TypeOK says beside the mutexes.
RestOK ==
  /\ role \in {"coordinator", "end"}
  /\ line \in {"clean", "settled"} \cup Troubles
  /\ dst \in Nodes \cup {Default} /\ mode \in {"single", "broad"}
  /\ reply \in Seq(Answers) /\ Len(reply) <= ReplyMax
  /\ air \subseteq Listed /\ std \in Listed \cup {None}
  /\ slot \in Answers \cup {Empty}
  /\ usAddr \in Nodes \cup {None}
  /\ online \subseteq Listed
  /\ at \in [Pollers -> 1 .. Len(Chain)]

LEMMA StepTypes == TypeOK /\ ThreadsOK /\ [RadioNext]_radioVars => RestOK'
<1> SUFFICES ASSUME TypeOK, ThreadsOK, [RadioNext]_radioVars PROVE RestOK'
  OBVIOUS
<1>0. \A p \in Pollers : Target(p) \in Nodes
  BY ZigbeeAssumption DEF TypeOK, Target
<1>1. ASSUME NEW p \in Pollers, Lookup(p) \/ SendToNode(p) PROVE RestOK'
  <2>1. at' \in [Pollers -> 1 .. Len(Chain)]
    BY <1>1, OnwardType DEF Lookup, SendToNode
  <2>2. QED
    BY <1>1, <2>1 DEF Lookup, SendToNode, TypeOK, RestOK
<1>2. ASSUME NEW p \in Pollers, PollerAsks(p) PROVE RestOK'
  BY <1>0, <1>2, CommandTypes DEF PollerAsks, TypeOK, RestOK
<1>3. ASSUME NEW p \in Pollers, PollerAnswered(p) PROVE RestOK'
  <2>1. at' \in [Pollers -> 1 .. Len(Chain)]
    BY <1>3, OnwardType DEF PollerAnswered
  <2>2. Ended("dst") /\ usAddr' \in {usAddr, Target(p)}
    BY <1>3 DEF PollerAnswered, Ended, Remembered
  <2>3. QED
    BY <1>0, <1>3, <2>1, <2>2, CommandTypes DEF PollerAnswered, TypeOK, RestOK
<1>4. CASE GatewayNext
  <2>1. ASSUME NEW n \in Nodes, GatewayFinds(n) PROVE RestOK'
    BY <2>1 DEF GatewayFinds, TypeOK, RestOK
  <2>2. CASE GatewayAsks
    <3>1. from[Gateway] \in Nodes
      BY <2>2 DEF GatewayAsks, ThreadsOK, PlacesOK
    <3>2. QED
      BY <2>2, <3>1, CommandTypes DEF GatewayAsks, TypeOK, RestOK
  <2>3. CASE GatewayAnswered
    BY <2>3 DEF GatewayAnswered, Failed, NoAnswer, Got, TypeOK, RestOK
  <2>4. CASE GatewayRemembers
    BY <2>4 DEF GatewayRemembers, Remembered, ThreadsOK, PlacesOK, TypeOK, RestOK
  <2>5. QED
    BY <1>4, <2>1, <2>2, <2>3, <2>4 DEF GatewayNext
<1>5. CASE WebNext
  <2>1. CASE WebAsks
    <3>1. reply' \in Seq(Answers) /\ Len(reply') <= ReplyMax
      BY <2>1, RepliedType DEF WebAsks, Ops
    <3>2. QED
      BY <2>1, <3>1 DEF WebAsks, EnterConfigMode, TypeOK, RestOK
  <2>2. CASE WebAnswered
    BY <2>2 DEF WebAnswered, Failed, NoAnswer, Got, TypeOK, RestOK
  <2>3. CASE WebResets
    BY <2>3 DEF WebResets, ModuleRestarts, TypeOK, RestOK
  <2>4. QED
    BY <1>5, <2>1, <2>2, <2>3 DEF WebNext
<1>6. CASE ParserNext
  <2>0. Master \in Listed
    BY ThreadsDiffer
  <2>1. CASE TakeFrame
    BY <2>1 DEF TakeFrame, TypeOK, RestOK
  <2>2. CASE Store
    BY <2>2 DEF Store, Inserted, ThreadsOK, PlacesOK, TypeOK, RestOK
  <2>3. CASE AskSignal
    <3>1. reply' \in Seq(Answers) /\ Len(reply') <= ReplyMax
      BY <2>3, RepliedType DEF AskSignal, Ops
    <3>2. QED
      BY <2>3, <3>1 DEF AskSignal, EnterConfigMode, TypeOK, RestOK
  <2>4. CASE AnswerScan
    BY <2>4 DEF AnswerScan, Ended, Failed, NoAnswer, Got, TypeOK, RestOK
  <2>5. CASE StoreMaster
    BY <2>0, <2>5 DEF StoreMaster, MasterInserted, Inserted, TypeOK, RestOK
  <2>6. CASE Learn
    <3>1. reply' \in Seq(Answers) /\ Len(reply') <= ReplyMax
      BY <2>6, RepliedType DEF Learn, Ops
    <3>2. QED
      BY <2>6, <3>1 DEF Learn, ScanMode, EnterConfigMode, TypeOK, RestOK
  <2>7. CASE Scan
    <3>1. reply' \in Seq(Answers) /\ Len(reply') <= ReplyMax
      BY <2>7, RepliedType DEF Scan, Ops
    <3>2. PICK answering \in SUBSET HeardBy : air' = air \cup answering
      BY <2>7 DEF Scan
    <3>3. slot' \in Answers \cup {Empty}
      BY <2>7 DEF Scan, Ended, Failed, NoAnswer, Got, TypeOK
    <3>4. QED
      BY <2>7, <3>1, <3>2, <3>3, ThreadsDiffer DEF Scan, HeardBy, TypeOK, RestOK
  <2>8. CASE Learnt
    BY <2>8 DEF Learnt, Ended, Failed, NoAnswer, Got, TypeOK, RestOK
  <2>9. CASE CheckOnline
    BY <2>9 DEF CheckOnline, TypeOK, RestOK
  <2>10. QED
    BY <1>6, <2>1, <2>2, <2>3, <2>4, <2>5, <2>6, <2>7, <2>8, <2>9 DEF ParserNext
<1>7. CASE \E t \in Threads : Discard(t)
  BY <1>7 DEF Discard, OtherAnswer, TypeOK, RestOK
<1>8. CASE RouteNext
  <2>1. reply # <<>> => Head(reply) \in Answers /\ Tail(reply) \in Seq(Answers)
                        /\ Len(Tail(reply)) <= ReplyMax
    BY ZigbeeAssumption DEF TypeOK
  <2>2. CASE RouteAnswer
    BY <2>1, <2>2 DEF RouteAnswer, TypeOK, RestOK
  <2>3. ASSUME NEW n \in Listed, RouteScan(n) \/ RouteMerged(n) PROVE RestOK'
    BY <2>1, <2>3 DEF RouteScan, RouteMerged, TypeOK, RestOK
  <2>4. QED
    BY <1>8, <2>2, <2>3 DEF RouteNext
<1>9. CASE EnvironmentNext
  <2>1. Master \in Listed
    BY ThreadsDiffer
  <2>2. QED
    BY <1>9, <2>1 DEF EnvironmentNext, ScanHeard, Settle, NothingElse, TypeOK, RestOK
<1>10. CASE UNCHANGED radioVars
  BY <1>10 DEF radioVars, TypeOK, RestOK
<1>11. QED
  BY <1>1, <1>2, <1>3, <1>4, <1>5, <1>6, <1>7, <1>8, <1>9, <1>10
  DEF RadioNext, PollerNext

LEMMA RadioInvariant == RadioSpec => [](TypeOK /\ ThreadsOK)
<1>1. RadioInit => TypeOK /\ ThreadsOK
  <2> SUFFICES ASSUME RadioInit PROVE TypeOK /\ ThreadsOK
    OBVIOUS
  <2>1. <<>> \in Seq(Answers) /\ Len(<<>>) = 0
    OBVIOUS
  <2>2. TypeOK
    BY <2>1, ZigbeeAssumption DEF RadioInit, TypeOK
  <2>3. PlacesOK
    BY ThreadsDiffer DEF RadioInit, PlacesOK, Places, PollerPlaces, GatewayPlaces,
                         WebPlaces, ParserPlaces
  <2>4. ZgbMutexOK /\ StdMutexOK /\ RolesOK
    BY ThreadsDiffer DEF RadioInit, ZgbMutexOK, StdMutexOK, RolesOK, LevelAt
  <2>5. QED
    BY <2>2, <2>3, <2>4 DEF ThreadsOK
<1>2. TypeOK /\ ThreadsOK /\ [RadioNext]_radioVars => (TypeOK /\ ThreadsOK)'
  <2> SUFFICES ASSUME TypeOK, ThreadsOK, [RadioNext]_radioVars
               PROVE  (TypeOK /\ ThreadsOK)'
    OBVIOUS
  <2>1. ThreadsOK'
    BY PollerKeepsThreads, GatewayKeepsThreads, WebKeepsThreads, ParserKeepsThreads,
       OthersKeepThreads DEF RadioNext
  <2>2. hold' \in 0 .. 2
    BY <2>1 DEF ThreadsOK, ZgbMutexOK, LevelAt
  <2>3. QED
    BY <2>1, <2>2, StepTypes DEF RestOK, TypeOK, ThreadsOK, ZgbMutexOK, StdMutexOK
<1>3. QED
  BY <1>1, <1>2, PTL DEF RadioSpec

\* The module, the nodes, both mutexes and the threads around them keep their
\* types, whatever the line loses.
THEOREM RadioTypeCorrect == RadioSpec => []TypeOK
BY RadioInvariant, PTL

\* The thread a task waits for at the mutex of the radio is itself in a command,
\* and not waiting for the other mutex, which the task has.
HolderInCommand ==
  \A p \in Pollers : place[p] = "enter" /\ zgbOwner # None => WaitsFor(zgbOwner) # None

\* The two mutexes are taken in both orders, and yet nobody waits for a thread
\* that waits for him: a task comes to the radio only on a coordinator, where
\* nobody who has the radio waits for the list.
THEOREM NoDeadlyEmbrace == RadioSpec => []HolderInCommand
<1>1. ThreadsOK => HolderInCommand
  <2> SUFFICES ASSUME ThreadsOK, NEW p \in Pollers, place[p] = "enter", zgbOwner # None
               PROVE  WaitsFor(zgbOwner) # None
    BY DEF HolderInCommand
  <2>1. zgbOwner \in Threads /\ LevelAt(place[zgbOwner]) > 0 /\ role # "end"
    BY DEF ThreadsOK, ZgbMutexOK, RolesOK
  <2>2. place[zgbOwner] # "master"
    BY <2>1, ThreadsDiffer DEF ThreadsOK, RolesOK, PlacesOK, Threads, PollerPlaces,
                               GatewayPlaces, WebPlaces
  <2>3. QED
    BY <2>1, <2>2 DEF LevelAt, WaitsFor, None
<1>2. QED
  BY <1>1, RadioInvariant, PTL

-----------------------------------------------------------------------------
(***************************************************************************)
(* Where the requests go.  The remembered destination and that of the      *)
(* radio differ while a command is answered; on a clean line the answer    *)
(* that is on its way says which of the two is right.                      *)
(***************************************************************************)
Waits(t) == WaitsFor(t) # None

\* The one answer there is.
Pending(op, ok) ==
  LET a == [op |-> op, ok |-> ok]
  IN  (reply = <<a>> /\ slot = Empty) \/ (reply = <<>> /\ slot = a)

Settled == Pending("dst", TRUE)

\* The thread in a command waits for the answer that is there, and there is no
\* other; gateway and web server ask for nothing.
AnswerInv ==
  /\ place[Gateway] = "idle" /\ place[Web] = "idle"
  /\ \A t \in Threads : Waits(t) => \E ok \in BOOLEAN : Pending(WaitsFor(t), ok)
  /\ (\A t \in Threads : ~Waits(t)) => reply = <<>>

\* The radio has the remembered destination, or the one just asked for.
DstInv ==
  /\ usAddr # None /\ dst # usAddr => \E p \in Pollers : place[p] = "dst" /\ Settled
  /\ \A p \in Pollers : place[p] = "dst" /\ Settled => dst = Target(p)

CleanInv == line = "clean" => AnswerInv /\ DstInv

\* One command at a time.
LEMMA WaiterOwns ==
  ASSUME ThreadsOK
  PROVE  /\ \A t \in Threads : Waits(t) => zgbOwner = t /\ WaitsFor(t) \in Ops
         /\ \A p \in Pollers : place[p] = "dst" => p \in Threads /\ Waits(p)
BY ThreadsDiffer DEF ThreadsOK, ZgbMutexOK, Waits, WaitsFor, LevelAt, Ops, None

\* The end of a wait on a clean line: its answer has come.
LEMMA CleanEnd ==
  ASSUME line = "clean", NEW op \in Ops, NEW ok \in BOOLEAN, Pending(op, ok), Ended(op)
  PROVE  /\ Got(op, ok) /\ ~NoAnswer /\ reply = <<>> /\ slot' = Empty
         /\ \A b \in BOOLEAN : Got(op, b) => b = ok
<1> DEFINE a == [op |-> op, ok |-> ok]
<1>1. a # Empty /\ a.op = op /\ a.ok = ok
  BY DEF Empty, Ops, None
<1>2. <<a>> # <<>>
  OBVIOUS
<1>3. ~NoAnswer
  BY <1>1, <1>2 DEF Pending, NoAnswer
<1>4. PICK b \in BOOLEAN : Got(op, b)
  BY <1>3 DEF Ended, Failed
<1>5. slot = a /\ reply = <<>>
  BY <1>4 DEF Got, Pending
<1>6. QED
  BY <1>1, <1>3, <1>4, <1>5 DEF Got

\* The start of a command when none is in progress.
LEMMA CleanStart ==
  ASSUME reply = <<>>, NEW op \in Ops, NEW ok \in BOOLEAN, Replied(op, ok), slot' = Empty
  PROVE  /\ Pending(op, ok)' /\ reply' # <<>>
         /\ \A o, b : Pending(o, b)' => o = op /\ b = ok
<1>1. reply' = <<[op |-> op, ok |-> ok]>>
  BY ZigbeeAssumption DEF Replied
<1>2. QED
  BY <1>1 DEF Pending

\* A step with no command begun or ended: no thread starts or stops waiting.
LEMMA CleanQuiet ==
  ASSUME ThreadsOK, CleanInv, line = "clean", UNCHANGED <<dst, usAddr>>,
         place'[Gateway] = "idle", place'[Web] = "idle",
         \A o \in Ops : \A b : Pending(o, b)' <=> Pending(o, b),
         reply = <<>> => reply' = <<>>,
         \A t \in Threads : WaitsFor(t)' = WaitsFor(t),
         \A p \in Pollers : place'[p] = "dst" <=> place[p] = "dst",
         \A p \in Pollers : place[p] = "dst" => at'[p] = at[p]
  PROVE  CleanInv'
<1>1. \A t \in Threads : Waits(t) => WaitsFor(t) \in Ops
  BY WaiterOwns
<1>2. /\ \A t \in Threads : Waits(t)' = Waits(t)
      /\ Settled' = Settled
  BY DEF Waits, Settled, Ops, Pending
<1>3. AnswerInv'
  BY <1>1, <1>2 DEF CleanInv, AnswerInv
<1>4. DstInv'
  BY <1>2 DEF CleanInv, DstInv, Target
<1>5. QED
  BY <1>3, <1>4 DEF CleanInv

\* Only thread t moves, from a place where it waits for nothing to another.
LEMMA CleanMove ==
  ASSUME ThreadsOK, CleanInv, line = "clean", UNCHANGED <<dst, usAddr, reply, slot>>,
         NEW t \in Pollers \cup {Parser}, NEW to, Goto(t, to),
         {place[t], to} \cap {"dst", "broad", "single", "rssi", "set"} = {},
         \A p \in Pollers \ {t} : at'[p] = at[p]
  PROVE  CleanInv'
<1>1. /\ t \in Threads /\ t \notin {Gateway, Web}
      /\ \A u \in Threads : place'[u] = IF u = t THEN to ELSE place[u]
      /\ Pollers \cup {Gateway, Web} \subseteq Threads
  BY ThreadsDiffer DEF Goto, ThreadsOK, PlacesOK
<1>2. \A u \in Threads : WaitsFor(u)' = WaitsFor(u)
  BY <1>1 DEF WaitsFor
<1>3. QED
  BY <1>1, <1>2, CleanQuiet DEF Pending, CleanInv, AnswerInv

\* Thread t begins to wait for the answer to the command it has given, after
\* none was awaited.
LEMMA CleanAsked ==
  ASSUME ThreadsOK, AnswerInv, NEW t \in Pollers \cup {Parser},
         \A u \in Threads \ {t} : ~Waits(u), NEW op \in Ops, NEW ok \in BOOLEAN,
         reply = <<>>, Replied(op, ok), slot' = Empty,
         NEW to, Goto(t, to), WaitsFor(t)' = op
  PROVE  /\ AnswerInv' /\ Pending(op, ok)'
         /\ \A o, b : Pending(o, b)' => o = op /\ b = ok
         /\ \A u \in Threads : place'[u] = IF u = t THEN to ELSE place[u]
<1>1. /\ t \in Threads /\ t \notin {Gateway, Web}
      /\ \A u \in Threads : place'[u] = IF u = t THEN to ELSE place[u]
      /\ {Gateway, Web} \subseteq Threads
  BY ThreadsDiffer DEF Goto, ThreadsOK, PlacesOK
<1>2. /\ Pending(op, ok)' /\ reply' # <<>>
      /\ \A o, b : Pending(o, b)' => o = op /\ b = ok
  BY CleanStart
<1>3. \A u \in Threads \ {t} : ~Waits(u)'
  BY <1>1 DEF Waits, WaitsFor
<1>4. Waits(t)'
  BY DEF Waits, Ops, None
<1>5. QED
  BY <1>1, <1>2, <1>3, <1>4 DEF AnswerInv

\* Thread t has taken its answer and waits no longer.
LEMMA CleanAnswered ==
  ASSUME ThreadsOK, AnswerInv, NEW t \in Pollers \cup {Parser}, Waits(t),
         UNCHANGED reply, Ended(WaitsFor(t)), line = "clean",
         NEW to, Goto(t, to), to \notin {"dst", "broad", "single", "rssi", "set"}
  PROVE  /\ AnswerInv'
         /\ \E ok \in BOOLEAN : Pending(WaitsFor(t), ok) /\ Got(WaitsFor(t), ok)
                                /\ \A b \in BOOLEAN : Got(WaitsFor(t), b) => b = ok
         /\ \A o \in Ops : \A b : ~Pending(o, b)'
         /\ ~NoAnswer /\ reply = <<>> /\ slot' = Empty
         /\ \A u \in Threads \ {t} : ~Waits(u)
         /\ \A u \in Threads : place'[u] = IF u = t THEN to ELSE place[u]
<1>1. /\ t \in Threads /\ t \notin {Gateway, Web}
      /\ \A u \in Threads : place'[u] = IF u = t THEN to ELSE place[u]
      /\ {Gateway, Web} \subseteq Threads
  BY ThreadsDiffer DEF Goto, ThreadsOK, PlacesOK
<1>2. WaitsFor(t) \in Ops /\ \A u \in Threads \ {t} : ~Waits(u)
  BY <1>1, WaiterOwns
<1>3. PICK ok \in BOOLEAN : Pending(WaitsFor(t), ok)
  BY <1>1 DEF AnswerInv
<1>4. /\ Got(WaitsFor(t), ok) /\ ~NoAnswer /\ reply = <<>> /\ slot' = Empty
      /\ \A b \in BOOLEAN : Got(WaitsFor(t), b) => b = ok
  BY <1>2, <1>3, CleanEnd
<1>5. \A o \in Ops : \A b : ~Pending(o, b)'
  BY <1>4 DEF Pending, Empty, Ops, None
<1>6. \A u \in Threads : ~Waits(u)'
  BY <1>1, <1>2 DEF Waits, WaitsFor
<1>7. AnswerInv'
  BY <1>1, <1>4, <1>6 DEF AnswerInv
<1>8. QED
  BY <1>1, <1>2, <1>3, <1>4, <1>5, <1>7

LEMMA CleanStep ==
  ASSUME TypeOK, ThreadsOK, ThreadsOK', CleanInv, [RadioNext]_radioVars
  PROVE  CleanInv'
<1> SUFFICES ASSUME line = "clean" PROVE CleanInv'
  <2>1. line' = "clean" => line = "clean"
    BY DEF RadioNext, PollerNext, GatewayNext, WebNext, ParserNext, RouteNext,
           EnvironmentNext, Lookup, PollerAsks, PollerAnswered, SendToNode,
           GatewayFinds, GatewayAsks, GatewayAnswered, GatewayRemembers, WebAsks,
           WebAnswered, WebResets, TakeFrame, Store, AskSignal, AnswerScan,
           StoreMaster, Learn, Scan, Learnt, CheckOnline, Discard, RouteAnswer,
           RouteScan, RouteMerged, ScanHeard, Settle, NothingElse, radioVars
  <2>2. QED
    BY <2>1 DEF CleanInv
<1>0. /\ AnswerInv /\ DstInv
      /\ place[Gateway] = "idle" /\ place[Web] = "idle"
      /\ line \notin Troubles
  BY DEF CleanInv, AnswerInv, Troubles
<1>1. CASE \E p \in Pollers : Lookup(p) \/ SendToNode(p)
  <2>1. PICK p \in Pollers : Lookup(p) \/ SendToNode(p)
    BY <1>1
  <2>2. PICK to : to \in {"idle", "send", "enter"} /\ Goto(p, to)
    BY <2>1, ThreadsDiffer DEF Lookup, SendToNode, Goto, ThreadsOK, PlacesOK
  <2>3. QED
    BY <2>1, <2>2, CleanMove DEF Lookup, SendToNode, Onward, NotOnward, TypeOK
<1>2. ASSUME NEW p \in Pollers, PollerAsks(p) PROVE CleanInv'
  <2>1. zgbOwner = None /\ p \in Threads
    BY <1>2, ThreadsDiffer DEF PollerAsks, AskDst, EnterConfigMode, ThreadsOK, ZgbMutexOK, LevelAt
  <2>2. (\A t \in Threads : ~Waits(t)) /\ \A q \in Pollers : place[q] # "dst"
    BY <2>1, WaiterOwns, ThreadsDiffer
  <2>3. PICK ok \in BOOLEAN : Replied("dst", ok) /\ dst' = IF ok THEN Target(p) ELSE dst
    BY <1>2 DEF PollerAsks, AskDst
  <2>4. reply = <<>> /\ slot' = Empty /\ Goto(p, "dst")
    BY <1>0, <1>2, <2>2 DEF AnswerInv, PollerAsks, AskDst, EnterConfigMode
  <2>5. /\ AnswerInv' /\ Pending("dst", ok)' /\ \A b : Pending("dst", b)' => b = ok
        /\ \A u \in Threads : place'[u] = IF u = p THEN "dst" ELSE place[u]
    <3>1. WaitsFor(p)' = "dst"
      BY <2>1, <2>4 DEF WaitsFor, Goto, ThreadsOK, PlacesOK
    <3>2. QED
      BY <1>0, <2>2, <2>3, <2>4, <3>1, CleanAsked DEF Ops
  <2>6. UNCHANGED <<line, usAddr, at>>
    BY <1>2 DEF PollerAsks
  <2>7. \A q \in Pollers : q \in Threads /\ (place'[q] = "dst" <=> q = p)
    BY <2>2, <2>5, ThreadsDiffer
  <2>8. Settled' <=> ok = TRUE
    BY <2>5 DEF Settled
  <2>9. usAddr # None => dst = usAddr
    BY <1>0, <2>2 DEF DstInv
  <2>10. DstInv'
    BY <2>3, <2>6, <2>7, <2>8, <2>9 DEF DstInv, Target
  <2>11. QED
    BY <2>5, <2>10 DEF CleanInv
<1>3. ASSUME NEW p \in Pollers, PollerAnswered(p) PROVE CleanInv'
  <2>1. place[p] = "dst" /\ Waits(p) /\ p \in Threads /\ WaitsFor(p) = "dst"
    BY <1>3, WaiterOwns DEF PollerAnswered, WaitsFor
  <2>2. PICK to \in {"send", "idle"} :
          /\ Goto(p, to) /\ Ended("dst")
          /\ to = "send" => Got("dst", TRUE)
          /\ to = "idle" => Failed("dst")
          /\ usAddr' = IF to = "send" THEN Target(p) ELSE usAddr
    BY <1>3 DEF PollerAnswered, Ended, Remembered
  <2>3. UNCHANGED <<line, dst, reply>>
    BY <1>3 DEF PollerAnswered
  <2>4. /\ AnswerInv' /\ ~NoAnswer
        /\ \E ok \in BOOLEAN : Pending("dst", ok) /\ \A b \in BOOLEAN : Got("dst", b) => b = ok
        /\ \A u \in Threads \ {p} : ~Waits(u)
        /\ \A u \in Threads : place'[u] = IF u = p THEN to ELSE place[u]
    BY <1>0, <2>1, <2>2, <2>3, CleanAnswered
  <2>5. \A q \in Pollers : q \in Threads /\ (place[q] = "dst" <=> q = p) /\ place'[q] # "dst"
    BY <2>1, <2>4, WaiterOwns, ThreadsDiffer
  <2>6. CASE to = "send"
    <3>1. Settled
      BY <2>2, <2>4, <2>6 DEF Settled
    <3>2. dst = Target(p)
      BY <1>0, <2>1, <3>1 DEF DstInv
    <3>3. QED
      BY <2>2, <2>3, <2>4, <2>5, <2>6, <3>2 DEF DstInv, CleanInv
  <2>7. CASE to = "idle"
    <3>1. PICK ok \in BOOLEAN : Pending("dst", ok) /\ \A b \in BOOLEAN : Got("dst", b) => b = ok
      BY <2>4
    <3>2. ok = FALSE
      BY <2>2, <2>4, <2>7, <3>1 DEF Failed
    <3>3. ~Settled
      BY <3>1, <3>2 DEF Settled, Pending, Empty
    <3>4. QED
      BY <1>0, <2>2, <2>3, <2>4, <2>5, <2>7, <3>3 DEF DstInv, CleanInv
  <2>8. QED
    BY <2>2, <2>6, <2>7
<1>4. CASE GatewayNext \/ WebNext
  BY <1>0, <1>4 DEF GatewayNext, GatewayFinds, GatewayAsks, GatewayAnswered,
     GatewayRemembers, WebNext, WebAsks, WebAnswered, WebResets
<1>5. CASE ParserNext
  <2>0. /\ Parser \in Threads /\ Parser \notin Pollers /\ PlacesOK /\ ZgbMutexOK
        /\ Pollers \subseteq Threads
    BY ThreadsDiffer DEF ThreadsOK
  <2>1. CASE TakeFrame
    <3>1. PICK to \in {"after", "answer", "store"} : Goto(Parser, to)
      BY <2>1, Zenon DEF TakeFrame
    <3>2. QED
      BY <2>1, <3>1, CleanMove DEF TakeFrame
  <2>2. CASE Store
    BY <2>2, CleanMove DEF Store
  <2>3. CASE StoreMaster
    BY <2>3, CleanMove DEF StoreMaster
  <2>4. CASE CheckOnline
    BY <2>4, CleanMove DEF CheckOnline
  <2>5. CASE AskSignal \/ Learn
    <3>1. PICK op \in {"rssi", "mode"} :
            /\ Replied(op, TRUE)
            /\ Goto(Parser, IF op = "rssi" THEN "rssi" ELSE "broad")
      BY <2>5 DEF AskSignal, Learn
    <3>2. /\ place[Parser] \in {"answer", "after"} /\ EnterConfigMode(Parser, 2)
          /\ UNCHANGED <<line, dst, usAddr, at>>
      BY <2>5 DEF AskSignal, Learn
    <3>3. zgbOwner = None
      BY <2>0, <3>2 DEF EnterConfigMode, ZgbMutexOK, LevelAt
    <3>4. \A u \in Threads : ~Waits(u)
      BY <3>3, WaiterOwns, ThreadsDiffer
    <3>5. reply = <<>> /\ slot' = Empty
      BY <1>0, <3>2, <3>4 DEF AnswerInv, EnterConfigMode
    <3>6. WaitsFor(Parser)' = op
      BY <2>0, <3>1 DEF WaitsFor, Goto, PlacesOK
    <3>7. /\ AnswerInv'
          /\ \A p \in Pollers : place'[p] = place[p]
      BY <1>0, <2>0, <3>1, <3>4, <3>5, <3>6, CleanAsked DEF Ops
    <3>8. \A p \in Pollers : place[p] # "dst"
      BY <3>4, WaiterOwns
    <3>9. DstInv'
      BY <1>0, <3>2, <3>7, <3>8 DEF DstInv
    <3>10. QED
      BY <3>7, <3>9 DEF CleanInv
  <2>6. CASE AnswerScan \/ Learnt
    <3>1. PICK to \in {"master", "check"} : Goto(Parser, to)
      BY <2>6 DEF AnswerScan, Learnt
    <3>2. /\ place[Parser] \in {"rssi", "single"} /\ Ended(WaitsFor(Parser))
          /\ UNCHANGED <<line, dst, usAddr, at, reply>>
      BY <2>6 DEF AnswerScan, Learnt, WaitsFor
    <3>3. Waits(Parser)
      BY <3>2 DEF Waits, WaitsFor, None
    <3>4. /\ AnswerInv'
          /\ \A p \in Pollers : place'[p] = place[p] /\ ~Waits(p)
      BY <1>0, <2>0, <3>1, <3>2, <3>3, CleanAnswered
    <3>5. \A p \in Pollers : place[p] # "dst"
      BY <3>4, WaiterOwns
    <3>6. DstInv'
      BY <1>0, <3>2, <3>4, <3>5 DEF DstInv
    <3>7. QED
      BY <3>4, <3>6 DEF CleanInv
  <2>7. CASE Scan
    <3>1. /\ place[Parser] = "broad" /\ Goto(Parser, "single") /\ Ended("mode")
          /\ Replied("mode", TRUE) /\ UNCHANGED <<line, dst, usAddr, at>>
      BY <2>7 DEF Scan
    <3>2. Waits(Parser) /\ WaitsFor(Parser) = "mode" /\ WaitsFor(Parser)' = "mode"
      BY <2>0, <3>1 DEF Waits, WaitsFor, None, Goto, PlacesOK
    <3>3. \A u \in Threads \ {Parser} : ~Waits(u)
      BY <2>0, <3>2, WaiterOwns
    <3>4. PICK ok \in BOOLEAN : Pending("mode", ok)
      BY <1>0, <2>0, <3>2 DEF AnswerInv
    <3>5. reply = <<>> /\ slot' = Empty
      BY <3>1, <3>4, CleanEnd DEF Ops
    <3>6. /\ AnswerInv'
          /\ \A p \in Pollers : place'[p] = place[p]
      BY <1>0, <2>0, <3>1, <3>2, <3>3, <3>5, CleanAsked DEF Ops
    <3>7. \A p \in Pollers : place[p] # "dst"
      BY <2>0, <3>3, WaiterOwns
    <3>8. DstInv'
      BY <1>0, <3>1, <3>6, <3>7 DEF DstInv
    <3>9. QED
      BY <3>6, <3>8 DEF CleanInv
  <2>8. QED
    BY <1>5, <2>1, <2>2, <2>3, <2>4, <2>5, <2>6, <2>7 DEF ParserNext
<1>6. ASSUME NEW t \in Threads, Discard(t) PROVE CleanInv'
  <2>1. /\ Waits(t) /\ slot # Empty /\ slot.op # WaitsFor(t)
    BY <1>6 DEF Discard, OtherAnswer, Waits
  <2>2. PICK ok \in BOOLEAN : Pending(WaitsFor(t), ok)
    BY <1>0, <2>1 DEF AnswerInv
  <2>3. QED
    BY <2>1, <2>2 DEF Pending
<1>7. CASE RouteAnswer
  <2>1. reply # <<>> /\ reply' = Tail(reply)
        /\ UNCHANGED <<line, dst, usAddr, place, at, hold, zgbOwner>>
    BY <1>7 DEF RouteAnswer
  <2>2. PICK t \in Threads : Waits(t)
    BY <1>0, <2>1 DEF AnswerInv
  <2>3. PICK ok \in BOOLEAN : Pending(WaitsFor(t), ok)
    BY <1>0, <2>2 DEF AnswerInv
  <2>4. reply = <<[op |-> WaitsFor(t), ok |-> ok]>> /\ slot = Empty
    BY <2>1, <2>3 DEF Pending
  <2>5. InCmd
    BY <2>2, WaiterOwns, ThreadsDiffer DEF InCmd, ThreadsOK, ZgbMutexOK, LevelAt
  <2>6. reply' = <<>> /\ slot' = [op |-> WaitsFor(t), ok |-> ok]
    BY <1>7, <2>1, <2>4, <2>5 DEF RouteAnswer
  <2>7. \A o \in Ops : \A b : Pending(o, b)' <=> Pending(o, b)
    BY <2>4, <2>6 DEF Pending, Empty, Ops, None
  <2>8. QED
    BY <1>0, <2>1, <2>6, <2>7, CleanQuiet DEF WaitsFor
<1>8. ASSUME NEW n \in Listed, RouteScan(n) \/ RouteMerged(n) PROVE CleanInv'
  BY <1>0, <1>8, CleanQuiet DEF RouteScan, RouteMerged, WaitsFor, Pending
<1>9. CASE EnvironmentNext
  BY <1>0, <1>9, CleanQuiet DEF EnvironmentNext, ScanHeard, Settle, NothingElse, WaitsFor, Pending
<1>10. CASE UNCHANGED radioVars
  BY <1>0, <1>10, CleanQuiet DEF radioVars, WaitsFor, Pending
<1>11. QED
  BY <1>1, <1>2, <1>3, <1>4, <1>5, <1>6, <1>7, <1>8, <1>9, <1>10
  DEF RadioNext, PollerNext, RouteNext

\* On a clean line a request is sent when the radio has its node for its
\* destination, whatever the other threads set in between.
THEOREM RequestsGoToTheirNode == RadioSpec => DestinationSet
<1>1. RadioInit => CleanInv
  BY ThreadsDiffer DEF RadioInit, CleanInv, AnswerInv, DstInv, Waits, WaitsFor, None
<1>2. ASSUME TypeOK, ThreadsOK, CleanInv, [RadioNext]_radioVars
      PROVE  \A p \in Pollers :
               line = "clean" /\ place[p] # "send" /\ place'[p] = "send" => dst' = Target(p)
  <2> SUFFICES ASSUME NEW p \in Pollers, line = "clean", place[p] # "send",
                      place'[p] = "send"
               PROVE  dst' = Target(p)
    OBVIOUS
  <2>1. /\ p \in Threads /\ Target(p) \in Nodes /\ None \notin Nodes
        /\ Gateway # p /\ Web # p /\ Parser # p
        /\ PlacesOK /\ ZgbMutexOK /\ StdMutexOK
    BY <1>2, ThreadsDiffer, ZigbeeAssumption DEF TypeOK, Target, ThreadsOK, None
  <2>2. Lookup(p) \/ PollerAnswered(p)
    <3>1. ASSUME NEW q \in Pollers, PollerNext(q), q # p PROVE place'[p] = place[p]
      BY <2>1, <3>1 DEF PollerNext, Lookup, PollerAsks, AskDst, PollerAnswered,
         SendToNode, Goto, PlacesOK
    <3>2. ~PollerAsks(p) /\ ~SendToNode(p)
      BY <2>1 DEF PollerAsks, AskDst, SendToNode, Goto, PlacesOK
    <3>3. GatewayNext \/ WebNext => place'[p] = place[p]
      BY <2>1 DEF GatewayNext, GatewayFinds, GatewayAsks, AskDst, GatewayAnswered,
         GatewayRemembers, WebNext, WebAsks, WebAnswered, WebResets, Goto, PlacesOK
    <3>4. ParserNext => place'[p] = place[p]
      BY <2>1 DEF ParserNext, TakeFrame, Store, AskSignal, AnswerScan, StoreMaster,
         Learn, Scan, Learnt, CheckOnline, Goto, PlacesOK
    <3>5. (\E t \in Threads : Discard(t)) \/ RouteNext \/ EnvironmentNext => place'[p] = place[p]
      BY DEF Discard, RouteNext, RouteAnswer, RouteScan, RouteMerged,
         EnvironmentNext, ScanHeard, Settle, NothingElse
    <3>6. QED
      BY <1>2, <3>1, <3>2, <3>3, <3>4, <3>5 DEF RadioNext, PollerNext, radioVars
  <2>3. CASE Lookup(p)
    <3>1. stdOwner = None /\ usAddr = Target(p) /\ dst' = dst
      BY <2>1, <2>3 DEF Lookup, AlreadySet, Goto, PlacesOK, moduleVars
    <3>2. \A q \in Pollers : place[q] # "dst"
      BY <2>1, <3>1, ThreadsDiffer DEF StdMutexOK
    <3>3. QED
      BY <1>2, <2>1, <3>1, <3>2 DEF CleanInv, DstInv
  <2>4. CASE PollerAnswered(p)
    <3>1. place[p] = "dst" /\ Got("dst", TRUE) /\ dst' = dst
      BY <2>1, <2>4 DEF PollerAnswered, Goto, PlacesOK, moduleVars
    <3>2. Waits(p) /\ WaitsFor(p) = "dst"
      BY <1>2, <2>1, <3>1, WaiterOwns DEF WaitsFor
    <3>3. PICK ok \in BOOLEAN : Pending("dst", ok)
      BY <1>2, <2>1, <3>2 DEF CleanInv, AnswerInv
    <3>4. ok = TRUE
      BY <3>1, <3>3, CleanEnd DEF Ended, Ops
    <3>5. QED
      BY <1>2, <3>1, <3>3, <3>4 DEF Settled, CleanInv, DstInv
  <2>5. QED
    BY <2>2, <2>3, <2>4
<1>3. QED
  BY <1>1, <1>2, CleanStep, RadioInvariant, PTL DEF RadioSpec, DestinationSet
=============================================================================
