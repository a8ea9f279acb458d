---------------------------- MODULE VarManageProofs ----------------------------
(***************************************************************************)
(* Proofs about drivers/varmanage: Collect for every set of variables,     *)
(* slaves, devices and cells; VarList for every set of names and of        *)
(* addresses, entered in any order.                                        *)
(***************************************************************************)
EXTENDS Collect, VarList, FiniteSetTheorems, SequenceTheorems,
        WellFoundedInduction, TLAPS

-----------------------------------------------------------------------------
(***************************************************************************)
(* The chain and the table of tasks.                                       *)
(***************************************************************************)

\* A chain is a sequence of frames: only finitely many variables are enabled.
LEMMA ChainsAreSequences ==
    ASSUME NEW c, NEW q \in Chains(c)
    PROVE  q \in Seq(Frames)
<1>1. Cardinality(Enabled(c)) \in Nat
  BY VarsAssumption, FS_Subset, FS_CardinalityType DEF Enabled
<1>2. QED
  BY <1>1 DEF Chains

\* varmanage_update only adds devices, and never beyond the table.
LEMMA UpdatedTable ==
    ASSUME NEW r \in SUBSET Devices, NEW c \in Configurations,
           NEW u \in Updated(r, c)
    PROVE  u \subseteq Devices /\ Cardinality(u) <= CollMax
<1>1. PICK listed \in Listed(c) : \E more \in SUBSET (listed \ r) :
          u = r \cup more /\ Cardinality(r \cup more) <= CollMax
  BY DEF Updated
<1>2. \A v \in Enabled(c) : DeviceOf[c[v]] \in Devices
  BY DeviceOfAssumption DEF Enabled, Configurations
<1>3. listed \subseteq Devices
  BY <1>1, <1>2 DEF Listed
<1>4. QED
  BY <1>1, <1>3

\* What is left of the chain when its first slave is freed.
LEMMA RestOfChain ==
    ASSUME chain \in Seq(Frames), chain # <<>>
    PROVE  SubSeq(chain, Cardinality(HeadFrames) + 1, Len(chain)) \in Seq(Frames)
<1>1. HeadFrames \subseteq 1 .. Len(chain) /\ Len(chain) \in Nat
  BY DEF HeadFrames
<1>2. /\ IsFiniteSet(1 .. Len(chain))
      /\ Cardinality(1 .. Len(chain)) = Len(chain)
  <2>1. /\ IsFiniteSet(1 .. Len(chain))
        /\ Cardinality(1 .. Len(chain)) =
               IF 1 > Len(chain) THEN 0 ELSE Len(chain) - 1 + 1
    BY <1>1, FS_Interval
  <2>2. QED
    BY <1>1, <2>1
<1>3. Cardinality(HeadFrames) \in 0 .. Len(chain)
  <2>1. /\ IsFiniteSet(HeadFrames)
        /\ Cardinality(HeadFrames) <= Cardinality(1 .. Len(chain))
    BY <1>1, <1>2, FS_Subset
  <2>2. Cardinality(HeadFrames) \in Nat
    BY <2>1, FS_CardinalityType
  <2>3. QED
    BY <1>1, <1>2, <2>1, <2>2
<1>4. /\ Cardinality(HeadFrames) + 1 \in 1 .. Len(chain) + 1
      /\ Len(chain) \in Cardinality(HeadFrames) .. Len(chain)
  BY <1>1, <1>3
<1>5. ASSUME NEW m \in 1 .. Len(chain) + 1
      PROVE  SubSeq(chain, m, Len(chain)) \in Seq(Frames)
  <2>1. \A i \in m .. Len(chain) : chain[i] \in Frames
    OBVIOUS
  <2>2. QED
    BY <1>1, <2>1, SubSeqProperties
<1>6. QED
  BY <1>4, <1>5

\* The cells of a frame are where slaves and frames are allocated.
LEMMA CellsOfFrames ==
    ASSUME chain \in Seq(Frames)
    PROVE  /\ \A i \in DOMAIN chain :
                 chain[i].slave \in SlaveCells /\ chain[i].ext \in ExtCells
           /\ chain # <<>> => 1 \in DOMAIN chain
<1>1. \A i \in DOMAIN chain : chain[i] \in Frames
  OBVIOUS
<1>2. chain # <<>> => 1 \in DOMAIN chain
  OBVIOUS
<1>3. QED
  BY <1>1, <1>2 DEF Frames

-----------------------------------------------------------------------------
(***************************************************************************)
(* Type correctness.                                                       *)
(***************************************************************************)

\* Every step of a task keeps the types.
LEMMA TaskKeepsTypes ==
    ASSUME TypeOK, NEW d \in Devices, Task(d)
    PROVE  TypeOK'
<1> USE DEF TypeOK, server, Goto
<1>1. CASE Continue(d)
  BY <1>1 DEF Continue
<1>2. CASE Take(d)
  <2>1. NextFrame(d) \in Frames
    BY <1>2 DEF Take, NextFrame
  <2>2. QED
    BY <1>2, <2>1 DEF Take, CellsOf, Frames
<1>3. CASE PassOver(d)
  <2>1. NextFrame(d) \in Frames
    BY <1>3 DEF PassOver, NextFrame
  <2>2. QED
    BY <1>3, <2>1 DEF PassOver, CellsOf, Frames
<1>4. CASE ReachEnd(d)
  BY <1>4 DEF ReachEnd
<1>5. CASE GoAstray(d)
  BY <1>5 DEF GoAstray
<1>6. CASE Check(d)
  <2>1. AllDue(d) \in BOOLEAN
    BY DEF AllDue, Due
  <2>2. QED
    BY <1>6, <2>1 DEF Check
<1>7. CASE Poll(d)
  BY <1>7 DEF Poll
<1>8. CASE EndPass(d)
  BY <1>8 DEF EndPass, Nowhere
<1>9. QED
  BY <1>1, <1>2, <1>3, <1>4, <1>5, <1>6, <1>7, <1>8 DEF Task

\* Every request of the web page keeps the types.
LEMMA ServerKeepsTypes ==
    ASSUME TypeOK
    PROVE  /\ \A v \in Vars, s \in Slaves \cup {Off} : Change(v, s) => TypeOK'
           /\ Rebuild \/ Update => TypeOK'
           /\ StartRestore \/ NothingRestored \/ EmptyList => TypeOK'
           /\ FreeFrame \/ FreeSlave \/ NextSlave => TypeOK'
           /\ FinishRestore => TypeOK'
<1> USE DEF TypeOK, task
<1>1. ASSUME NEW v \in Vars, NEW s \in Slaves \cup {Off}, Change(v, s)
      PROVE  TypeOK'
  BY <1>1 DEF Change, Configurations
<1>2. CASE Rebuild
  <2>1. chain' \in Seq(Frames)
    BY <1>2, ChainsAreSequences DEF Rebuild
  <2>2. QED
    BY <1>2, <2>1 DEF Rebuild
<1>3. CASE Update
  <2>1. run' \subseteq Devices /\ Cardinality(run') <= CollMax
    BY <1>3, UpdatedTable DEF Update
  <2>2. QED
    BY <1>3, <2>1 DEF Update
<1>4. CASE StartRestore
  BY <1>4 DEF StartRestore
<1>5. CASE NothingRestored
  BY <1>5 DEF NothingRestored
<1>6. CASE EmptyList
  BY <1>6 DEF EmptyList, Configurations
<1>7. CASE FreeFrame
  <2>1. PICK i \in HeadFrames : freed' = freed \cup {chain[i].ext}
    BY <1>7 DEF FreeFrame
  <2>2. chain[i].ext \in ExtCells
    BY <2>1, CellsOfFrames DEF HeadFrames
  <2>3. QED
    BY <1>7, <2>1, <2>2 DEF FreeFrame
<1>8. CASE FreeSlave
  <2>1. chain[1].slave \in SlaveCells
    BY <1>8, CellsOfFrames DEF FreeSlave
  <2>2. QED
    BY <1>8, <2>1 DEF FreeSlave
<1>9. CASE NextSlave
  BY <1>9, RestOfChain DEF NextSlave
<1>10. CASE FinishRestore
  BY <1>10 DEF FinishRestore
<1>11. QED
  BY <1>1, <1>2, <1>3, <1>4, <1>5, <1>6, <1>7, <1>8, <1>9, <1>10

\* A start, at first or after a restore, leaves the types right.
LEMMA StartHasTypes == (Init => TypeOK) /\ (Reboot => TypeOK')
<1>1. ASSUME NEW c \in Configurations, NEW q \in Chains(c),
             NEW u \in Updated({}, c)
      PROVE  /\ q \in Seq(Frames)
             /\ u \subseteq Devices /\ Cardinality(u) <= CollMax
  BY ChainsAreSequences, UpdatedTable
<1>2. Init => TypeOK
  <2> SUFFICES ASSUME Init PROVE TypeOK
    OBVIOUS
  <2>1. /\ chain \in Seq(Frames)
        /\ run \subseteq Devices /\ Cardinality(run) <= CollMax
    BY <1>1 DEF Init
  <2>2. QED
    BY <2>1 DEF Init, TypeOK, Nowhere, NoFrame
<1>3. Reboot => TypeOK'
  <2> SUFFICES ASSUME Reboot PROVE TypeOK'
    OBVIOUS
  <2>1. /\ chain' \in Seq(Frames)
        /\ run' \subseteq Devices /\ Cardinality(run') <= CollMax
    BY <1>1 DEF Reboot
  <2>2. QED
    BY <2>1 DEF Reboot, TypeOK, Nowhere, NoFrame
<1>4. QED
  BY <1>2, <1>3

\* The tasks, the chain they walk and the table of tasks keep their types; in
\* particular s_varmanage_run never holds more than BOARD_COLL_MAX tasks.
THEOREM CollectTypeCorrect == Spec => []TypeOK
<1>1. Init => TypeOK
  BY StartHasTypes
<1>2. TypeOK /\ [Next]_vars => TypeOK'
  <2> SUFFICES ASSUME TypeOK, [Next]_vars PROVE TypeOK'
    OBVIOUS
  <2>1. CASE \E d \in Devices : Task(d)
    BY <2>1, TaskKeepsTypes
  <2>2. ASSUME NEW d \in Devices, Elapse(d) PROVE TypeOK'
    BY <2>2 DEF Elapse, TypeOK, task, server
  <2>3. CASE UNCHANGED vars
    BY <2>3 DEF vars, TypeOK, task, server
  <2>4. QED
    BY <2>1, <2>2, <2>3, ServerKeepsTypes, StartHasTypes DEF Next
<1>3. QED
  BY <1>1, <1>2, PTL DEF Spec

-----------------------------------------------------------------------------
(***************************************************************************)
(* Safety of the walk.                                                     *)
(***************************************************************************)

\* The walk reads no cell that is not in the chain: the pointers of a task are
\* followed only after they were found in it.
LEMMA ReadsTheChain ==
    ASSUME TypeOK, NEW d \in Devices
    PROVE  ReadBy(d) \subseteq Cells
<1>1. Searched(d) \subseteq Cells
  BY DEF Searched, Cells
<1>2. IsExist(d) => {at[d].slave, at[d].ext} \subseteq Cells
  BY DEF IsExist, IsHere, Cells
<1>3. Following(d) \in DOMAIN chain =>
          {chain[Following(d)].slave, chain[Following(d)].ext} \subseteq Cells
  BY DEF Cells
<1>4. QED
  BY <1>1, <1>2, <1>3 DEF ReadBy

\* Cells are given back, outside the critical section, only by a restore.
OnlyRestoreFrees == freed # {} => web \in {"free", "reboot"}

\* For every configuration, every way of rebuilding the chain and every reuse
\* of its cells: a task reads a frame that was given back only while a restore
\* frees the chain.
THEOREM WalkersAreSafe == Spec => []WalksLiveFrames
<1> DEFINE Inv == OnlyRestoreFrees /\ WalksLiveFrames
<1>1. Init => Inv
  BY DEF Init, OnlyRestoreFrees, WalksLiveFrames
<1>2. TypeOK /\ Inv /\ [Next]_vars => Inv'
  <2> SUFFICES ASSUME TypeOK, Inv, [Next]_vars PROVE Inv'
    OBVIOUS
  <2> USE DEF OnlyRestoreFrees, WalksLiveFrames, server
  <2>1. ASSUME NEW d \in Devices, GoAstray(d) PROVE Inv'
    <3>1. freed # {}
      BY <2>1, ReadsTheChain DEF GoAstray, ReadsFreed
    <3>2. QED
      BY <2>1, <3>1 DEF GoAstray
  <2>2. ASSUME NEW d \in Devices, Task(d), ~GoAstray(d) PROVE Inv'
    BY <2>2 DEF Task, Continue, Take, PassOver, ReachEnd, Check, Poll, EndPass
  <2>3. ASSUME NEW d \in Devices, Elapse(d) PROVE Inv'
    BY <2>3 DEF Elapse, task
  <2>4. ASSUME NEW v \in Vars, NEW s \in Slaves \cup {Off}, Change(v, s)
        PROVE  Inv'
    BY <2>4 DEF Change, task
  <2>5. CASE Rebuild \/ Update
    BY <2>5 DEF Rebuild, Update, task
  <2>6. CASE StartRestore \/ NothingRestored \/ EmptyList
    BY <2>6 DEF StartRestore, NothingRestored, EmptyList, task
  <2>7. CASE FreeFrame \/ FreeSlave \/ NextSlave
    BY <2>7 DEF FreeFrame, FreeSlave, NextSlave, task
  <2>8. CASE FinishRestore \/ Reboot
    BY <2>8 DEF FinishRestore, Reboot, task
  <2>9. CASE UNCHANGED vars
    BY <2>9 DEF vars, task
  <2>10. QED
    BY <2>1, <2>2, <2>3, <2>4, <2>5, <2>6, <2>7, <2>8, <2>9 DEF Next
<1>3. QED
  BY <1>1, <1>2, CollectTypeCorrect, PTL DEF Spec

-----------------------------------------------------------------------------
(***************************************************************************)
(* The definitions of VarList that recur count their steps: what holds of  *)
(* all steps is shown by a least one of which it does not.                 *)
(***************************************************************************)
LEMMA LeastStep ==
    ASSUME NEW T, T \subseteq Nat, T # {}
    PROVE  \E k \in T : \A m \in T : k <= m
<1> DEFINE Less == {ss \in Nat \X Nat : ss[1] < ss[2]}
<1>1. IsWellFoundedOn(Less, Nat)
  <2>1. Less = OpToRel(<, Nat)
    BY DEF OpToRel
  <2>2. QED
    BY <2>1, NatLessThanWellFounded
<1>2. PICK k \in T : \A m \in T : <<m, k>> \notin Less
  <2> HIDE DEF Less
  <2>1. QED
    BY <1>1, WFMin
<1>3. \A m \in T : m \in Nat /\ k \in Nat /\ ~(m < k)
  <2>1. ASSUME NEW m \in T PROVE m \in Nat /\ k \in Nat /\ ~(m < k)
    BY <1>2
  <2>2. QED
    BY <2>1
<1>4. QED
  BY <1>3

\* f and g begin alike, and go on alike for N steps.
GoAlike(N, f, g) ==
    /\ f[0] = g[0]
    /\ \A k \in 1 .. N : f[k - 1] = g[k - 1] => f[k] = g[k]

LEMMA SameSteps ==
    ASSUME NEW N \in Nat, NEW f, NEW g, GoAlike(N, f, g)
    PROVE  \A k \in 0 .. N : f[k] = g[k]
<1> DEFINE T == {k \in 0 .. N : f[k] # g[k]}
<1>1. SUFFICES ASSUME T # {} PROVE FALSE
  OBVIOUS
<1>2. PICK k \in T : \A m \in T : k <= m
  <2> HIDE DEF T
  <2>1. T \subseteq Nat
    BY DEF T
  <2>2. QED
    BY <1>1, <2>1, LeastStep
<1>3. k \in 1 .. N /\ k - 1 \in 0 .. N /\ k - 1 \notin T
  BY <1>2 DEF GoAlike
<1>4. QED
  BY <1>3 DEF GoAlike

-----------------------------------------------------------------------------
(***************************************************************************)
(* The heap.                                                               *)
(***************************************************************************)

Nodes == [next : Names \cup {Null}, prev : Names \cup {Null}, addr : Addrs]

\* From h the nodes nd lead through q and back, and there are no others.
Leads(h, nd, q) ==
    /\ q \in Seq(Names)
    /\ \A i, j \in DOMAIN q : q[i] = q[j] => i = j
    /\ nd \in [ToSet(q) -> Nodes]
    /\ h = IF q = <<>> THEN Null ELSE q[1]
    /\ \A i \in DOMAIN q :
          /\ nd[q[i]].next = IF i = Len(q) THEN Null ELSE q[i + 1]
          /\ nd[q[i]].prev = IF i = 1 THEN Null ELSE q[i - 1]

\* The same of next alone.
OneWay(h, nd, q) ==
    /\ q \in Seq(Names)
    /\ \A i, j \in DOMAIN q : q[i] = q[j] => i = j
    /\ DOMAIN nd = ToSet(q)
    /\ h = IF q = <<>> THEN Null ELSE q[1]
    /\ \A i \in DOMAIN q : nd[q[i]].next = IF i = Len(q) THEN Null ELSE q[i + 1]

InOrder(nd, q) ==
    \A i, j \in DOMAIN q : i < j => nd[q[i]].addr < nd[q[j]].addr

\* As many nodes as places.
LEMMA NodesCounted ==
    ASSUME NEW q \in Seq(Names), \A i, j \in DOMAIN q : q[i] = q[j] => i = j
    PROVE  IsFiniteSet(ToSet(q)) /\ Cardinality(ToSet(q)) = Len(q)
<1>1. q \in [1 .. Len(q) -> ToSet(q)] /\ Len(q) \in Nat
  BY DEF ToSet
<1>2. q \in Bijection(1 .. Len(q), ToSet(q))
  BY <1>1 DEF Bijection, Injection, Surjection, IsInjective, ToSet
<1>3. ExistsBijection(1 .. Len(q), ToSet(q))
  BY <1>2 DEF ExistsBijection
<1>4. IsFiniteSet(1 .. Len(q))
  BY <1>1, FS_Interval
<1>5. QED
  BY <1>1, <1>3, <1>4, FS_CountingElements, FS_Bijection

\* The walk along next finds q.
LEMMA ChainIs ==
    ASSUME NEW h, NEW nd, NEW q, OneWay(h, nd, q)
    PROVE  Chain(h, nd) = q
<1> DEFINE N == Cardinality(DOMAIN nd)
           met[k \in 0 .. N] ==
              IF k = 0 THEN <<>>
              ELSE LET r == met[k - 1]
                       c == IF r = <<>> THEN h ELSE nd[Last(r)].next
                   IN  IF c \notin DOMAIN nd \/ c \in ToSet(r) THEN r ELSE Append(r, c)
           w == [k \in 0 .. N |-> [i \in 1 .. k |-> q[i]]]
<1>1. N = Len(q) /\ N \in Nat /\ DOMAIN q = 1 .. N
  BY NodesCounted DEF OneWay
<1>2. ASSUME NEW k \in 1 .. N
      PROVE  w[k] = LET r == w[k - 1]
                        c == IF r = <<>> THEN h ELSE nd[Last(r)].next
                    IN  IF c \notin DOMAIN nd \/ c \in ToSet(r) THEN r ELSE Append(r, c)
  <2> DEFINE r == [i \in 1 .. k - 1 |-> q[i]]
             c == IF r = <<>> THEN h ELSE nd[Last(r)].next
  <2>1. /\ w[k - 1] = r /\ r \in Seq(Names) /\ Len(r) = k - 1 /\ q[k] \in Names
        /\ w[k] = [i \in 1 .. k |-> q[i]]
    BY <1>1 DEF OneWay
  <2>2. c = q[k]
    <3>1. CASE k = 1
      BY <1>1, <2>1, <3>1 DEF OneWay
    <3>2. CASE k # 1
      <4>1. k - 1 \in DOMAIN q /\ k - 1 # Len(q) /\ k - 1 \in 1 .. k - 1 /\ k - 1 # 0
        BY <1>1, <3>2
      <4>2. r # <<>> /\ Last(r) = q[k - 1]
        BY <2>1, <4>1 DEF Last
      <4>3. nd[q[k - 1]].next = q[k - 1 + 1] /\ k - 1 + 1 = k
        BY <1>1, <4>1 DEF OneWay
      <4>4. QED
        BY <4>2, <4>3
    <3>3. QED
      BY <3>1, <3>2
  <2>3. q[k] \in DOMAIN nd /\ q[k] \notin ToSet(r)
    <3>1. \A i \in 1 .. k - 1 : r[i] = q[i] /\ i \in DOMAIN q /\ i # k
      BY <1>1
    <3>2. \A i \in 1 .. k - 1 : r[i] # q[k]
      BY <1>1, <3>1 DEF OneWay
    <3>3. DOMAIN r = 1 .. k - 1
      OBVIOUS
    <3>4. QED
      BY <1>1, <2>1, <3>2, <3>3 DEF ToSet, OneWay
  <2>4. Append(r, q[k]) = [i \in 1 .. k |-> q[i]]
    BY <1>1, <2>1
  <2>5. QED
    BY <2>1, <2>2, <2>3, <2>4
<1>3. w[0] = <<>>
  BY <1>1
<1>4. w = [k \in 0 .. N |->
             IF k = 0 THEN <<>>
             ELSE LET r == w[k - 1]
                      c == IF r = <<>> THEN h ELSE nd[Last(r)].next
                  IN  IF c \notin DOMAIN nd \/ c \in ToSet(r) THEN r ELSE Append(r, c)]
  <2>1. \A k \in 0 .. N : k = 0 \/ k \in 1 .. N
    BY <1>1
  <2> QED
    BY <1>2, <1>3, <2>1
<1>5. met = [k \in 0 .. N |->
             IF k = 0 THEN <<>>
             ELSE LET r == met[k - 1]
                      c == IF r = <<>> THEN h ELSE nd[Last(r)].next
                  IN  IF c \notin DOMAIN nd \/ c \in ToSet(r) THEN r ELSE Append(r, c)]
  <2> HIDE DEF w, N
  <2> QED
    BY <1>4
<1>6. met[N] = w[N]
  <2> HIDE DEF w, met, N
  <2>1. met[0] = w[0]
    BY <1>1, <1>3, <1>5
  <2>2. \A k \in 1 .. N : met[k - 1] = w[k - 1] => met[k] = w[k]
    <3> SUFFICES ASSUME NEW k \in 1 .. N, met[k - 1] = w[k - 1] PROVE met[k] = w[k]
      OBVIOUS
    <3>1. k \in 0 .. N /\ k # 0
      BY <1>1
    <3>2. QED
      BY <1>2, <1>5, <3>1
  <2>3. N \in Nat /\ N \in 0 .. N
    BY <1>1
  <2>4. GoAlike(N, met, w)
    BY <2>1, <2>2 DEF GoAlike
  <2>5. QED
    BY <2>3, <2>4, SameSteps
<1>7. w[N] = q
  BY <1>1 DEF OneWay
<1>8. QED
  BY <1>6, <1>7 DEF Chain

LEMMA BothWays ==
    ASSUME NEW h, NEW nd, NEW q, Leads(h, nd, q)
    PROVE  OneWay(h, nd, q) /\ Chain(h, nd) = q
<1>1. OneWay(h, nd, q)
  <2>1. DOMAIN nd = ToSet(q)
    BY DEF Leads
  <2>2. QED
    BY <2>1 DEF Leads, OneWay
<1>2. QED
  BY <1>1, ChainIs

\* The steps of the walk along next.
Walk(h, nd) ==
    LET met[k \in 0 .. Cardinality(DOMAIN nd)] ==
            IF k = 0 THEN <<>>
            ELSE LET q == met[k - 1]
                     c == IF q = <<>> THEN h ELSE nd[Last(q)].next
                 IN  IF c \notin DOMAIN nd \/ c \in ToSet(q) THEN q ELSE Append(q, c)
    IN  met

LEMMA WalkGoesOn ==
    ASSUME NEW h, NEW nd, Cardinality(DOMAIN nd) \in Nat
    PROVE  /\ Walk(h, nd)[0] = <<>>
           /\ \A k \in 1 .. Cardinality(DOMAIN nd) :
                Walk(h, nd)[k] =
                  LET q == Walk(h, nd)[k - 1]
                      c == IF q = <<>> THEN h ELSE nd[Last(q)].next
                  IN  IF c \notin DOMAIN nd \/ c \in ToSet(q) THEN q ELSE Append(q, c)
<1> DEFINE N == Cardinality(DOMAIN nd)
           F(q) == LET c == IF q = <<>> THEN h ELSE nd[Last(q)].next
                   IN  IF c \notin DOMAIN nd \/ c \in ToSet(q) THEN q ELSE Append(q, c)
           Goes(k, g) == g = [j \in 0 .. k |-> IF j = 0 THEN <<>> ELSE F(g[j - 1])]
           T == {k \in 0 .. N : ~(\E g : Goes(k, g))}
<1> HIDE DEF F
<1>1. T = {}
  <2>1. SUFFICES ASSUME T # {} PROVE FALSE
    OBVIOUS
  <2>2. PICK k \in T : \A m \in T : k <= m
    <3>1. T \subseteq Nat
      OBVIOUS
    <3> HIDE DEF T
    <3>2. QED
      BY <2>1, <3>1, LeastStep
  <2>3. CASE k = 0
    <3>1. Goes(0, [j \in 0 .. 0 |-> <<>>])
      OBVIOUS
    <3>2. QED
      BY <2>3, <3>1
  <2>4. CASE k # 0
    <3>1. k \in 1 .. N /\ k - 1 \in 0 .. N /\ ~(k <= k - 1)
      BY <2>4
    <3>2. k - 1 \notin T
      BY <2>2, <3>1
    <3>3. PICK g : Goes(k - 1, g)
      BY <3>1, <3>2
    <3> DEFINE gg == [j \in 0 .. k |-> IF j = k THEN F(g[k - 1]) ELSE g[j]]
    <3>4. ASSUME NEW j \in 0 .. k
          PROVE  gg[j] = IF j = 0 THEN <<>> ELSE F(gg[j - 1])
      <4>1. CASE j = k
        <5>1. gg[j - 1] = g[k - 1] /\ j # 0
          BY <3>1, <4>1
        <5>2. QED
          BY <4>1, <5>1
      <4>2. CASE j # k
        <5>1. j \in 0 .. k - 1 /\ (j # 0 => j - 1 \in 0 .. k /\ j - 1 # k)
          BY <3>1, <4>2
        <5>2. g[j] = IF j = 0 THEN <<>> ELSE F(g[j - 1])
          BY <3>3, <5>1
        <5>3. QED
          BY <4>2, <5>1, <5>2
      <4>3. QED
        BY <4>1, <4>2
    <3>5. gg = [j \in 0 .. k |-> gg[j]]
      OBVIOUS
    <3> HIDE DEF gg
    <3>6. Goes(k, gg)
      BY <3>4, <3>5
    <3>7. QED
      BY <3>6
  <2>5. QED
    BY <2>3, <2>4
<1>2. \E g : Goes(N, g)
  BY <1>1
<1>3. Goes(N, Walk(h, nd))
  BY <1>2 DEF Walk, F
<1>4. /\ Walk(h, nd)[0] = <<>>
      /\ \A k \in 1 .. N : Walk(h, nd)[k] = F(Walk(h, nd)[k - 1])
  <2>1. N \in Nat
    OBVIOUS
  <2> HIDE DEF N
  <2>2. QED
    BY <1>3, <2>1
<1>5. QED
  BY <1>4 DEF F

\* It only meets allocated nodes.
LEMMA ChainAllocated ==
    ASSUME NEW h, NEW nd, Cardinality(DOMAIN nd) \in Nat
    PROVE  ToSet(Chain(h, nd)) \subseteq DOMAIN nd
<1> DEFINE N == Cardinality(DOMAIN nd)
           met == Walk(h, nd)
           T == {k \in 0 .. N : ~(met[k] \in Seq(DOMAIN nd))}
<1>1. /\ N \in Nat /\ met[0] = <<>>
      /\ \A k \in 1 .. N : \/ met[k] = met[k - 1]
                           \/ \E c \in DOMAIN nd : met[k] = Append(met[k - 1], c)
  <2>1. ASSUME NEW k \in 1 .. N
        PROVE  \/ met[k] = met[k - 1]
               \/ \E c \in DOMAIN nd : met[k] = Append(met[k - 1], c)
    <3> DEFINE q == met[k - 1]
               c == IF q = <<>> THEN h ELSE nd[Last(q)].next
    <3>1. met[k] = IF c \notin DOMAIN nd \/ c \in ToSet(q) THEN q ELSE Append(q, c)
      BY WalkGoesOn
    <3> HIDE DEF c, q
    <3>2. met[k] = q \/ (c \in DOMAIN nd /\ met[k] = Append(q, c))
      BY <3>1
    <3>3. QED
      BY <3>2 DEF q
  <2>2. QED
    BY <2>1, WalkGoesOn
<1> HIDE DEF N, met
<1>2. T = {}
  <2>1. SUFFICES ASSUME T # {} PROVE FALSE
    OBVIOUS
  <2>2. PICK k \in T : \A m \in T : k <= m
    <3>1. T \subseteq Nat
      BY <1>1
    <3> HIDE DEF T
    <3>2. QED
      BY <2>1, <3>1, LeastStep
  <2>3. k \in 0 .. N /\ ~(met[k] \in Seq(DOMAIN nd))
    OBVIOUS
  <2>4. k # 0
    <3>1. <<>> \in Seq(DOMAIN nd)
      OBVIOUS
    <3>2. met[0] \in Seq(DOMAIN nd)
      BY <1>1, <3>1
    <3>3. QED
      BY <2>3, <3>2
  <2>5. k \in 1 .. N /\ k - 1 \in 0 .. N /\ ~(k <= k - 1)
    BY <1>1, <2>3, <2>4
  <2>6. met[k - 1] \in Seq(DOMAIN nd)
    BY <2>2, <2>5
  <2>7. PICK c \in DOMAIN nd : met[k] = Append(met[k - 1], c)
    BY <1>1, <2>3, <2>5, <2>6
  <2>8. QED
    BY <2>3, <2>6, <2>7
<1>3. Chain(h, nd) = met[N]
  BY DEF Chain, Walk, met, N
<1>4. Chain(h, nd) \in Seq(DOMAIN nd)
  <2>1. N \in 0 .. N /\ N \notin T
    BY <1>1, <1>2
  <2>2. QED
    BY <1>3, <2>1
<1>5. QED
  BY <1>4 DEF ToSet

-----------------------------------------------------------------------------
(***************************************************************************)
(* The sort.                                                               *)
(***************************************************************************)

\* The turns of the sort.
Turns(h, nd) ==
    LET turn[k \in 0 .. Cardinality(DOMAIN nd)] ==
            IF k = 0 THEN [head |-> h, node |-> nd, at |-> h, moved |-> FALSE]
            ELSE LET l == turn[k - 1]
                 IN  IF l.at = Null THEN l ELSE SortTurn(l)
    IN  turn

LEMMA TurnsGoOn ==
    ASSUME NEW h, NEW nd, Cardinality(DOMAIN nd) \in Nat
    PROVE  /\ Turns(h, nd)[0] = [head |-> h, node |-> nd, at |-> h, moved |-> FALSE]
           /\ \A k \in 1 .. Cardinality(DOMAIN nd) :
                Turns(h, nd)[k] =
                  LET l == Turns(h, nd)[k - 1]
                  IN  IF l.at = Null THEN l ELSE SortTurn(l)
           /\ Sorted(h, nd) = Turns(h, nd)[Cardinality(DOMAIN nd)]
<1> DEFINE N == Cardinality(DOMAIN nd)
           b == [head |-> h, node |-> nd, at |-> h, moved |-> FALSE]
           F(l) == IF l.at = Null THEN l ELSE SortTurn(l)
           Goes(k, g) == g = [j \in 0 .. k |-> IF j = 0 THEN b ELSE F(g[j - 1])]
           T == {k \in 0 .. N : ~(\E g : Goes(k, g))}
<1> HIDE DEF F, b
<1>1. T = {}
  <2>1. SUFFICES ASSUME T # {} PROVE FALSE
    OBVIOUS
  <2>2. PICK k \in T : \A m \in T : k <= m
    <3>1. T \subseteq Nat
      OBVIOUS
    <3> HIDE DEF T
    <3>2. QED
      BY <2>1, <3>1, LeastStep
  <2>3. CASE k = 0
    <3>1. Goes(0, [j \in 0 .. 0 |-> b])
      OBVIOUS
    <3>2. QED
      BY <2>3, <3>1
  <2>4. CASE k # 0
    <3>1. k \in 1 .. N /\ k - 1 \in 0 .. N /\ ~(k <= k - 1)
      BY <2>4
    <3>2. k - 1 \notin T
      BY <2>2, <3>1
    <3>3. PICK g : Goes(k - 1, g)
      BY <3>1, <3>2
    <3> DEFINE gg == [j \in 0 .. k |-> IF j = k THEN F(g[k - 1]) ELSE g[j]]
    <3>4. ASSUME NEW j \in 0 .. k
          PROVE  gg[j] = IF j = 0 THEN b ELSE F(gg[j - 1])
      <4>1. CASE j = k
        <5>1. gg[j - 1] = g[k - 1] /\ j # 0
          BY <3>1, <4>1
        <5>2. QED
          BY <4>1, <5>1
      <4>2. CASE j # k
        <5>1. j \in 0 .. k - 1 /\ (j # 0 => j - 1 \in 0 .. k /\ j - 1 # k)
          BY <3>1, <4>2
        <5>2. g[j] = IF j = 0 THEN b ELSE F(g[j - 1])
          BY <3>3, <5>1
        <5>3. QED
          BY <4>2, <5>1, <5>2
      <4>3. QED
        BY <4>1, <4>2
    <3>5. gg = [j \in 0 .. k |-> gg[j]]
      OBVIOUS
    <3> HIDE DEF gg
    <3>6. Goes(k, gg)
      BY <3>4, <3>5
    <3>7. QED
      BY <3>6
  <2>5. QED
    BY <2>3, <2>4
<1>2. \E g : Goes(N, g)
  BY <1>1
<1>3. Goes(N, Turns(h, nd))
  BY <1>2 DEF Turns, F, b
<1>4. /\ Turns(h, nd)[0] = b
      /\ \A k \in 1 .. N : Turns(h, nd)[k] = F(Turns(h, nd)[k - 1])
  <2>1. N \in Nat
    OBVIOUS
  <2> HIDE DEF N
  <2>2. QED
    BY <1>3, <2>1
<1>5. Sorted(h, nd) = Turns(h, nd)[N]
  BY DEF Sorted, Turns
<1>6. QED
  BY <1>4, <1>5 DEF F, b

\* A turn that finds no place for the next node leaves the list as it is.
LEMMA IdleTurn ==
    ASSUME NEW h, NEW nd, NEW c,
           nd[c].next = Null \/ PlaceFor(nd, nd[c].next, h) = Null
    PROVE  SortTurn([head |-> h, node |-> nd, at |-> c, moved |-> FALSE])
             = [head |-> h, node |-> nd, at |-> nd[c].next, moved |-> FALSE]
BY DEF SortTurn

\* One that finds a place moves it, and the sort has moved a node for good.
LEMMA BusyTurn ==
    ASSUME NEW h, NEW nd, NEW c, nd[c].next # Null,
           PlaceFor(nd, nd[c].next, h) # Null
    PROVE  LET x == nd[c].next
               m == Move(h, nd, c, x, PlaceFor(nd, x, h))
           IN  SortTurn([head |-> h, node |-> nd, at |-> c, moved |-> FALSE])
                 = [head |-> m.head, node |-> m.node, at |-> m.node[c].next,
                    moved |-> TRUE]
BY DEF SortTurn

LEMMA MovedForGood ==
    ASSUME NEW l, l.moved
    PROVE  SortTurn(l).moved
BY DEF SortTurn

\* Among nodes in the order of their addresses none belongs before another.
LEMMA NothingPlaced ==
    ASSUME NEW h, NEW nd, NEW q, Leads(h, nd, q), NEW k \in DOMAIN q,
           \A i \in DOMAIN q : i < k => nd[q[i]].addr < nd[q[k]].addr
    PROVE  PlaceFor(nd, q[k], h) = Null
<1>1. Chain(h, nd) = q
  BY BothWays
<1>2. ASSUME NEW i \in DOMAIN q, \A j \in 1 .. i : q[j] # q[k], Belongs(nd, q[k], q[i])
      PROVE  FALSE
  <2>1. /\ i \in Nat /\ k \in Nat /\ i \in 1 .. i /\ DOMAIN q = 1 .. Len(q)
        /\ nd[q[i]].addr \in Nat /\ nd[q[k]].addr \in Nat
    <3>1. q[i] \in ToSet(q) /\ q[k] \in ToSet(q) /\ nd \in [ToSet(q) -> Nodes]
      BY <1>2 DEF Leads, ToSet
    <3>2. nd[q[i]].addr \in Nat /\ nd[q[k]].addr \in Nat
      BY <3>1, AddrsAssumption DEF Nodes
    <3>3. QED
      BY <1>2, <3>2 DEF Leads
  <2>2. k \notin 1 .. i
    BY <1>2
  <2>3. i < k
    BY <2>1, <2>2
  <2>4. QED
    BY <1>2, <2>1, <2>3 DEF Belongs
<1>3. QED
  BY <1>1, <1>2 DEF PlaceFor

\* A node that is out of order has a place before.
LEMMA NothingOverlooked ==
    ASSUME NEW h, NEW nd, NEW q, Leads(h, nd, q),
           \A k \in 1 .. Len(q) - 1 : PlaceFor(nd, q[k + 1], h) = Null
    PROVE  InOrder(nd, q)
<1> DEFINE N == Len(q)
           A(i) == nd[q[i]].addr
<1>1. /\ N \in Nat /\ DOMAIN q = 1 .. N
      /\ \A i \in 1 .. N : q[i] \in Names /\ q[i] # Null /\ A(i) \in Nat
      /\ \A i, j \in 1 .. N : q[i] = q[j] => i = j
      /\ \A i \in 1 .. N : nd[q[i]].prev = IF i = 1 THEN Null ELSE q[i - 1]
  <2>1. /\ N \in Nat /\ DOMAIN q = 1 .. N
        /\ \A i \in 1 .. N : q[i] \in Names /\ q[i] \in ToSet(q)
    BY DEF Leads, ToSet
  <2>2. \A i \in 1 .. N : nd[q[i]] \in Nodes
    BY <2>1 DEF Leads
  <2>3. QED
    BY <2>1, <2>2, NamesAssumption, AddrsAssumption DEF Leads, Nodes, Null
<1>2. Chain(h, nd) = q
  BY BothWays
<1> HIDE DEF N
<1>3. ASSUME NEW k \in 1 .. N - 1
      PROVE  A(k) < A(k + 1)
  <2>0. k \in 1 .. N /\ k + 1 \in 1 .. N /\ k \in Nat
    BY <1>1
  <2>1. SUFFICES ASSUME A(k + 1) <= A(k) PROVE FALSE
    BY <1>1, <2>0
  <2> DEFINE x == q[k + 1]
             J == {j \in 1 .. k : A(k + 1) <= A(j)}
             places == {i \in DOMAIN q : /\ \A j \in 1 .. i : q[j] # x
                                         /\ Belongs(nd, x, q[i])}
  <2>2. PICK j \in J : \A m \in J : j <= m
    <3>1. J \subseteq Nat /\ J # {}
      BY <2>0, <2>1
    <3> HIDE DEF J
    <3>2. QED
      BY <3>1, LeastStep
  <2>3. j \in 1 .. k /\ j \in 1 .. N /\ A(k + 1) <= A(j)
    BY <1>1, <2>0
  <2>4. nd[q[j]].prev # Null => A(k + 1) >= nd[nd[q[j]].prev].addr
    <3>1. CASE j = 1
      BY <1>1, <2>3, <3>1
    <3>2. CASE j # 1
      <4>1. j - 1 \in 1 .. k /\ j - 1 \in 1 .. N /\ ~(j <= j - 1)
        BY <1>1, <2>0, <2>3, <3>2
      <4>2. ~(A(k + 1) <= A(j - 1))
        BY <2>2, <4>1
      <4>3. nd[q[j]].prev = q[j - 1]
        BY <1>1, <2>3, <3>2
      <4>4. A(k + 1) \in Nat /\ A(j - 1) \in Nat
        BY <1>1, <2>0, <4>1
      <4>5. QED
        BY <4>2, <4>3, <4>4
    <3>3. QED
      BY <3>1, <3>2
  <2>5. Belongs(nd, x, q[j])
    BY <2>3, <2>4 DEF Belongs
  <2>6. \A i \in 1 .. j : q[i] # x
    <3>1. \A i \in 1 .. j : i \in 1 .. N /\ i # k + 1
      BY <1>1, <2>0, <2>3
    <3>2. QED
      BY <1>1, <2>0, <3>1
  <2>7. j \in places
    BY <1>1, <2>3, <2>5, <2>6
  <2>8. Min(places) \in places
    <3>0. places \subseteq DOMAIN q
      OBVIOUS
    <3> HIDE DEF places
    <3>1. places \subseteq Nat /\ places # {}
      BY <1>1, <2>7, <3>0
    <3>2. PICK m \in places : \A z \in places : m <= z
      BY <3>1, LeastStep
    <3>3. QED
      BY <3>2 DEF Min
  <2>9. PlaceFor(nd, x, h) = q[Min(places)]
    BY <1>2, <2>7 DEF PlaceFor
  <2>10. q[Min(places)] # Null
    BY <1>1, <2>8
  <2>11. QED
    BY <2>9, <2>10 DEF N
<1>4. ASSUME NEW i \in 1 .. N, NEW j \in 1 .. N, i < j
      PROVE  A(i) < A(j)
  <2> DEFINE T == {m \in 1 .. N : i < m /\ ~(A(i) < A(m))}
  <2>1. SUFFICES ASSUME T # {} PROVE FALSE
    BY <1>4
  <2>2. PICK m \in T : \A z \in T : m <= z
    <3>1. T \subseteq Nat
      BY <1>1
    <3> HIDE DEF T
    <3>2. QED
      BY <2>1, <3>1, LeastStep
  <2>3. m \in 1 .. N /\ i < m /\ ~(A(i) < A(m))
    OBVIOUS
  <2>4. m - 1 \in 1 .. N - 1 /\ m - 1 \in 1 .. N /\ m - 1 + 1 = m /\ ~(m <= m - 1)
    BY <1>1, <2>3
  <2>5. A(m - 1) < A(m)
    BY <1>3, <2>4
  <2>6. CASE i = m - 1
    BY <2>3, <2>5, <2>6
  <2>7. CASE i # m - 1
    <3>1. i < m - 1
      BY <1>1, <2>3, <2>7
    <3>2. A(i) < A(m - 1)
      BY <2>2, <2>4, <3>1
    <3>3. A(i) \in Nat /\ A(m) \in Nat /\ A(m - 1) \in Nat
      BY <1>1, <2>3, <2>4
    <3>4. QED
      BY <2>3, <2>5, <3>2, <3>3
  <2>8. QED
    BY <2>6, <2>7
<1>5. QED
  BY <1>1, <1>4 DEF InOrder

\* The kth turn of a sort that has moved nothing of q so far.
Unmoved(h, nd, q, k) ==
    [head |-> h, node |-> nd, at |-> IF k < Len(q) THEN q[k + 1] ELSE Null,
     moved |-> FALSE]

LEMMA NextTurn ==
    ASSUME NEW h, NEW nd, NEW q, Leads(h, nd, q), NEW k \in 1 .. Len(q),
           Turns(h, nd)[k - 1] = Unmoved(h, nd, q, k - 1)
    PROVE  /\ k = Len(q) \/ PlaceFor(nd, q[k + 1], h) = Null
                => Turns(h, nd)[k] = Unmoved(h, nd, q, k)
           /\ k < Len(q) /\ PlaceFor(nd, q[k + 1], h) # Null
                => Turns(h, nd)[k] =
                     LET m == Move(h, nd, q[k], q[k + 1], PlaceFor(nd, q[k + 1], h))
                     IN  [head |-> m.head, node |-> m.node,
                          at |-> m.node[q[k]].next, moved |-> TRUE]
<1> DEFINE N == Len(q)
           turn == Turns(h, nd)
           l == [head |-> h, node |-> nd, at |-> q[k], moved |-> FALSE]
<1>1. /\ N = Cardinality(DOMAIN nd) /\ N \in Nat /\ DOMAIN q = 1 .. N
      /\ \A i \in 1 .. N : q[i] # Null
  <2>1. N = Cardinality(ToSet(q)) /\ DOMAIN nd = ToSet(q)
    BY NodesCounted DEF Leads
  <2>2. N \in Nat /\ DOMAIN q = 1 .. N /\ \A i \in 1 .. N : q[i] \in Names
    BY DEF Leads
  <2>3. QED
    BY <2>1, <2>2, NamesAssumption DEF Null
<1>2. k \in 1 .. N /\ k - 1 < N /\ k - 1 + 1 = k /\ (k < N => k + 1 \in 1 .. N) /\ (k = N \/ k < N)
  BY <1>1
<1>3. turn[k - 1] = l
  BY <1>2 DEF Unmoved
<1>4. turn[k] = SortTurn(l)
  <2>1. turn[k] = IF turn[k - 1].at = Null THEN turn[k - 1] ELSE SortTurn(turn[k - 1])
    <3>1. Cardinality(DOMAIN nd) \in Nat /\ k \in 1 .. Cardinality(DOMAIN nd)
      BY <1>1
    <3>2. QED
      BY <3>1, TurnsGoOn
  <2>2. l.at # Null
    BY <1>1
  <2>3. QED
    BY <1>3, <2>1, <2>2
<1>5. nd[q[k]].next = IF k = N THEN Null ELSE q[k + 1]
  BY <1>1 DEF Leads
<1> HIDE DEF turn, N
<1>6. ASSUME k = N \/ PlaceFor(nd, q[k + 1], h) = Null
      PROVE  turn[k] = Unmoved(h, nd, q, k)
  <2>1. nd[q[k]].next = Null \/ PlaceFor(nd, nd[q[k]].next, h) = Null
    BY <1>5, <1>6
  <2>2. turn[k] = [head |-> h, node |-> nd, at |-> nd[q[k]].next, moved |-> FALSE]
    BY <1>4, <2>1, IdleTurn
  <2>3. nd[q[k]].next = IF k < N THEN q[k + 1] ELSE Null
    BY <1>1, <1>2, <1>5
  <2>4. QED
    BY <2>2, <2>3 DEF Unmoved, N
<1>7. ASSUME k < N, PlaceFor(nd, q[k + 1], h) # Null
      PROVE  turn[k] = LET m == Move(h, nd, q[k], q[k + 1], PlaceFor(nd, q[k + 1], h))
                       IN  [head |-> m.head, node |-> m.node,
                            at |-> m.node[q[k]].next, moved |-> TRUE]
  <2>1. nd[q[k]].next = q[k + 1] /\ nd[q[k]].next # Null
    BY <1>1, <1>2, <1>5, <1>7
  <2>2. PlaceFor(nd, nd[q[k]].next, h) # Null
    BY <1>7, <2>1
  <2>3. QED
    BY <1>4, <2>1, <2>2, BusyTurn
<1>8. QED
  BY <1>6, <1>7 DEF turn, N

\* A sort that moves nothing leaves the list as it is, and in order.
LEMMA UnmovedSort ==
    ASSUME NEW h, NEW nd, NEW q, Leads(h, nd, q), ~Sorted(h, nd).moved
    PROVE  Sorted(h, nd).head = h /\ Sorted(h, nd).node = nd /\ InOrder(nd, q)
<1> DEFINE N == Len(q)
           turn == Turns(h, nd)
           T == {k \in 0 .. N : turn[k] # Unmoved(h, nd, q, k)}
<1>1. N = Cardinality(DOMAIN nd) /\ N \in Nat /\ DOMAIN q = 1 .. N
  <2>1. N = Cardinality(ToSet(q)) /\ DOMAIN nd = ToSet(q)
    BY NodesCounted DEF Leads
  <2>2. QED
    BY <2>1 DEF Leads
<1>2. turn[0] = Unmoved(h, nd, q, 0)
  <2>1. h = IF 0 < N THEN q[1] ELSE Null
    <3>1. q = <<>> <=> ~(0 < N)
      BY <1>1 DEF Leads
    <3>2. QED
      BY <3>1 DEF Leads
  <2>2. turn[0] = [head |-> h, node |-> nd, at |-> h, moved |-> FALSE]
    BY <1>1, TurnsGoOn
  <2>3. QED
    BY <2>1, <2>2 DEF Unmoved
<1>3. Sorted(h, nd) = turn[N]
  BY <1>1, TurnsGoOn
<1>4. ASSUME NEW k \in 1 .. N, turn[k - 1].moved
      PROVE  turn[k].moved
  <2>1. turn[k] = IF turn[k - 1].at = Null THEN turn[k - 1] ELSE SortTurn(turn[k - 1])
    <3>1. Cardinality(DOMAIN nd) \in Nat /\ k \in 1 .. Cardinality(DOMAIN nd)
      BY <1>1
    <3>2. QED
      BY <3>1, TurnsGoOn
  <2> HIDE DEF turn
  <2>2. QED
    BY <1>4, <2>1, MovedForGood
<1>5. ASSUME NEW k \in 1 .. N, turn[k - 1] = Unmoved(h, nd, q, k - 1)
      PROVE  /\ turn[k] = Unmoved(h, nd, q, k) \/ turn[k].moved
             /\ turn[k].moved \/ k = N \/ PlaceFor(nd, q[k + 1], h) = Null
  <2>1. k = N \/ k < N
    BY <1>1
  <2>2. CASE k = N \/ PlaceFor(nd, q[k + 1], h) = Null
    BY <1>5, <2>2, NextTurn
  <2>3. CASE k < N /\ PlaceFor(nd, q[k + 1], h) # Null
    <3> DEFINE m == Move(h, nd, q[k], q[k + 1], PlaceFor(nd, q[k + 1], h))
    <3>1. turn[k] = [head |-> m.head, node |-> m.node,
                     at |-> m.node[q[k]].next, moved |-> TRUE]
      BY <1>5, <2>3, NextTurn
    <3> HIDE DEF m, turn
    <3>2. QED
      BY <3>1
  <2>4. QED
    BY <2>1, <2>2, <2>3
<1>6. ASSUME NEW k \in 1 .. N, turn[k].moved
      PROVE  FALSE
  <2> DEFINE U == {m \in k .. N : ~turn[m].moved}
  <2> HIDE DEF N, turn
  <2>1. N \in U
    BY <1>1, <1>3
  <2>2. PICK m \in U : \A z \in U : m <= z
    <3>1. U \subseteq Nat
      BY <1>1
    <3> HIDE DEF U
    <3>2. QED
      BY <2>1, <3>1, LeastStep
  <2>3. m \in k .. N /\ ~turn[m].moved
    OBVIOUS
  <2>4. m # k
    BY <1>6, <2>3
  <2>5. m - 1 \in k .. N /\ ~(m <= m - 1) /\ m \in 1 .. N
    BY <1>1, <2>3, <2>4
  <2>6. turn[m - 1].moved
    BY <2>2, <2>5
  <2>7. QED
    BY <1>4, <2>3, <2>5, <2>6
<1> HIDE DEF turn, N
<1>7. T = {}
  <2>1. SUFFICES ASSUME T # {} PROVE FALSE
    OBVIOUS
  <2>2. PICK k \in T : \A m \in T : k <= m
    <3>1. T \subseteq Nat
      BY <1>1
    <3> HIDE DEF T
    <3>2. QED
      BY <2>1, <3>1, LeastStep
  <2>3. k \in 0 .. N /\ turn[k] # Unmoved(h, nd, q, k)
    OBVIOUS
  <2>4. k # 0
    BY <1>2, <2>3
  <2>5. k \in 1 .. N /\ k - 1 \in 0 .. N /\ ~(k <= k - 1)
    BY <1>1, <2>3, <2>4
  <2>6. turn[k - 1] = Unmoved(h, nd, q, k - 1)
    BY <2>2, <2>5
  <2>7. turn[k].moved
    BY <1>5, <2>3, <2>5, <2>6
  <2>8. QED
    BY <1>6, <2>5, <2>7
<1>8. \A k \in 0 .. N : turn[k] = Unmoved(h, nd, q, k)
  BY <1>7
<1>9. \A k \in 1 .. N - 1 : PlaceFor(nd, q[k + 1], h) = Null
  <2> SUFFICES ASSUME NEW k \in 1 .. N - 1 PROVE PlaceFor(nd, q[k + 1], h) = Null
    OBVIOUS
  <2>1. k \in 1 .. N /\ k - 1 \in 0 .. N /\ k # N
    BY <1>1
  <2>2. QED
    BY <1>5, <1>6, <1>8, <2>1
<1>10. InOrder(nd, q)
  BY <1>9, NothingOverlooked DEF N
<1>11. turn[N] = Unmoved(h, nd, q, N)
  BY <1>1, <1>8
<1>12. QED
  BY <1>3, <1>10, <1>11 DEF Unmoved

-----------------------------------------------------------------------------
(***************************************************************************)
(* Changes of the heap.                                                    *)
(***************************************************************************)

\* An assignment changes one pointer of one node.
LEMMA PointerSet ==
    ASSUME NEW D, Null \notin D, NEW nd \in [D -> Nodes],
           NEW y \in D \cup {Null}, NEW to \in Names \cup {Null}
    PROVE  /\ SetNext(nd, y, to) \in [D -> Nodes]
           /\ SetPrev(nd, y, to) \in [D -> Nodes]
           /\ \A z \in D :
                /\ SetNext(nd, y, to)[z].next = IF z = y THEN to ELSE nd[z].next
                /\ SetNext(nd, y, to)[z].prev = nd[z].prev
                /\ SetNext(nd, y, to)[z].addr = nd[z].addr
                /\ SetPrev(nd, y, to)[z].next = nd[z].next
                /\ SetPrev(nd, y, to)[z].prev = IF z = y THEN to ELSE nd[z].prev
                /\ SetPrev(nd, y, to)[z].addr = nd[z].addr
<1>1. CASE y = Null
  BY <1>1 DEF SetNext, SetPrev
<1>2. CASE y # Null
  <2>1. y \in D /\ nd[y] \in Nodes
    BY <1>2
  <2>2. /\ [nd[y] EXCEPT !.next = to] \in Nodes
        /\ [nd[y] EXCEPT !.next = to].next = to
        /\ [nd[y] EXCEPT !.next = to].prev = nd[y].prev
        /\ [nd[y] EXCEPT !.next = to].addr = nd[y].addr
    BY <2>1 DEF Nodes
  <2>3. /\ [nd[y] EXCEPT !.prev = to] \in Nodes
        /\ [nd[y] EXCEPT !.prev = to].prev = to
        /\ [nd[y] EXCEPT !.prev = to].next = nd[y].next
        /\ [nd[y] EXCEPT !.prev = to].addr = nd[y].addr
    BY <2>1 DEF Nodes
  <2>4. SetNext(nd, y, to) = [z \in D |-> IF z = y THEN [nd[y] EXCEPT !.next = to] ELSE nd[z]]
    BY <1>2 DEF SetNext
  <2>5. SetPrev(nd, y, to) = [z \in D |-> IF z = y THEN [nd[y] EXCEPT !.prev = to] ELSE nd[z]]
    BY <1>2 DEF SetPrev
  <2>6. \A z \in D : nd[z] \in Nodes
    OBVIOUS
  <2>7. QED
    BY <2>2, <2>3, <2>4, <2>5, <2>6
<1>3. QED
  BY <1>1, <1>2

\* A node c of address a at the end.
LEMMA InsertedLast ==
    ASSUME NEW h, NEW nd, NEW q, Leads(h, nd, q),
           NEW c \in Names, c \notin ToSet(q), NEW a \in Addrs
    PROVE  LET l == Inserted(h, nd, c, a)
           IN  /\ l = [head |-> l.head, node |-> l.node]
               /\ Leads(l.head, l.node, Append(q, c))
               /\ l.node[c].addr = a
               /\ \A x \in ToSet(q) : l.node[x].addr = nd[x].addr
<1> DEFINE l == Inserted(h, nd, c, a)
           all == [x \in DOMAIN nd \cup {c} |-> IF x = c THEN Node(a) ELSE nd[x]]
           s == Append(q, c)
           N == Len(q)
<1>0. /\ q \in Seq(Names) /\ N \in Nat /\ DOMAIN q = 1 .. N /\ DOMAIN nd = ToSet(q)
      /\ s \in Seq(Names) /\ Len(s) = N + 1 /\ DOMAIN s = 1 .. N + 1 /\ s[N + 1] = c
      /\ \A i \in 1 .. N : s[i] = q[i] /\ q[i] \in ToSet(q) /\ q[i] # c
      /\ \A i, j \in 1 .. N : q[i] = q[j] => i = j
  BY DEF Leads, ToSet
<1>1. Chain(h, nd) = q
  BY BothWays
<1>2. ToSet(s) = ToSet(q) \cup {c} /\ Null \notin ToSet(s)
  BY <1>0, NamesAssumption DEF ToSet, Null
<1>3. \A i, j \in DOMAIN s : s[i] = s[j] => i = j
  BY <1>0
<1>4. Node(a) \in Nodes /\ Node(a).next = Null /\ Node(a).prev = Null /\ Node(a).addr = a
  BY DEF Node, Nodes
<1>5. /\ all \in [ToSet(s) -> Nodes]
      /\ all[c] = Node(a) /\ \A x \in ToSet(q) : all[x] = nd[x]
  BY <1>0, <1>2, <1>4 DEF Leads
<1> HIDE DEF all, N, s
<1>6. CASE q = <<>>
  <2>1. h = Null /\ l = [head |-> c, node |-> all] /\ N = 0
    BY <1>0, <1>6 DEF Leads, Inserted, all, N
  <2>2. s # <<>> /\ s[1] = c
    <3>1. Len(s) = 1 /\ s[1] = c
      BY <1>0, <2>1
    <3>2. Len(<<>>) = 0
      OBVIOUS
    <3>3. QED
      BY <3>1, <3>2
  <2>3. ToSet(q) = {}
    BY <1>0, <2>1 DEF ToSet
  <2>4. Leads(c, all, s)
    <3>1. /\ DOMAIN s = {1} /\ Len(s) = 1 /\ s \in Seq(Names)
          /\ all[s[1]].next = Null /\ all[s[1]].prev = Null
      BY <1>0, <1>4, <1>5, <2>1, <2>2
    <3>2. \A i \in DOMAIN s :
             /\ all[s[i]].next = IF i = Len(s) THEN Null ELSE s[i + 1]
             /\ all[s[i]].prev = IF i = 1 THEN Null ELSE s[i - 1]
      BY <3>1
    <3>3. QED
      BY <1>3, <1>5, <2>2, <3>1, <3>2 DEF Leads
  <2>5. QED
    BY <1>4, <1>5, <2>1, <2>3, <2>4 DEF s
<1>7. CASE q # <<>>
  <2> DEFINE last == q[N]
             nx == SetNext(all, last, c)
             pv == SetPrev(nx, c, last)
  <2>1. N \in 1 .. N /\ N # 0 /\ s # <<>> /\ s[1] = q[1] /\ h = q[1]
    <3>1. N # 0
      BY <1>7 DEF N, Leads
    <3>2. h = q[1]
      BY <1>7 DEF Leads
    <3>3. QED
      BY <1>0, <3>1, <3>2
  <2>2. last \in Names /\ last \in ToSet(s) /\ last # Null /\ last # c /\ h # Null /\ c \in ToSet(s)
    BY <1>0, <1>2, <2>1, NamesAssumption DEF Null
  <2>3. l = [head |-> h, node |-> pv]
    BY <1>1, <2>2 DEF Inserted, Last, all, N
  <2>4. nx \in [ToSet(s) -> Nodes] /\ pv \in [ToSet(s) -> Nodes]
    BY <1>2, <1>5, <2>2, PointerSet
  <2>5. \A z \in ToSet(s) : /\ pv[z].next = IF z = last THEN c ELSE all[z].next
                            /\ pv[z].prev = IF z = c THEN last ELSE all[z].prev
                            /\ pv[z].addr = all[z].addr
    <3>1. \A z \in ToSet(s) : /\ nx[z].next = IF z = last THEN c ELSE all[z].next
                              /\ nx[z].prev = all[z].prev /\ nx[z].addr = all[z].addr
      BY <1>2, <1>5, <2>2, PointerSet
    <3>2. \A z \in ToSet(s) : /\ pv[z].prev = IF z = c THEN last ELSE nx[z].prev
                              /\ pv[z].next = nx[z].next /\ pv[z].addr = nx[z].addr
      BY <1>2, <2>2, <2>4, PointerSet
    <3>3. QED
      BY <3>1, <3>2
  <2> HIDE DEF pv, nx
  <2>6. ASSUME NEW i \in DOMAIN s
        PROVE  /\ pv[s[i]].next = IF i = Len(s) THEN Null ELSE s[i + 1]
               /\ pv[s[i]].prev = IF i = 1 THEN Null ELSE s[i - 1]
    <3>0. s[i] \in ToSet(s)
      BY DEF ToSet
    <3>1. CASE i = N + 1
      <4>1. s[i] = c /\ c # last /\ i # 1 /\ s[i - 1] = last /\ i = Len(s)
        BY <1>0, <2>1, <2>2, <3>1
      <4>2. QED
        BY <1>4, <1>5, <2>5, <3>0, <4>1
    <3>2. CASE i \in 1 .. N
      <4>1. /\ s[i] = q[i] /\ s[i] # c /\ all[s[i]] = nd[q[i]] /\ i # Len(s)
            /\ s[i] = last <=> i = N
        BY <1>0, <1>5, <2>1, <3>2
      <4>2. /\ nd[q[i]].next = IF i = N THEN Null ELSE q[i + 1]
            /\ nd[q[i]].prev = IF i = 1 THEN Null ELSE q[i - 1]
        BY <1>0, <3>2 DEF Leads, N
      <4>3. i # 1 => i - 1 \in 1 .. N
        BY <1>0, <3>2
      <4>4. i # N => i + 1 \in 1 .. N
        BY <1>0, <3>2
      <4>5. QED
        BY <1>0, <2>5, <3>0, <3>2, <4>1, <4>2, <4>3, <4>4
    <3>3. QED
      BY <1>0, <3>1, <3>2
  <2>7. Leads(h, pv, s)
    BY <1>0, <1>3, <2>1, <2>4, <2>6 DEF Leads
  <2>8. pv[c].addr = a /\ \A x \in ToSet(q) : pv[x].addr = nd[x].addr
    BY <1>2, <1>4, <1>5, <2>2, <2>5
  <2>9. QED
    BY <2>3, <2>7, <2>8 DEF s
<1>8. QED
  BY <1>6, <1>7

\* A list or a table without what stands at place k.
Without(s, k) == [i \in 1 .. Len(s) - 1 |-> IF i < k THEN s[i] ELSE s[i + 1]]

\* The kth node taken out.
LEMMA RemovedKth ==
    ASSUME NEW h, NEW nd, NEW q, Leads(h, nd, q), NEW k \in DOMAIN q
    PROVE  LET l == Removed(h, nd, q[k])
           IN  /\ l = [head |-> l.head, node |-> l.node]
               /\ Leads(l.head, l.node, Without(q, k))
               /\ \A i \in DOMAIN Without(q, k) :
                     l.node[Without(q, k)[i]].addr = nd[Without(q, k)[i]].addr
<1> DEFINE N == Len(q)
           D == ToSet(q)
           c == q[k]
           s == Without(q, k)
           p == nd[c].prev
           x == nd[c].next
           nx == SetNext(nd, p, x)
           pv == SetPrev(nx, x, p)
           rest == Restrict(pv, DOMAIN nd \ {c})
           first == IF p = Null THEN x ELSE h
<1>0. /\ q \in Seq(Names) /\ N \in Nat /\ DOMAIN q = 1 .. N /\ DOMAIN nd = D
      /\ nd \in [D -> Nodes] /\ k \in 1 .. N /\ Null \notin D
      /\ \A i \in 1 .. N : q[i] \in D /\ q[i] \in Names /\ q[i] # Null
      /\ \A i, j \in 1 .. N : q[i] = q[j] => i = j
      /\ \A i \in 1 .. N : /\ nd[q[i]].next = IF i = N THEN Null ELSE q[i + 1]
                           /\ nd[q[i]].prev = IF i = 1 THEN Null ELSE q[i - 1]
  BY NamesAssumption DEF Leads, ToSet, Null
<1>num. N \in Nat /\ k \in 1 .. N /\ k \in Nat
  <2> HIDE DEF N, D, s
  <2>1. N \in Nat /\ k \in 1 .. N
    BY <1>0
  <2>2. QED
    BY <2>1
<1>dom. nd \in [D -> Nodes] /\ Null \notin D
  BY <1>0
<1>1. Removed(h, nd, c) = [head |-> first, node |-> rest] /\ h = q[1]
  <2>1. q # <<>>
    OBVIOUS
  <2>2. QED
    BY <2>1 DEF Removed, Leads
<1>2. /\ s \in Seq(Names) /\ Len(s) = N - 1 /\ DOMAIN s = 1 .. N - 1
      /\ \A i \in 1 .. N - 1 : s[i] = (IF i < k THEN q[i] ELSE q[i + 1]) /\ s[i] # c
  <2>1. s = [i \in 1 .. N - 1 |-> IF i < k THEN q[i] ELSE q[i + 1]]
    BY DEF Without
  <2>2. \A i \in 1 .. N - 1 : i \in 1 .. N /\ i + 1 \in 1 .. N
    BY <1>num
  <2>3. N - 1 \in Nat
    BY <1>num
  <2>4. \A i \in 1 .. N - 1 : (IF i < k THEN q[i] ELSE q[i + 1]) \in Names
    BY <1>0, <2>2
  <2>5. s \in [1 .. N - 1 -> Names]
    BY <2>1, <2>4
  <2>6. s \in Seq(Names) /\ Len(s) = N - 1 /\ DOMAIN s = 1 .. N - 1
    <3> HIDE DEF s, N
    <3> QED
      BY <2>3, <2>5
  <2>7. \A i \in 1 .. N - 1 : s[i] # c
    <3> SUFFICES ASSUME NEW i \in 1 .. N - 1 PROVE s[i] # c
      OBVIOUS
    <3>2. i < k => i # k
      BY <1>num
    <3>3. ~(i < k) => i + 1 # k
      BY <1>num
    <3>4. s[i] = (IF i < k THEN q[i] ELSE q[i + 1])
      BY <2>1
    <3>5. QED
      BY <1>0, <2>2, <3>2, <3>3, <3>4
  <2>8. QED
    BY <2>1, <2>6, <2>7
<1>3. ToSet(s) = D \ {c}
  <2>1. \A i \in 1 .. N - 1 : s[i] \in D \ {c}
    <3>1. \A i \in 1 .. N - 1 : i \in 1 .. N /\ i + 1 \in 1 .. N
      BY <1>num
    <3>2. QED
      BY <1>0, <1>2, <3>1
  <2>2. ASSUME NEW i \in 1 .. N, q[i] # c PROVE q[i] \in ToSet(s)
    <3>1. i # k
      BY <2>2
    <3>2. CASE i < k
      <4>1. i \in 1 .. N - 1
        BY <1>num, <3>2
      <4>2. s[i] = q[i]
        BY <1>2, <3>2, <4>1
      <4>3. QED
        BY <1>2, <4>1, <4>2 DEF ToSet
    <3>3. CASE i > k
      <4>1. i - 1 \in 1 .. N - 1 /\ ~(i - 1 < k) /\ i - 1 + 1 = i
        BY <1>num, <3>3
      <4>2. s[i - 1] = q[i]
        BY <1>2, <4>1
      <4>3. QED
        BY <1>2, <4>1, <4>2 DEF ToSet
    <3>4. QED
      BY <1>num, <3>1, <3>2, <3>3
  <2>3. ToSet(s) = {s[i] : i \in 1 .. N - 1} /\ D = {q[i] : i \in 1 .. N}
    BY <1>0, <1>2 DEF ToSet
  <2>4. QED
    BY <2>1, <2>2, <2>3
<1> HIDE DEF N, D, s
<1>4. /\ p = IF k = 1 THEN Null ELSE q[k - 1]
      /\ x = IF k = N THEN Null ELSE q[k + 1]
      /\ k # 1 => k - 1 \in 1 .. N /\ q[k - 1] \in D
      /\ k # N => k + 1 \in 1 .. N /\ q[k + 1] \in D
  <2>1. (k # 1 => k - 1 \in 1 .. N) /\ (k # N => k + 1 \in 1 .. N)
    BY <1>0
  <2>2. QED
    BY <1>0, <2>1
<1>5. p \in D \cup {Null} /\ x \in D \cup {Null} /\ p \in Names \cup {Null} /\ x \in Names \cup {Null}
  BY <1>0, <1>4
<1> HIDE DEF p, x
<1>6. /\ nx \in [D -> Nodes] /\ pv \in [D -> Nodes]
      /\ \A z \in D : /\ pv[z].next = IF z = p THEN x ELSE nd[z].next
                      /\ pv[z].prev = IF z = x THEN p ELSE nd[z].prev
                      /\ pv[z].addr = nd[z].addr
  <2>1. nx \in [D -> Nodes] /\ \A z \in D : /\ nx[z].next = IF z = p THEN x ELSE nd[z].next
                                            /\ nx[z].prev = nd[z].prev /\ nx[z].addr = nd[z].addr
    BY <1>dom, <1>5, PointerSet
  <2> HIDE DEF nx
  <2>2. pv \in [D -> Nodes] /\ \A z \in D : /\ pv[z].prev = IF z = x THEN p ELSE nx[z].prev
                                            /\ pv[z].next = nx[z].next /\ pv[z].addr = nx[z].addr
    BY <1>dom, <1>5, <2>1, PointerSet
  <2>3. QED
    BY <2>1, <2>2
<1> HIDE DEF pv
<1>7. rest \in [ToSet(s) -> Nodes] /\ \A z \in ToSet(s) : rest[z] = pv[z]
  BY <1>0, <1>3, <1>6 DEF Restrict
<1> HIDE DEF rest
<1>8. ASSUME NEW i \in 1 .. N - 1
      PROVE  /\ rest[s[i]].next = IF i = N - 1 THEN Null ELSE s[i + 1]
             /\ rest[s[i]].prev = IF i = 1 THEN Null ELSE s[i - 1]
             /\ rest[s[i]].addr = nd[s[i]].addr
  <2>0. s[i] \in ToSet(s) /\ s[i] \in D
    BY <1>2, <1>3 DEF ToSet
  <2>1. /\ rest[s[i]].next = IF s[i] = p THEN x ELSE nd[s[i]].next
        /\ rest[s[i]].prev = IF s[i] = x THEN p ELSE nd[s[i]].prev
        /\ rest[s[i]].addr = nd[s[i]].addr
    BY <1>6, <1>7, <2>0
  <2>2. CASE i < k
    <3>1. i \in 1 .. N /\ i # N /\ i + 1 \in 1 .. N /\ s[i] = q[i]
      BY <1>0, <1>2, <2>2
    <3>2. s[i] # x
      BY <1>0, <1>4, <2>2, <3>1
    <3>3. s[i] = p <=> i = k - 1
      BY <1>0, <1>4, <2>2, <3>1
    <3>4. rest[s[i]].prev = IF i = 1 THEN Null ELSE s[i - 1]
      <4>1. i # 1 => i - 1 \in 1 .. N - 1 /\ i - 1 < k
        BY <1>0, <2>2
      <4>2. QED
        BY <1>0, <1>2, <2>1, <3>1, <3>2, <4>1
    <3>5. CASE i = k - 1
      <4>1. (i = N - 1 <=> k = N) /\ i + 1 = k /\ (k # N => k \in 1 .. N - 1)
        BY <1>0, <3>5
      <4>2. k # N => s[k] = q[k + 1]
        BY <1>2, <4>1
      <4>3. QED
        BY <1>4, <2>1, <3>3, <3>4, <3>5, <4>1, <4>2
    <3>6. CASE i < k - 1
      <4>1. i # N - 1 /\ i + 1 \in 1 .. N - 1 /\ i + 1 < k /\ i # k - 1
        BY <1>0, <3>6
      <4>2. QED
        BY <1>0, <1>2, <2>1, <3>1, <3>3, <3>4, <4>1
    <3>7. QED
      BY <1>num, <2>2, <3>5, <3>6
  <2>3. CASE i >= k
    <3>1. i + 1 \in 1 .. N /\ i + 1 # 1 /\ s[i] = q[i + 1] /\ i + 1 - 1 = i
      BY <1>0, <1>2, <2>3
    <3>2. s[i] # p
      BY <1>0, <1>4, <2>3, <3>1
    <3>3. s[i] = x <=> i = k
      BY <1>0, <1>4, <2>3, <3>1
    <3>4. rest[s[i]].next = IF i = N - 1 THEN Null ELSE s[i + 1]
      <4>1. /\ i = N - 1 <=> i + 1 = N
            /\ i # N - 1 => i + 1 \in 1 .. N - 1 /\ ~(i + 1 < k)
        BY <1>0, <2>3
      <4>2. QED
        BY <1>0, <1>2, <2>1, <3>1, <3>2, <4>1
    <3>5. CASE i = k
      <4>1. k # 1 => k - 1 \in 1 .. N - 1 /\ k - 1 < k
        BY <1>0
      <4>2. k # 1 => s[k - 1] = q[k - 1]
        BY <1>2, <4>1
      <4>3. QED
        BY <1>4, <2>1, <3>3, <3>4, <3>5, <4>2
    <3>6. CASE i > k
      <4>1. i # 1 /\ i - 1 \in 1 .. N - 1 /\ ~(i - 1 < k) /\ i # k /\ i - 1 + 1 = i
        BY <1>0, <3>6
      <4>2. s[i - 1] = q[i]
        BY <1>2, <4>1
      <4>3. nd[q[i + 1]].prev = q[i]
        BY <1>0, <3>1
      <4>4. QED
        BY <2>1, <3>1, <3>3, <3>4, <4>1, <4>2, <4>3
    <3>7. QED
      BY <1>num, <2>3, <3>5, <3>6
  <2>4. QED
    BY <1>0, <2>2, <2>3
<1>9. \A i, j \in DOMAIN s : s[i] = s[j] => i = j
  <2> SUFFICES ASSUME NEW i \in 1 .. N - 1, NEW j \in 1 .. N - 1, s[i] = s[j] PROVE i = j
    BY <1>2
  <2>1. i \in 1 .. N /\ i + 1 \in 1 .. N /\ j \in 1 .. N /\ j + 1 \in 1 .. N
    BY <1>0
  <2>2. /\ s[i] = IF i < k THEN q[i] ELSE q[i + 1]
        /\ s[j] = IF j < k THEN q[j] ELSE q[j + 1]
    BY <1>2
  <2>3. \A a, b \in 1 .. N : q[a] = q[b] => a = b
    BY <1>0
  <2>4. CASE i < k /\ j < k
    BY <2>1, <2>2, <2>3, <2>4
  <2>5. CASE i < k /\ ~(j < k)
    <3>1. i = j + 1
      BY <2>1, <2>2, <2>3, <2>5
    <3>2. QED
      BY <1>num, <2>5, <3>1
  <2>6. CASE ~(i < k) /\ j < k
    <3>1. i + 1 = j
      BY <2>1, <2>2, <2>3, <2>6
    <3>2. QED
      BY <1>num, <2>6, <3>1
  <2>7. CASE ~(i < k) /\ ~(j < k)
    <3>1. i + 1 = j + 1
      BY <2>1, <2>2, <2>3, <2>7
    <3>2. QED
      BY <1>num, <3>1
  <2>8. QED
    BY <2>4, <2>5, <2>6, <2>7
<1>10. first = IF s = <<>> THEN Null ELSE s[1]
  <2>1. s = <<>> <=> N = 1
    BY <1>0, <1>2
  <2>2. N # 1 => 1 \in 1 .. N - 1
    BY <1>0
  <2>3. CASE k = 1
    BY <1>0, <1>2, <1>4, <2>1, <2>2, <2>3
  <2>4. CASE k # 1
    <3>1. N # 1 /\ 1 < k /\ p # Null
      BY <1>0, <1>4, <2>4
    <3>2. QED
      BY <1>1, <1>2, <2>1, <2>2, <3>1
  <2>5. QED
    BY <2>3, <2>4
<1>11. Leads(first, rest, s)
  BY <1>2, <1>7, <1>8, <1>9, <1>10 DEF Leads
<1>12. QED
  BY <1>1, <1>2, <1>8, <1>11 DEF s, N

-----------------------------------------------------------------------------
(***************************************************************************)
(* Whatever the pointers are, the sort and the changes of the list keep    *)
(* the nodes and their addresses.                                          *)
(***************************************************************************)
Shaped(nd) ==
    \A c \in DOMAIN nd :
        nd[c] = [next |-> nd[c].next, prev |-> nd[c].prev, addr |-> nd[c].addr]

\* md differs from nd in pointers alone.
Kept(nd, md) ==
    /\ DOMAIN md = DOMAIN nd
    /\ Shaped(md)
    /\ \A c \in DOMAIN nd : md[c].addr = nd[c].addr

LEMMA PointerKeeps ==
    ASSUME NEW nd, Shaped(nd), NEW y, NEW to
    PROVE  /\ Kept(nd, [nd EXCEPT ![y].next = to])
           /\ Kept(nd, [nd EXCEPT ![y].prev = to])
           /\ Kept(nd, SetNext(nd, y, to))
           /\ Kept(nd, SetPrev(nd, y, to))
<1>1. Kept(nd, nd)
  BY DEF Kept
<1>2. Kept(nd, [nd EXCEPT ![y].next = to])
  <2> DEFINE md == [nd EXCEPT ![y].next = to]
  <2>1. DOMAIN md = DOMAIN nd
    OBVIOUS
  <2>2. ASSUME NEW c \in DOMAIN nd
        PROVE  /\ md[c] = [next |-> md[c].next, prev |-> md[c].prev, addr |-> md[c].addr]
               /\ md[c].addr = nd[c].addr
    <3>1. nd[c] = [next |-> nd[c].next, prev |-> nd[c].prev, addr |-> nd[c].addr]
      BY DEF Shaped
    <3>2. md[c] = IF c = y THEN [nd[c] EXCEPT !.next = to] ELSE nd[c]
      OBVIOUS
    <3> HIDE DEF md
    <3>3. CASE c = y
      BY <3>1, <3>2, <3>3
    <3>4. CASE c # y
      BY <3>1, <3>2, <3>4
    <3>5. QED
      BY <3>3, <3>4
  <2> HIDE DEF md
  <2>3. Kept(nd, md)
    BY <2>1, <2>2 DEF Kept, Shaped
  <2>4. QED
    BY <2>3 DEF md
<1>3. Kept(nd, [nd EXCEPT ![y].prev = to])
  <2> DEFINE md == [nd EXCEPT ![y].prev = to]
  <2>1. DOMAIN md = DOMAIN nd
    OBVIOUS
  <2>2. ASSUME NEW c \in DOMAIN nd
        PROVE  /\ md[c] = [next |-> md[c].next, prev |-> md[c].prev, addr |-> md[c].addr]
               /\ md[c].addr = nd[c].addr
    <3>1. nd[c] = [next |-> nd[c].next, prev |-> nd[c].prev, addr |-> nd[c].addr]
      BY DEF Shaped
    <3>2. md[c] = IF c = y THEN [nd[c] EXCEPT !.prev = to] ELSE nd[c]
      OBVIOUS
    <3> HIDE DEF md
    <3>3. CASE c = y
      BY <3>1, <3>2, <3>3
    <3>4. CASE c # y
      BY <3>1, <3>2, <3>4
    <3>5. QED
      BY <3>3, <3>4
  <2> HIDE DEF md
  <2>3. Kept(nd, md)
    BY <2>1, <2>2 DEF Kept, Shaped
  <2>4. QED
    BY <2>3 DEF md
<1>4. QED
  BY <1>1, <1>2, <1>3 DEF SetNext, SetPrev

LEMMA KeptOn ==
    ASSUME NEW nd, NEW md, NEW ld, Kept(nd, md), Kept(md, ld)
    PROVE  Kept(nd, ld) /\ Shaped(md)
BY DEF Kept

LEMMA MoveKeeps ==
    ASSUME NEW nd, Shaped(nd), NEW h, NEW c, NEW x, NEW t
    PROVE  Kept(nd, Move(h, nd, c, x, t).node)
<1> DEFINE after == nd[x].next
           a == SetNext(nd, c, after)
           out == SetPrev(a, after, c)
           p == out[t].prev
           b == [out EXCEPT ![x].next = t]
           in == [b EXCEPT ![x].prev = p]
           led == SetNext(in, in[t].prev, x)
           end == SetPrev(led, led[t].next, x)
<1>1. Kept(nd, a)
  BY PointerKeeps
<1>2. Shaped(a)
  BY <1>1 DEF Kept
<1> HIDE DEF a, after
<1>3. Kept(a, out)
  BY <1>2, PointerKeeps
<1>4. Shaped(out)
  BY <1>3 DEF Kept
<1> HIDE DEF out, p
<1>5. Kept(out, b)
  BY <1>4, PointerKeeps
<1>6. Shaped(b)
  BY <1>5 DEF Kept
<1> HIDE DEF b
<1>7. Kept(b, in)
  BY <1>6, PointerKeeps
<1>8. Shaped(in)
  BY <1>7 DEF Kept
<1> HIDE DEF in
<1>9. Kept(in, led)
  BY <1>8, PointerKeeps
<1>10. Shaped(led)
  BY <1>9 DEF Kept
<1> HIDE DEF led
<1>11. Kept(led, end)
  BY <1>10, PointerKeeps
<1> HIDE DEF end
<1>12. Kept(nd, end)
  <2>1. Kept(nd, out)
    BY <1>1, <1>3, KeptOn
  <2>2. Kept(nd, b)
    BY <1>5, <2>1, KeptOn
  <2>3. Kept(nd, in)
    BY <1>7, <2>2, KeptOn
  <2>4. Kept(nd, led)
    BY <1>9, <2>3, KeptOn
  <2>5. QED
    BY <1>11, <2>4, KeptOn
<1>13. Move(h, nd, c, x, t).node = end
  BY DEF Move, end, led, in, b, p, out, a, after
<1>14. QED
  BY <1>12, <1>13

LEMMA SortKeeps ==
    ASSUME NEW nd, Shaped(nd), Cardinality(DOMAIN nd) \in Nat, NEW h
    PROVE  Kept(nd, Sorted(h, nd).node)
<1> DEFINE N == Cardinality(DOMAIN nd)
           turn == Turns(h, nd)
           T == {k \in 0 .. N : ~Kept(nd, turn[k].node)}
<1>1. /\ N \in Nat /\ turn[0].node = nd /\ Sorted(h, nd) = turn[N]
      /\ \A k \in 1 .. N : turn[k] = IF turn[k - 1].at = Null THEN turn[k - 1]
                                     ELSE SortTurn(turn[k - 1])
  <2>1. turn[0] = [head |-> h, node |-> nd, at |-> h, moved |-> FALSE]
    BY TurnsGoOn
  <2>2. \A k \in 1 .. N : turn[k] = IF turn[k - 1].at = Null THEN turn[k - 1]
                                    ELSE SortTurn(turn[k - 1])
    BY TurnsGoOn
  <2>3. Sorted(h, nd) = turn[N]
    BY TurnsGoOn
  <2> HIDE DEF turn
  <2>4. turn[0].node = nd
    BY <2>1
  <2>5. QED
    BY <2>2, <2>3, <2>4
<1>2. ASSUME NEW l, Shaped(l.node)
      PROVE  Kept(l.node, SortTurn(l).node)
  <2> DEFINE x == l.node[l.at].next
             t == IF x = Null THEN Null ELSE PlaceFor(l.node, x, l.head)
             m == IF t = Null THEN l ELSE Move(l.head, l.node, l.at, x, t)
  <2>1. SortTurn(l).node = m.node
    BY DEF SortTurn
  <2>2. Kept(l.node, l.node)
    BY <1>2 DEF Kept
  <2>3. Kept(l.node, Move(l.head, l.node, l.at, x, t).node)
    BY <1>2, MoveKeeps
  <2>4. m.node = l.node \/ m.node = Move(l.head, l.node, l.at, x, t).node
    OBVIOUS
  <2>5. QED
    BY <2>1, <2>2, <2>3, <2>4
<1> HIDE DEF N, turn
<1>3. T = {}
  <2>1. SUFFICES ASSUME T # {} PROVE FALSE
    OBVIOUS
  <2>2. PICK k \in T : \A m \in T : k <= m
    <3>1. T \subseteq Nat
      BY <1>1
    <3> HIDE DEF T
    <3>2. QED
      BY <2>1, <3>1, LeastStep
  <2>3. k \in 0 .. N /\ ~Kept(nd, turn[k].node)
    OBVIOUS
  <2>4. k # 0
    <3>1. Kept(nd, nd)
      BY DEF Kept
    <3>2. QED
      BY <1>1, <2>3, <3>1
  <2>5. k \in 1 .. N /\ k - 1 \in 0 .. N /\ ~(k <= k - 1)
    BY <1>1, <2>3, <2>4
  <2>6. Kept(nd, turn[k - 1].node)
    BY <2>2, <2>5
  <2>7. turn[k] = turn[k - 1] \/ turn[k] = SortTurn(turn[k - 1])
    BY <1>1, <2>5
  <2>8. Shaped(turn[k - 1].node)
    BY <2>6 DEF Kept
  <2>9. Kept(nd, SortTurn(turn[k - 1]).node)
    BY <1>2, <2>6, <2>8, KeptOn
  <2>10. QED
    BY <2>3, <2>6, <2>7, <2>9
<1>4. QED
  <2>1. N \in 0 .. N
    BY <1>1
  <2>2. QED
    BY <1>1, <1>3, <2>1

\* The list after a step that makes it l: the nodes of l.
LEMMA BecomesKeeps ==
    ASSUME NEW l, Shaped(l.node), Cardinality(DOMAIN l.node) \in Nat, NEW b, Becomes(l, b)
    PROVE  Kept(l.node, node') /\ moved' \in BOOLEAN
<1>1. Kept(l.node, l.node)
  BY DEF Kept
<1>2. Kept(l.node, Sorted(l.head, l.node).node)
  BY SortKeeps
<1>3. node' = l.node \/ node' = Sorted(l.head, l.node).node
  BY DEF Becomes
<1>4. moved' \in BOOLEAN
  BY DEF Becomes
<1>5. QED
  BY <1>1, <1>2, <1>3, <1>4

\* An insertion adds the node, a removal takes it out.
LEMMA InsertedKeeps ==
    ASSUME NEW nd, Shaped(nd), NEW h, NEW c, c \notin DOMAIN nd, NEW a
    PROVE  LET md == Inserted(h, nd, c, a).node
           IN  /\ DOMAIN md = DOMAIN nd \cup {c} /\ Shaped(md)
               /\ md[c].addr = a /\ \A x \in DOMAIN nd : md[x].addr = nd[x].addr
<1> DEFINE all == [x \in DOMAIN nd \cup {c} |-> IF x = c THEN Node(a) ELSE nd[x]]
           last == Last(Chain(h, nd))
           nx == SetNext(all, last, c)
           pv == SetPrev(nx, c, last)
<1>1. /\ DOMAIN all = DOMAIN nd \cup {c} /\ all[c] = Node(a)
      /\ \A x \in DOMAIN nd : all[x] = nd[x]
  OBVIOUS
<1>2. Node(a) = [next |-> Null, prev |-> Null, addr |-> a]
  BY DEF Node
<1> HIDE DEF all, last
<1>3. Shaped(all) /\ all[c].addr = a
  BY <1>1, <1>2 DEF Shaped
<1>4. Kept(all, nx)
  BY <1>3, PointerKeeps
<1>5. Shaped(nx)
  BY <1>4 DEF Kept
<1> HIDE DEF nx
<1>6. Kept(nx, pv)
  BY <1>5, PointerKeeps
<1>7. Kept(all, pv) /\ Kept(all, all)
  BY <1>3, <1>4, <1>6, KeptOn DEF Kept
<1>8. Inserted(h, nd, c, a).node = all \/ Inserted(h, nd, c, a).node = pv
  BY DEF Inserted, all, last, nx, pv
<1> HIDE DEF pv
<1>9. QED
  BY <1>1, <1>3, <1>7, <1>8 DEF Kept

LEMMA RemovedKeeps ==
    ASSUME NEW nd, Shaped(nd), NEW h, NEW c
    PROVE  LET md == Removed(h, nd, c).node
           IN  /\ DOMAIN md = DOMAIN nd \ {c} /\ Shaped(md)
               /\ \A x \in DOMAIN nd \ {c} : md[x].addr = nd[x].addr
<1> DEFINE p == nd[c].prev
           x == nd[c].next
           nx == SetNext(nd, p, x)
           pv == SetPrev(nx, x, p)
           md == Restrict(pv, DOMAIN nd \ {c})
<1> HIDE DEF p, x
<1>1. Kept(nd, nx)
  BY PointerKeeps
<1>2. Shaped(nx)
  BY <1>1 DEF Kept
<1> HIDE DEF nx
<1>3. Kept(nx, pv)
  BY <1>2, PointerKeeps
<1>4. Kept(nd, pv)
  BY <1>1, <1>3, KeptOn
<1> HIDE DEF pv
<1>5. DOMAIN md = DOMAIN nd \ {c} /\ \A z \in DOMAIN nd \ {c} : md[z] = pv[z]
  BY DEF Restrict
<1>6. Removed(h, nd, c).node = md
  BY DEF Removed, md, pv, nx, x, p
<1> HIDE DEF md
<1>7. QED
  BY <1>4, <1>5, <1>6 DEF Kept, Shaped

-----------------------------------------------------------------------------
(***************************************************************************)
(* The table of variables.                                                 *)
(***************************************************************************)
Row == [name : Names, addr : Addrs]

\* Each name once.
RowsSound(r) ==
    /\ r \in Seq(Row)
    /\ \A i, j \in DOMAIN r : r[i].name = r[j].name => i = j

\* The rows are the nodes.
RowsHold(r, nd) ==
    ToSet(r) = {[name |-> x, addr |-> nd[x].addr] : x \in DOMAIN nd}

\* A deletion takes the row k named c out, or none.
LEMMA RowTakenOut ==
    ASSUME NEW r \in Seq(Row), NEW c, NEW k \in 1 .. Len(r) + 1,
           \A j \in DOMAIN r : r[j].name = c <=> j = k
    PROVE  RowsWithout(r, c) = IF k = Len(r) + 1 THEN r ELSE Without(r, k)
<1> DEFINE N == Len(r)
           kept[m \in 0 .. N] ==
              IF m = 0 THEN <<>>
              ELSE LET s == kept[m - 1]
                   IN  IF r[m].name = c THEN s ELSE Append(s, r[m])
           up(m) == [i \in 1 .. m |-> r[i]]
           down(m) == [i \in 1 .. m - 1 |-> IF i < k THEN r[i] ELSE r[i + 1]]
           w == [m \in 0 .. N |-> IF m < k THEN up(m) ELSE down(m)]
<1>1. N \in Nat /\ DOMAIN r = 1 .. N /\ \A i \in 1 .. N : r[i] \in Row
  OBVIOUS
<1>2. w[0] = <<>>
  <2>1. 0 < k /\ 0 \in 0 .. N
    BY <1>1
  <2>2. up(0) = <<>>
    OBVIOUS
  <2>3. QED
    BY <2>1, <2>2
<1> HIDE DEF N
<1>3. ASSUME NEW m \in 1 .. N
      PROVE  w[m] = LET s == w[m - 1]
                    IN  IF r[m].name = c THEN s ELSE Append(s, r[m])
  <2>1. /\ m \in Nat /\ k \in Nat /\ k >= 1 /\ m - 1 \in 0 .. N /\ m \in 0 .. N /\ m \in 1 .. N
        /\ r[m].name = c <=> m = k
    BY <1>1 DEF N
  <2>2. CASE m < k
    <3>1. w[m] = up(m) /\ w[m - 1] = up(m - 1) /\ r[m].name # c
      BY <2>1, <2>2
    <3>2. up(m - 1) \in Seq(Row) /\ Len(up(m - 1)) = m - 1
      BY <1>1, <2>1
    <3>3. Append(up(m - 1), r[m]) = up(m)
      BY <1>1, <2>1, <3>2
    <3>4. QED
      BY <3>1, <3>3
  <2>3. CASE m = k
    <3>1. w[m] = down(m) /\ w[m - 1] = up(m - 1) /\ r[m].name = c
      BY <2>1, <2>3
    <3>2. down(m) = up(m - 1)
      BY <2>1, <2>3
    <3>3. QED
      BY <3>1, <3>2
  <2>4. CASE m > k
    <3>1. w[m] = down(m) /\ w[m - 1] = down(m - 1) /\ r[m].name # c
      BY <2>1, <2>4
    <3>2. down(m - 1) \in Seq(Row) /\ Len(down(m - 1)) = m - 2
      <4>1. m - 1 - 1 = m - 2 /\ m - 2 \in Nat
        BY <2>1, <2>4
      <4>2. \A i \in 1 .. m - 2 : i \in 1 .. N /\ i + 1 \in 1 .. N
        BY <1>1, <2>1
      <4>3. down(m - 1) \in [1 .. m - 2 -> Row]
        BY <1>1, <4>1, <4>2
      <4>4. QED
        BY <4>1, <4>3
    <3>3. Append(down(m - 1), r[m]) = down(m)
      <4>1. /\ DOMAIN Append(down(m - 1), r[m]) = 1 .. m - 1
            /\ \A i \in 1 .. m - 2 : Append(down(m - 1), r[m])[i] = down(m - 1)[i]
            /\ Append(down(m - 1), r[m])[m - 1] = r[m]
        BY <2>1, <2>4, <3>2
      <4>2. \A i \in 1 .. m - 1 : i = m - 1 \/ i \in 1 .. m - 2
        BY <2>1
      <4>3. down(m)[m - 1] = r[m]
        BY <2>1, <2>4
      <4>4. \A i \in 1 .. m - 2 : down(m - 1)[i] = down(m)[i]
        BY <2>1, <2>4
      <4>5. Append(down(m - 1), r[m]) = [i \in 1 .. m - 1 |-> Append(down(m - 1), r[m])[i]]
        <5> HIDE DEF down
        <5>1. r[m] \in Row
          BY <1>1
        <5>2. Append(down(m - 1), r[m]) \in Seq(Row)
          BY <3>2, <5>1
        <5>3. QED
          BY <4>1, <5>2
      <4>6. QED
        BY <4>1, <4>2, <4>3, <4>4, <4>5
    <3>4. QED
      BY <3>1, <3>3
  <2>5. QED
    BY <2>1, <2>2, <2>3, <2>4
<1>4. w = [m \in 0 .. N |->
             IF m = 0 THEN <<>>
             ELSE LET s == w[m - 1]
                  IN  IF r[m].name = c THEN s ELSE Append(s, r[m])]
  <2>1. \A m \in 0 .. N : m = 0 \/ m \in 1 .. N
    BY <1>1
  <2> QED
    BY <1>2, <1>3, <2>1
<1>5. kept = [m \in 0 .. N |->
                IF m = 0 THEN <<>>
                ELSE LET s == kept[m - 1]
                     IN  IF r[m].name = c THEN s ELSE Append(s, r[m])]
  <2> HIDE DEF w
  <2> QED
    BY <1>4
<1>6. kept[N] = w[N]
  <2> HIDE DEF w, kept, up, down
  <2>1. kept[0] = w[0]
    BY <1>1, <1>2, <1>5
  <2>2. \A m \in 1 .. N : kept[m - 1] = w[m - 1] => kept[m] = w[m]
    <3> SUFFICES ASSUME NEW m \in 1 .. N, kept[m - 1] = w[m - 1] PROVE kept[m] = w[m]
      OBVIOUS
    <3>1. m \in 0 .. N /\ m # 0
      BY <1>1
    <3>2. QED
      BY <1>3, <1>5, <3>1
  <2>3. N \in Nat /\ N \in 0 .. N
    BY <1>1
  <2>4. GoAlike(N, kept, w)
    BY <2>1, <2>2 DEF GoAlike
  <2>5. QED
    BY <2>3, <2>4, SameSteps
<1>7. w[N] = IF k = N + 1 THEN r ELSE Without(r, k)
  <2>1. N < k <=> k = N + 1
    BY <1>1 DEF N
  <2>2. up(N) = r
    BY <1>1
  <2>3. down(N) = Without(r, k)
    BY DEF Without, N
  <2>4. N \in 0 .. N
    BY <1>1
  <2>5. QED
    BY <2>1, <2>2, <2>3, <2>4
<1>8. QED
  BY <1>6, <1>7 DEF RowsWithout, N

\* The order of the nodes and their addresses make the heap.
LEMMA OneHeap ==
    ASSUME NEW q, NEW h, NEW nd, NEW g, NEW md, Leads(h, nd, q), Leads(g, md, q),
           \A i \in DOMAIN q : nd[q[i]].addr = md[q[i]].addr
    PROVE  h = g /\ nd = md
<1>1. h = g
  BY DEF Leads
<1>2. ASSUME NEW x \in ToSet(q) PROVE nd[x] = md[x]
  <2>1. PICK i \in DOMAIN q : x = q[i]
    BY DEF ToSet
  <2>2. nd[x].next = md[x].next /\ nd[x].prev = md[x].prev /\ nd[x].addr = md[x].addr
    BY <2>1 DEF Leads
  <2>3. nd[x] \in Nodes /\ md[x] \in Nodes
    BY DEF Leads
  <2>4. QED
    BY <2>2, <2>3 DEF Nodes
<1>3. QED
  BY <1>1, <1>2 DEF Leads

\* The first k names of the table.
NamesOf(r, k) == [i \in 1 .. k |-> r[i].name]

\* The heap after k rows of the table.
HeapOf(r, k) ==
    [head |-> IF k = 0 THEN Null ELSE r[1].name,
     node |-> [c \in ToSet(NamesOf(r, k)) |->
                LET i == CHOOSE j \in 1 .. k : r[j].name = c
                IN  [next |-> IF i = k THEN Null ELSE r[i + 1].name,
                     prev |-> IF i = 1 THEN Null ELSE r[i - 1].name,
                     addr |-> r[i].addr]]]

LEMMA RowNames ==
    ASSUME NEW r, RowsSound(r), NEW k \in 0 .. Len(r)
    PROVE  /\ NamesOf(r, k) \in Seq(Names)
           /\ Len(NamesOf(r, k)) = k /\ DOMAIN NamesOf(r, k) = 1 .. k
           /\ \A i \in 1 .. k : /\ NamesOf(r, k)[i] = r[i].name
                                /\ r[i].name \in Names /\ r[i].addr \in Addrs
                                /\ i \in 1 .. Len(r)
           /\ \A i, j \in 1 .. k : r[i].name = r[j].name => i = j
           /\ ToSet(NamesOf(r, k)) = {r[i].name : i \in 1 .. k}
<1>1. Len(r) \in Nat /\ k \in Nat /\ r \in Seq(Row) /\ DOMAIN r = 1 .. Len(r)
  BY DEF RowsSound
<1>2. \A i \in 1 .. k : i \in 1 .. Len(r)
  BY <1>1
<1>3. \A i \in 1 .. k : r[i] \in Row
  BY <1>1, <1>2
<1>4. \A i \in 1 .. k : r[i].name \in Names /\ r[i].addr \in Addrs
  BY <1>3 DEF Row
<1>5. NamesOf(r, k) \in [1 .. k -> Names]
  BY <1>4 DEF NamesOf
<1>6. NamesOf(r, k) \in Seq(Names) /\ Len(NamesOf(r, k)) = k
  BY <1>1, <1>5
<1>7. \A i, j \in 1 .. k : r[i].name = r[j].name => i = j
  BY <1>1, <1>2 DEF RowsSound
<1>8. \A i \in 1 .. k : NamesOf(r, k)[i] = r[i].name
  BY DEF NamesOf
<1>9. ToSet(NamesOf(r, k)) = {r[i].name : i \in 1 .. k}
  BY <1>5, <1>8 DEF ToSet
<1>10. QED
  BY <1>2, <1>4, <1>5, <1>6, <1>7, <1>8, <1>9

LEMMA HeapLeads ==
    ASSUME NEW r, RowsSound(r), NEW k \in 0 .. Len(r)
    PROVE  /\ Leads(HeapOf(r, k).head, HeapOf(r, k).node, NamesOf(r, k))
           /\ \A i \in 1 .. k : HeapOf(r, k).node[r[i].name].addr = r[i].addr
<1> DEFINE nd == HeapOf(r, k).node
           q == NamesOf(r, k)
           D == ToSet(q)
<1>1. /\ q \in Seq(Names) /\ Len(q) = k /\ DOMAIN q = 1 .. k /\ k \in Nat
      /\ \A i \in 1 .. k : /\ q[i] = r[i].name /\ r[i].name \in Names /\ r[i].addr \in Addrs
      /\ \A i, j \in 1 .. k : r[i].name = r[j].name => i = j
      /\ D = {r[i].name : i \in 1 .. k}
  BY RowNames
<1>2. \A i \in 1 .. k :
         /\ r[i].name \in D
         /\ nd[r[i].name].next = IF i = k THEN Null ELSE r[i + 1].name
         /\ nd[r[i].name].prev = IF i = 1 THEN Null ELSE r[i - 1].name
         /\ nd[r[i].name].addr = r[i].addr
         /\ nd[r[i].name] \in Nodes
  <2> SUFFICES ASSUME NEW i \in 1 .. k
               PROVE  /\ r[i].name \in D
                      /\ nd[r[i].name].next = IF i = k THEN Null ELSE r[i + 1].name
                      /\ nd[r[i].name].prev = IF i = 1 THEN Null ELSE r[i - 1].name
                      /\ nd[r[i].name].addr = r[i].addr
                      /\ nd[r[i].name] \in Nodes
    OBVIOUS
  <2> DEFINE m == CHOOSE j \in 1 .. k : r[j].name = r[i].name
  <2>1. m = i
    BY <1>1
  <2>2. r[i].name \in D
    BY <1>1
  <2>3. nd[r[i].name] = [next |-> IF m = k THEN Null ELSE r[m + 1].name,
                         prev |-> IF m = 1 THEN Null ELSE r[m - 1].name,
                         addr |-> r[m].addr]
    BY <2>2 DEF HeapOf
  <2> HIDE DEF m, nd, D
  <2>4. nd[r[i].name] = [next |-> IF i = k THEN Null ELSE r[i + 1].name,
                         prev |-> IF i = 1 THEN Null ELSE r[i - 1].name,
                         addr |-> r[i].addr]
    BY <2>1, <2>3
  <2>5. (i # k => i + 1 \in 1 .. k) /\ (i # 1 => i - 1 \in 1 .. k)
    BY <1>1
  <2>6. nd[r[i].name] \in Nodes
    BY <1>1, <2>4, <2>5 DEF Nodes
  <2>7. QED
    BY <2>2, <2>4, <2>6
<1>3. DOMAIN nd = D /\ nd = [c \in D |-> nd[c]]
  BY DEF HeapOf
<1>4. HeapOf(r, k).head = IF k = 0 THEN Null ELSE r[1].name
  BY DEF HeapOf
<1> HIDE DEF nd, D, q
<1>5. nd \in [D -> Nodes]
  <2>1. \A c \in D : nd[c] \in Nodes
    BY <1>1, <1>2
  <2>2. QED
    BY <1>3, <2>1
<1>6. \A i \in 1 .. k :
         /\ nd[q[i]].next = IF i = k THEN Null ELSE q[i + 1]
         /\ nd[q[i]].prev = IF i = 1 THEN Null ELSE q[i - 1]
         /\ nd[r[i].name].addr = r[i].addr
  <2> SUFFICES ASSUME NEW i \in 1 .. k
               PROVE  /\ nd[q[i]].next = IF i = k THEN Null ELSE q[i + 1]
                      /\ nd[q[i]].prev = IF i = 1 THEN Null ELSE q[i - 1]
                      /\ nd[r[i].name].addr = r[i].addr
    OBVIOUS
  <2>1. (i # k => i + 1 \in 1 .. k) /\ (i # 1 => i - 1 \in 1 .. k)
    BY <1>1
  <2>2. /\ nd[r[i].name].next = IF i = k THEN Null ELSE r[i + 1].name
        /\ nd[r[i].name].prev = IF i = 1 THEN Null ELSE r[i - 1].name
        /\ nd[r[i].name].addr = r[i].addr
    BY <1>2
  <2>3. q[i] = r[i].name
    BY <1>1
  <2>4. /\ i # k => q[i + 1] = r[i + 1].name
        /\ i # 1 => q[i - 1] = r[i - 1].name
    BY <1>1, <2>1
  <2>5. QED
    BY <2>2, <2>3, <2>4
<1>7. HeapOf(r, k).head = IF q = <<>> THEN Null ELSE q[1]
  <2>1. k # 0 => 1 \in 1 .. k
    BY <1>1
  <2>2. q = <<>> <=> k = 0
    BY <1>1
  <2>3. QED
    BY <1>1, <1>4, <2>1, <2>2
<1>8. Leads(HeapOf(r, k).head, nd, q)
  <2>1. \A i, j \in 1 .. k : q[i] = q[j] => i = j
    BY <1>1
  <2>2. QED
    BY <1>1, <1>5, <1>6, <1>7, <2>1 DEF Leads, D
<1>9. QED
  BY <1>6, <1>8 DEF nd, q

\* A row more, a node more.
LEMMA HeapGrows ==
    ASSUME NEW r, RowsSound(r), NEW k \in 1 .. Len(r)
    PROVE  HeapOf(r, k) = LET l == HeapOf(r, k - 1)
                          IN  Inserted(l.head, l.node, r[k].name, r[k].addr)
<1> DEFINE p == HeapOf(r, k - 1)
           l == Inserted(p.head, p.node, r[k].name, r[k].addr)
           g == HeapOf(r, k)
           q == NamesOf(r, k - 1)
<1>1. /\ k - 1 \in 0 .. Len(r) /\ k \in 0 .. Len(r)
      /\ k \in Nat /\ k \in 1 .. k /\ k \notin 1 .. k - 1
      /\ \A i \in 1 .. k : i = k \/ i \in 1 .. k - 1
      /\ \A i \in 1 .. k - 1 : i \in 1 .. k
  BY DEF RowsSound
<1>2. Leads(p.head, p.node, q) /\ \A i \in 1 .. k - 1 : p.node[r[i].name].addr = r[i].addr
  BY <1>1, HeapLeads
<1>3. /\ q \in Seq(Names) /\ ToSet(q) = {r[i].name : i \in 1 .. k - 1} /\ Len(q) = k - 1
      /\ \A i \in 1 .. k - 1 : q[i] = r[i].name
  BY <1>1, RowNames
<1>4. r[k].name \in Names /\ r[k].addr \in Addrs /\ \A i \in 1 .. k - 1 : r[i].name # r[k].name
  BY <1>1, RowNames
<1>5. r[k].name \notin ToSet(q)
  BY <1>3, <1>4
<1> HIDE DEF q, p
<1>6. /\ l = [head |-> l.head, node |-> l.node]
      /\ Leads(l.head, l.node, Append(q, r[k].name))
      /\ l.node[r[k].name].addr = r[k].addr
      /\ \A x \in ToSet(q) : l.node[x].addr = p.node[x].addr
  BY <1>2, <1>4, <1>5, InsertedLast
<1> HIDE DEF l, g
<1>7. Append(q, r[k].name) = NamesOf(r, k)
  <2>1. \A i \in 1 .. k : Append(q, r[k].name)[i] = r[i].name
    BY <1>1, <1>3, <1>4
  <2>2. Append(q, r[k].name) \in Seq(Names) /\ Len(Append(q, r[k].name)) = k
    BY <1>1, <1>3, <1>4
  <2>3. QED
    BY <2>1, <2>2 DEF NamesOf
<1>8. Leads(g.head, g.node, NamesOf(r, k)) /\ \A i \in 1 .. k : g.node[r[i].name].addr = r[i].addr
  BY <1>1, HeapLeads DEF g
<1>9. \A i \in 1 .. k : l.node[r[i].name].addr = r[i].addr
  BY <1>1, <1>2, <1>3, <1>6
<1>10. \A i \in DOMAIN NamesOf(r, k) : l.node[NamesOf(r, k)[i]].addr = g.node[NamesOf(r, k)[i]].addr
  BY <1>8, <1>9 DEF NamesOf
<1>11. l.head = g.head /\ l.node = g.node
  BY <1>6, <1>7, <1>8, <1>10, OneHeap
<1>12. g = [head |-> g.head, node |-> g.node]
  BY DEF g, HeapOf
<1>13. QED
  BY <1>6, <1>11, <1>12 DEF l, g, p

\* The load links the rows in their order.
LEMMA LoadedRows ==
    ASSUME NEW r, RowsSound(r)
    PROVE  LET l == Loaded(r)
           IN  /\ Leads(l.head, l.node, NamesOf(r, Len(r)))
               /\ \A i \in DOMAIN r : l.node[r[i].name].addr = r[i].addr
<1> DEFINE N == Len(r)
           loaded[k \in 0 .. N] ==
              IF k = 0 THEN [head |-> Null, node |-> NoNodes]
              ELSE LET l == loaded[k - 1]
                   IN  Inserted(l.head, l.node, r[k].name, r[k].addr)
           w == [k \in 0 .. N |-> HeapOf(r, k)]
<1>1. N \in Nat /\ N \in 0 .. N /\ DOMAIN r = 1 .. N
  BY DEF RowsSound
<1>2. w[0] = [head |-> Null, node |-> NoNodes]
  <2>1. ToSet(NamesOf(r, 0)) = {}
    BY DEF NamesOf, ToSet
  <2>2. HeapOf(r, 0) = [head |-> Null, node |-> NoNodes]
    <3>1. HeapOf(r, 0).node = NoNodes
      BY <2>1 DEF HeapOf, NoNodes
    <3>2. HeapOf(r, 0).head = Null
      BY DEF HeapOf
    <3>3. HeapOf(r, 0) = [head |-> HeapOf(r, 0).head, node |-> HeapOf(r, 0).node]
      BY DEF HeapOf
    <3>4. QED
      BY <3>1, <3>2, <3>3
  <2>3. QED
    BY <1>1, <2>2
<1>3. ASSUME NEW k \in 1 .. N
      PROVE  w[k] = LET l == w[k - 1]
                    IN  Inserted(l.head, l.node, r[k].name, r[k].addr)
  <2>1. w[k] = HeapOf(r, k) /\ w[k - 1] = HeapOf(r, k - 1)
    BY <1>1
  <2>2. QED
    BY <2>1, HeapGrows
<1>4. w = [k \in 0 .. N |->
             IF k = 0 THEN [head |-> Null, node |-> NoNodes]
             ELSE LET l == w[k - 1]
                  IN  Inserted(l.head, l.node, r[k].name, r[k].addr)]
  <2>1. \A k \in 0 .. N : k = 0 \/ k \in 1 .. N
    BY <1>1
  <2> QED
    BY <1>2, <1>3, <2>1
<1>5. loaded = [k \in 0 .. N |->
                  IF k = 0 THEN [head |-> Null, node |-> NoNodes]
                  ELSE LET l == loaded[k - 1]
                       IN  Inserted(l.head, l.node, r[k].name, r[k].addr)]
  <2> HIDE DEF w
  <2> QED
    BY <1>4
<1>6. loaded[N] = w[N]
  <2> HIDE DEF w, loaded, N
  <2>1. loaded[0] = w[0]
    BY <1>1, <1>2, <1>5
  <2>2. \A k \in 1 .. N : loaded[k - 1] = w[k - 1] => loaded[k] = w[k]
    <3> SUFFICES ASSUME NEW k \in 1 .. N, loaded[k - 1] = w[k - 1] PROVE loaded[k] = w[k]
      OBVIOUS
    <3>1. k \in 0 .. N /\ k # 0
      BY <1>1
    <3>2. QED
      BY <1>3, <1>5, <3>1
  <2>3. GoAlike(N, loaded, w)
    BY <2>1, <2>2 DEF GoAlike
  <2>4. QED
    BY <1>1, <2>3, SameSteps
<1>7. Loaded(r) = HeapOf(r, N)
  <2>1. Loaded(r) = loaded[N]
    BY DEF Loaded
  <2>2. w[N] = HeapOf(r, N)
    BY <1>1
  <2>3. QED
    BY <1>6, <2>1, <2>2
<1>8. QED
  BY <1>1, <1>7, HeapLeads

\* As many rows as names.
LEMMA RowsCount ==
    ASSUME NEW r, RowsSound(r), NEW nd, RowsHold(r, nd)
    PROVE  /\ DOMAIN nd \subseteq Names /\ Len(r) = Cardinality(DOMAIN nd)
           /\ \A c \in DOMAIN nd : nd[c].addr \in Addrs
<1> DEFINE q == NamesOf(r, Len(r))
<1>1. Len(r) \in 0 .. Len(r) /\ r \in Seq(Row) /\ DOMAIN r = 1 .. Len(r)
  BY DEF RowsSound
<1>2. /\ q \in Seq(Names) /\ Len(q) = Len(r) /\ DOMAIN q = 1 .. Len(r)
      /\ \A i \in 1 .. Len(r) : q[i] = r[i].name /\ r[i].name \in Names /\ r[i].addr \in Addrs
      /\ \A i, j \in 1 .. Len(r) : r[i].name = r[j].name => i = j
      /\ ToSet(q) = {r[i].name : i \in 1 .. Len(r)}
  BY <1>1, RowNames
<1> HIDE DEF q
<1>3. Cardinality(ToSet(q)) = Len(r)
  <2>1. \A i, j \in DOMAIN q : q[i] = q[j] => i = j
    BY <1>2
  <2>2. QED
    BY <1>2, <2>1, NodesCounted
<1>4. ToSet(r) = {r[i] : i \in 1 .. Len(r)}
  BY <1>1 DEF ToSet
<1>5. ASSUME NEW c \in DOMAIN nd
      PROVE  c \in ToSet(q) /\ nd[c].addr \in Addrs
  <2>1. [name |-> c, addr |-> nd[c].addr] \in ToSet(r)
    BY DEF RowsHold
  <2>2. PICK i \in 1 .. Len(r) : r[i] = [name |-> c, addr |-> nd[c].addr]
    BY <1>4, <2>1
  <2>3. r[i].name = c /\ r[i].addr = nd[c].addr
    BY <2>2
  <2>4. QED
    BY <1>2, <2>3
<1>6. ASSUME NEW i \in 1 .. Len(r)
      PROVE  r[i].name \in DOMAIN nd
  <2>1. r[i] \in ToSet(r)
    BY <1>4
  <2>2. PICK c \in DOMAIN nd : r[i] = [name |-> c, addr |-> nd[c].addr]
    BY <2>1 DEF RowsHold
  <2>3. r[i].name = c
    BY <2>2
  <2>4. QED
    BY <2>3
<1>7. DOMAIN nd = ToSet(q)
  <2>1. \A c \in ToSet(q) : c \in DOMAIN nd
    BY <1>2, <1>6
  <2>2. \A c \in DOMAIN nd : c \in ToSet(q)
    BY <1>5
  <2>3. QED
    BY <2>1, <2>2
<1>8. ToSet(q) \subseteq Names
  BY <1>2
<1>9. QED
  BY <1>3, <1>5, <1>7, <1>8

\* A deletion leaves the rows of the other names.
LEMMA RowDropped ==
    ASSUME NEW r, RowsSound(r), NEW c
    PROVE  /\ RowsSound(RowsWithout(r, c))
           /\ ToSet(RowsWithout(r, c)) = {x \in ToSet(r) : x.name # c}
<1> DEFINE N == Len(r)
           s == RowsWithout(r, c)
<1>1. r \in Seq(Row) /\ N \in Nat /\ DOMAIN r = 1 .. N /\ \A i \in 1 .. N : r[i] \in Row
  BY DEF RowsSound
<1>2. ToSet(r) = {r[i] : i \in 1 .. N}
  BY <1>1 DEF ToSet
<1>3. CASE \A j \in 1 .. N : r[j].name # c
  <2>1. N + 1 \in 1 .. N + 1 /\ \A j \in DOMAIN r : r[j].name = c <=> j = N + 1
    BY <1>1, <1>3
  <2>2. s = r
    BY <1>1, <2>1, RowTakenOut
  <2>3. QED
    BY <1>2, <1>3, <2>2
<1>4. CASE \E k \in 1 .. N : r[k].name = c
  <2>1. PICK k \in 1 .. N : r[k].name = c
    BY <1>4
  <2>2. \A j \in DOMAIN r : r[j].name = c <=> j = k
    BY <1>1, <2>1 DEF RowsSound
  <2>3. k \in 1 .. N + 1 /\ k # N + 1 /\ k \in Nat
    BY <1>1
  <2>4. s = Without(r, k)
    BY <1>1, <2>2, <2>3, RowTakenOut
  <2>5. s = [i \in 1 .. N - 1 |-> IF i < k THEN r[i] ELSE r[i + 1]]
    BY <2>4 DEF Without
  <2> HIDE DEF N, s
  <2>6. \A i \in 1 .. N - 1 : i \in 1 .. N /\ i + 1 \in 1 .. N
    BY <1>1
  <2>7. s \in [1 .. N - 1 -> Row] /\ N - 1 \in Nat
    BY <1>1, <2>3, <2>5, <2>6
  <2>8. s \in Seq(Row) /\ DOMAIN s = 1 .. N - 1
    BY <2>7
  <2>9. \A i \in 1 .. N - 1 : s[i] = r[IF i < k THEN i ELSE i + 1]
    BY <2>5
  <2>10. ASSUME NEW i \in 1 .. N - 1, NEW j \in 1 .. N - 1, s[i].name = s[j].name
         PROVE  i = j
    <3> DEFINE u == IF i < k THEN i ELSE i + 1
               v == IF j < k THEN j ELSE j + 1
    <3>1. u \in 1 .. N /\ v \in 1 .. N
      BY <2>6
    <3>2. s[i] = r[u] /\ s[j] = r[v]
      BY <2>9
    <3>3. (u = v => i = j)
      BY <1>1, <2>3
    <3> HIDE DEF u, v
    <3>4. u = v
      BY <1>1, <2>10, <3>1, <3>2 DEF RowsSound
    <3>5. QED
      BY <3>3, <3>4
  <2>11. RowsSound(s)
    BY <2>8, <2>10 DEF RowsSound
  <2>12. ASSUME NEW i \in 1 .. N - 1
         PROVE  s[i] \in ToSet(r) /\ s[i].name # c
    <3> DEFINE u == IF i < k THEN i ELSE i + 1
    <3>1. u \in 1 .. N /\ u # k
      BY <1>1, <2>3, <2>6
    <3>2. s[i] = r[u]
      BY <2>9
    <3> HIDE DEF u
    <3>3. QED
      BY <1>1, <1>2, <2>2, <3>1, <3>2
  <2>13. ASSUME NEW j \in 1 .. N, r[j].name # c
         PROVE  \E i \in 1 .. N - 1 : s[i] = r[j]
    <3>1. j # k
      BY <2>1, <2>13
    <3>2. CASE j < k
      <4>1. j \in 1 .. N - 1
        BY <1>1, <2>3, <3>2
      <4>2. QED
        BY <2>9, <3>2, <4>1
    <3>3. CASE j > k
      <4>1. j - 1 \in 1 .. N - 1 /\ ~(j - 1 < k) /\ j - 1 + 1 = j
        BY <1>1, <2>3, <3>3
      <4>2. s[j - 1] = r[j]
        BY <2>9, <4>1
      <4>3. QED
        BY <4>1, <4>2
    <3>4. QED
      BY <1>1, <2>3, <3>1, <3>2, <3>3
  <2>14. ToSet(s) = {s[i] : i \in 1 .. N - 1}
    BY <2>8 DEF ToSet
  <2>15. ToSet(s) = {x \in ToSet(r) : x.name # c}
    BY <1>2, <2>12, <2>13, <2>14
  <2>16. QED
    BY <2>11, <2>15 DEF s
<1>5. QED
  BY <1>3, <1>4

\* An insertion adds one.
LEMMA RowAppended ==
    ASSUME NEW r, RowsSound(r), NEW c \in Names, NEW a \in Addrs,
           \A x \in ToSet(r) : x.name # c
    PROVE  LET s == Append(r, [name |-> c, addr |-> a])
           IN  RowsSound(s) /\ ToSet(s) = ToSet(r) \cup {[name |-> c, addr |-> a]}
<1> DEFINE N == Len(r)
           row == [name |-> c, addr |-> a]
           s == Append(r, row)
<1>1. r \in Seq(Row) /\ N \in Nat /\ DOMAIN r = 1 .. N /\ row \in Row /\ row.name = c
  BY DEF RowsSound, Row
<1> HIDE DEF row
<1>2. /\ s \in Seq(Row) /\ DOMAIN s = 1 .. N + 1 /\ s[N + 1] = row
      /\ \A i \in 1 .. N : s[i] = r[i]
  BY <1>1
<1> HIDE DEF s, N
<1>3. \A i \in 1 .. N : r[i] \in ToSet(r)
  BY <1>1 DEF ToSet
<1>4. \A i \in 1 .. N + 1 : i = N + 1 \/ i \in 1 .. N
  BY <1>1
<1>5. \A i, j \in DOMAIN s : s[i].name = s[j].name => i = j
  <2> SUFFICES ASSUME NEW i \in 1 .. N + 1, NEW j \in 1 .. N + 1, s[i].name = s[j].name
               PROVE  i = j
    BY <1>2
  <2>1. CASE i \in 1 .. N /\ j \in 1 .. N
    BY <1>1, <1>2, <2>1 DEF RowsSound
  <2>2. CASE i = N + 1 /\ j \in 1 .. N
    BY <1>1, <1>2, <1>3, <2>2
  <2>3. CASE i \in 1 .. N /\ j = N + 1
    BY <1>1, <1>2, <1>3, <2>3
  <2>4. QED
    BY <1>4, <2>1, <2>2, <2>3
<1>6. ToSet(s) = ToSet(r) \cup {row}
  <2>1. ToSet(s) = {s[i] : i \in 1 .. N + 1} /\ ToSet(r) = {r[i] : i \in 1 .. N}
    BY <1>1, <1>2 DEF ToSet
  <2>2. N + 1 \in 1 .. N + 1 /\ \A i \in 1 .. N : i \in 1 .. N + 1
    BY <1>1
  <2>3. QED
    BY <1>2, <1>4, <2>1, <2>2
<1>7. RowsSound(s)
  BY <1>2, <1>5 DEF RowsSound
<1>8. QED
  BY <1>6, <1>7 DEF s, row

\* An update writes the address of one.
LEMMA RowChanged ==
    ASSUME RowsSound(rows), RowsHold(rows, node), Shaped(node), NEW c, NEW a \in Addrs
    PROVE  LET md == [node EXCEPT ![c].addr = a]
           IN  /\ RowsSound(RowsUpdated(c, a)) /\ RowsHold(RowsUpdated(c, a), md)
               /\ DOMAIN md = DOMAIN node /\ Shaped(md)
<1> DEFINE N == Len(rows)
           s == RowsUpdated(c, a)
           md == [node EXCEPT ![c].addr = a]
<1>1. rows \in Seq(Row) /\ N \in Nat /\ DOMAIN rows = 1 .. N /\ \A i \in 1 .. N : rows[i] \in Row
  BY DEF RowsSound
<1>2. s = [j \in 1 .. N |-> IF rows[j].name = c THEN [rows[j] EXCEPT !.addr = a] ELSE rows[j]]
  BY <1>1 DEF RowsUpdated
<1>3. DOMAIN md = DOMAIN node
  OBVIOUS
<1>4. ASSUME NEW x \in DOMAIN node
      PROVE  /\ md[x] = [next |-> md[x].next, prev |-> md[x].prev, addr |-> md[x].addr]
             /\ md[x].addr = IF x = c THEN a ELSE node[x].addr
  <2>1. node[x] = [next |-> node[x].next, prev |-> node[x].prev, addr |-> node[x].addr]
    BY DEF Shaped
  <2>2. md[x] = IF x = c THEN [node[x] EXCEPT !.addr = a] ELSE node[x]
    OBVIOUS
  <2> HIDE DEF md
  <2>3. CASE x = c
    BY <2>1, <2>2, <2>3
  <2>4. CASE x # c
    BY <2>1, <2>2, <2>4
  <2>5. QED
    BY <2>3, <2>4
<1> HIDE DEF s, md, N
<1>5. Shaped(md)
  BY <1>3, <1>4 DEF Shaped
<1>6. ASSUME NEW j \in 1 .. N
      PROVE  /\ s[j] \in Row /\ s[j].name = rows[j].name
             /\ s[j] = [name |-> rows[j].name, addr |-> IF rows[j].name = c THEN a ELSE rows[j].addr]
  <2>1. s[j] = IF rows[j].name = c THEN [rows[j] EXCEPT !.addr = a] ELSE rows[j]
    BY <1>2
  <2>2. rows[j] \in Row
    BY <1>1
  <2>3. QED
    BY <2>1, <2>2 DEF Row
<1>7. s \in Seq(Row) /\ DOMAIN s = 1 .. N
  <2>1. s \in [1 .. N -> Row]
    BY <1>2, <1>6
  <2>2. QED
    BY <1>1, <2>1
<1>8. RowsSound(s)
  BY <1>1, <1>6, <1>7 DEF RowsSound
<1>9. ToSet(s) = {s[j] : j \in 1 .. N} /\ ToSet(rows) = {rows[j] : j \in 1 .. N}
  BY <1>1, <1>7 DEF ToSet
<1>10. ASSUME NEW j \in 1 .. N
       PROVE  /\ rows[j].name \in DOMAIN node
              /\ s[j] = [name |-> rows[j].name, addr |-> md[rows[j].name].addr]
  <2>1. rows[j] \in ToSet(rows)
    BY <1>9
  <2>2. PICK x \in DOMAIN node : rows[j] = [name |-> x, addr |-> node[x].addr]
    BY <2>1 DEF RowsHold
  <2>3. rows[j].name = x /\ rows[j].addr = node[x].addr
    BY <2>2
  <2>4. md[rows[j].name].addr = IF rows[j].name = c THEN a ELSE rows[j].addr
    BY <1>4, <2>3
  <2>5. QED
    BY <1>6, <2>3, <2>4
<1>11. ASSUME NEW x \in DOMAIN node
       PROVE  \E j \in 1 .. N : rows[j].name = x
  <2>1. [name |-> x, addr |-> node[x].addr] \in ToSet(rows)
    BY DEF RowsHold
  <2>2. PICK j \in 1 .. N : rows[j] = [name |-> x, addr |-> node[x].addr]
    BY <1>9, <2>1
  <2>3. QED
    BY <2>2
<1>12. RowsHold(s, md)
  <2>1. \A j \in 1 .. N : s[j] \in {[name |-> x, addr |-> md[x].addr] : x \in DOMAIN node}
    BY <1>10
  <2>2. \A x \in DOMAIN node : \E j \in 1 .. N : s[j] = [name |-> x, addr |-> md[x].addr]
    BY <1>10, <1>11
  <2>3. QED
    BY <1>3, <1>9, <2>1, <2>2 DEF RowsHold
<1>13. QED
  BY <1>3, <1>5, <1>8, <1>12 DEF s, md

-----------------------------------------------------------------------------
(***************************************************************************)
(* A node entered at the end of a list that is in order.                   *)
(***************************************************************************)

\* s with its last before place j.
LastBefore(s, j) ==
    [i \in 1 .. Len(s) |-> IF i < j THEN s[i] ELSE IF i = j THEN s[Len(s)] ELSE s[i - 1]]

LEMMA LastNodeMoves ==
    ASSUME NEW h, NEW nd, NEW s, Leads(h, nd, s), NEW N \in Nat, Len(s) = N + 1,
           NEW j \in 1 .. N
    PROVE  LET m == Move(h, nd, s[N], s[N + 1], s[j])
           IN  /\ OneWay(m.head, m.node, LastBefore(s, j))
               /\ m.node[s[N]].next = Null
               /\ \A i \in 1 .. N + 1 : m.node[s[i]].addr = nd[s[i]].addr
<1> DEFINE D == ToSet(s)
           c == s[N + 1]
           t == s[j]
           e == s[N]
           p == nd[t].prev
           u == LastBefore(s, j)
           out == SetNext(nd, e, Null)
           b == SetNext(out, c, t)
           in == SetPrev(b, c, p)
           led == SetNext(in, p, c)
           end == SetPrev(led, led[t].next, c)
           first == IF p = Null THEN c ELSE h
<1>1. /\ s \in Seq(Names) /\ DOMAIN s = 1 .. N + 1 /\ nd \in [D -> Nodes] /\ Null \notin D
      /\ \A i \in 1 .. N + 1 : s[i] \in D /\ s[i] \in Names /\ s[i] # Null
      /\ \A i, k \in 1 .. N + 1 : s[i] = s[k] => i = k
      /\ \A i \in 1 .. N + 1 :
            /\ nd[s[i]].next = IF i = N + 1 THEN Null ELSE s[i + 1]
            /\ nd[s[i]].prev = IF i = 1 THEN Null ELSE s[i - 1]
  <2>1. s \in Seq(Names)
    BY DEF Leads
  <2>2. DOMAIN s = 1 .. N + 1
    BY <2>1
  <2>3. D = {s[i] : i \in 1 .. N + 1}
    BY <2>2 DEF ToSet
  <2>4. \A i \in 1 .. N + 1 : s[i] \in Names /\ s[i] \in D
    BY <2>1, <2>2, <2>3
  <2>5. Null \notin Names
    BY NamesAssumption DEF Null
  <2>6. Null \notin D
    BY <2>3, <2>4, <2>5
  <2>7. nd \in [D -> Nodes]
    BY DEF Leads
  <2>8. \A i, k \in 1 .. N + 1 : s[i] = s[k] => i = k
    BY <2>2 DEF Leads
  <2>9. \A i \in 1 .. N + 1 :
            /\ nd[s[i]].next = IF i = N + 1 THEN Null ELSE s[i + 1]
            /\ nd[s[i]].prev = IF i = 1 THEN Null ELSE s[i - 1]
    BY <2>2 DEF Leads
  <2> HIDE DEF D
  <2>10. QED
    BY <2>1, <2>2, <2>4, <2>5, <2>6, <2>7, <2>8, <2>9
<1>2. /\ j \in Nat /\ j \in 1 .. N + 1 /\ N \in 1 .. N + 1 /\ N + 1 \in 1 .. N + 1 /\ N >= 1
      /\ j # 1 => j - 1 \in 1 .. N + 1
      /\ j # N => j + 1 \in 1 .. N + 1
  OBVIOUS
<1>3. /\ c \in D /\ t \in D /\ e \in D /\ c # t /\ c # e /\ c # Null /\ c \in Names
      /\ t \in Names /\ nd[c].next = Null
      /\ p = IF j = 1 THEN Null ELSE s[j - 1]
      /\ nd[t].next = s[j + 1]
  BY <1>1, <1>2
<1>4. p \in D \cup {Null} /\ p \in Names \cup {Null} /\ p # c /\ p # t /\ p # e
  BY <1>1, <1>2, <1>3
<1>5. D = {s[i] : i \in 1 .. N + 1}
  BY <1>1 DEF ToSet
<1> HIDE DEF D, c, t, e, p
<1>a. /\ Null \in D \cup {Null} /\ Null \in Names \cup {Null}
      /\ t \in Names \cup {Null} /\ c \in Names \cup {Null}
      /\ t \in D \cup {Null} /\ c \in D \cup {Null} /\ e \in D \cup {Null}
  BY <1>3
<1>6. /\ out \in [D -> Nodes]
      /\ \A z \in D : /\ out[z].next = IF z = e THEN Null ELSE nd[z].next
                      /\ out[z].prev = nd[z].prev /\ out[z].addr = nd[z].addr
  BY <1>1, <1>a, PointerSet
<1> HIDE DEF out
<1>7. /\ b \in [D -> Nodes]
      /\ \A z \in D : /\ b[z].next = IF z = c THEN t ELSE out[z].next
                      /\ b[z].prev = out[z].prev /\ b[z].addr = out[z].addr
  <2>1. out \in [D -> Nodes] /\ Null \notin D /\ c \in D \cup {Null} /\ t \in Names \cup {Null}
    BY <1>1, <1>a, <1>6
  <2>2. QED
    BY <2>1, PointerSet
<1> HIDE DEF b
<1>8. /\ in \in [D -> Nodes]
      /\ \A z \in D : /\ in[z].next = b[z].next /\ in[z].addr = b[z].addr
                      /\ in[z].prev = IF z = c THEN p ELSE b[z].prev
  <2>1. b \in [D -> Nodes] /\ Null \notin D /\ c \in D \cup {Null} /\ p \in Names \cup {Null}
    BY <1>1, <1>4, <1>7, <1>a
  <2>2. QED
    BY <2>1, PointerSet
<1> HIDE DEF in
<1>9. /\ led \in [D -> Nodes]
      /\ \A z \in D : /\ led[z].next = IF z = p THEN c ELSE in[z].next
                      /\ led[z].addr = in[z].addr
  <2>1. in \in [D -> Nodes] /\ Null \notin D /\ p \in D \cup {Null} /\ c \in Names \cup {Null}
    BY <1>1, <1>4, <1>8, <1>a
  <2>2. QED
    BY <2>1, PointerSet
<1> HIDE DEF led
<1>10. led[t].next \in D \cup {Null}
  <2>1. led[t].next = IF t = e THEN Null ELSE s[j + 1]
    BY <1>3, <1>4, <1>6, <1>7, <1>8, <1>9
  <2>2. t # e => j # N
    BY DEF t, e
  <2>3. QED
    BY <1>1, <1>2, <2>1, <2>2
<1>11. /\ end \in [D -> Nodes]
       /\ \A z \in D : end[z].next = led[z].next /\ end[z].addr = led[z].addr
  <2>1. /\ led \in [D -> Nodes] /\ Null \notin D
        /\ led[t].next \in D \cup {Null} /\ c \in Names \cup {Null}
    BY <1>1, <1>9, <1>10, <1>a
  <2>2. QED
    BY <2>1, PointerSet
<1> HIDE DEF end
<1>12. \A z \in D : /\ end[z].addr = nd[z].addr
                    /\ end[z].next = IF z = p THEN c ELSE IF z = c THEN t
                                     ELSE IF z = e THEN Null ELSE nd[z].next
  BY <1>6, <1>7, <1>8, <1>9, <1>11
<1>13. Move(h, nd, e, c, t) = [head |-> first, node |-> end]
  <2>1. out[t].prev = p
    BY <1>3, <1>6 DEF p
  <2>2. in = [out EXCEPT ![c].next = t, ![c].prev = p]
    BY <1>3 DEF in, b, SetNext, SetPrev
  <2>3. in[t].prev = p
    BY <1>3, <1>7, <1>8, <2>1
  <2>4. SetPrev(out, Null, e) = out
    BY DEF SetPrev
  <2>5. Move(h, nd, e, c, t) =
          LET o == SetPrev(SetNext(nd, e, nd[c].next), nd[c].next, e)
              n1 == [o EXCEPT ![c].next = t, ![c].prev = o[t].prev]
              n2 == SetNext(n1, n1[t].prev, c)
          IN  [head |-> IF nd[t].prev = Null THEN c ELSE h,
               node |-> SetPrev(n2, n2[t].next, c)]
    BY DEF Move
  <2>6. SetPrev(SetNext(nd, e, nd[c].next), nd[c].next, e) = out
    BY <1>3, <2>4 DEF out
  <2>7. QED
    BY <2>1, <2>2, <2>3, <2>5, <2>6 DEF led, end, p
<1>14. /\ DOMAIN u = 1 .. N + 1 /\ Len(u) = N + 1 /\ u \in Seq(Names)
       /\ \A i \in 1 .. N + 1 : u[i] = IF i < j THEN s[i] ELSE IF i = j THEN c ELSE s[i - 1]
  <2>1. u = [i \in 1 .. N + 1 |-> IF i < j THEN s[i] ELSE IF i = j THEN c ELSE s[i - 1]]
    BY DEF LastBefore, c
  <2>2. \A i \in 1 .. N + 1 : i < j \/ i = j \/ i - 1 \in 1 .. N + 1
    BY <1>2
  <2>3. u \in [1 .. N + 1 -> Names]
    BY <1>1, <1>3, <2>1, <2>2
  <2> HIDE DEF u
  <2>4. u \in Seq(Names) /\ Len(u) = N + 1
    BY <2>3
  <2>5. QED
    BY <2>1, <2>4
<1> HIDE DEF u
\* The place of u[i] in s.
<1> DEFINE v(i) == IF i < j THEN i ELSE IF i = j THEN N + 1 ELSE i - 1
<1>15. \A i \in 1 .. N + 1 : v(i) \in 1 .. N + 1 /\ u[i] = s[v(i)]
  BY <1>2, <1>14 DEF c
<1>16. \A i, k \in 1 .. N + 1 : v(i) = v(k) => i = k
  BY <1>2
<1>17. \A i, k \in DOMAIN u : u[i] = u[k] => i = k
  <2> HIDE DEF v
  <2> QED
    BY <1>1, <1>14, <1>15, <1>16
<1>18. ToSet(u) = D
  <2>1. ToSet(u) = {u[i] : i \in 1 .. N + 1}
    BY <1>14 DEF ToSet
  <2>2. \A k \in 1 .. N + 1 : \E i \in 1 .. N + 1 : v(i) = k
    <3> SUFFICES ASSUME NEW k \in 1 .. N + 1 PROVE \E i \in 1 .. N + 1 : v(i) = k
      OBVIOUS
    <3>1. CASE k < j
      BY <1>2, <3>1
    <3>2. CASE k = N + 1
      BY <1>2, <3>2
    <3>3. CASE k >= j /\ k # N + 1
      <4>1. k + 1 \in 1 .. N + 1 /\ v(k + 1) = k
        BY <1>2, <3>3
      <4>2. QED
        BY <4>1
    <3>4. QED
      BY <1>2, <3>1, <3>2, <3>3
  <2> HIDE DEF v
  <2>3. \A x \in ToSet(u) : x \in D
    BY <1>5, <1>15, <2>1
  <2>4. \A k \in 1 .. N + 1 : s[k] \in ToSet(u)
    <3> SUFFICES ASSUME NEW k \in 1 .. N + 1 PROVE s[k] \in ToSet(u)
      OBVIOUS
    <3>1. PICK i \in 1 .. N + 1 : v(i) = k
      BY <2>2
    <3>2. u[i] = s[k]
      BY <1>15, <3>1
    <3>3. QED
      BY <2>1, <3>2
  <2>5. \A x \in D : x \in ToSet(u)
    BY <1>5, <2>4
  <2>6. QED
    BY <2>3, <2>5
<1>19. first = u[1]
  <2>1. CASE j = 1
    BY <1>2, <1>3, <1>14, <2>1
  <2>2. CASE j # 1
    <3>1. p # Null /\ u[1] = s[1]
      BY <1>1, <1>2, <1>3, <1>14, <2>2
    <3>2. h = s[1]
      BY <1>1, <1>2 DEF Leads
    <3>3. QED
      BY <3>1, <3>2
  <2>3. QED
    BY <2>1, <2>2
<1>20. ASSUME NEW i \in 1 .. N + 1
       PROVE  end[u[i]].next = IF i = Len(u) THEN Null ELSE u[i + 1]
  <2>1. u[i] \in D
    BY <1>1, <1>15
  <2>2. CASE i < j
    <3>1. u[i] = s[i] /\ i # N /\ i # N + 1 /\ i + 1 \in 1 .. N + 1 /\ i \in Nat
      BY <1>2, <1>14, <2>2
    <3>2. s[i] # c /\ s[i] # e
      BY <1>1, <1>2, <3>1 DEF c, e
    <3>3. s[i] = p <=> i = j - 1
      <4>1. j # 1 /\ j - 1 \in 1 .. N + 1
        BY <1>2, <2>2
      <4>2. QED
        BY <1>1, <1>3, <4>1
    <3>4. CASE i = j - 1
      <4>1. i + 1 = j /\ u[j] = c
        BY <1>2, <1>14, <3>4
      <4>2. QED
        BY <1>12, <1>14, <2>1, <3>1, <3>3, <3>4, <4>1
    <3>5. CASE i # j - 1
      <4>1. i + 1 < j /\ u[i + 1] = s[i + 1]
        BY <1>2, <1>14, <2>2, <3>1, <3>5
      <4>2. nd[s[i]].next = s[i + 1]
        BY <1>1, <3>1
      <4>3. QED
        BY <1>12, <1>14, <2>1, <3>1, <3>2, <3>3, <3>5, <4>1, <4>2
    <3>6. QED
      BY <3>4, <3>5
  <2>3. CASE i = j
    <3>1. u[i] = c /\ i # N + 1 /\ i + 1 \in 1 .. N + 1 /\ ~(i + 1 < j) /\ i + 1 # j /\ i + 1 - 1 = j
      BY <1>2, <1>14, <2>3
    <3>2. u[i + 1] = t
      BY <1>14, <3>1 DEF t
    <3>3. QED
      BY <1>4, <1>12, <1>14, <2>1, <3>1, <3>2
  <2>4. CASE i > j
    <3>1. /\ i - 1 \in 1 .. N + 1 /\ i - 1 # N + 1 /\ i - 1 + 1 = i /\ i - 1 >= j
          /\ u[i] = s[i - 1]
      BY <1>2, <1>14, <2>4
    <3>2. s[i - 1] # c /\ s[i - 1] # p
      <4>1. s[i - 1] # c
        BY <1>1, <1>2, <3>1 DEF c
      <4>2. j # 1 => i - 1 # j - 1
        BY <1>2, <3>1
      <4>3. QED
        BY <1>1, <1>2, <1>3, <3>1, <4>1, <4>2
    <3>3. s[i - 1] = e <=> i = N + 1
      <4>1. i - 1 = N <=> i = N + 1
        OBVIOUS
      <4>2. QED
        BY <1>1, <1>2, <3>1, <4>1 DEF e
    <3>4. CASE i = N + 1
      BY <1>12, <1>14, <2>1, <3>1, <3>2, <3>3, <3>4
    <3>5. CASE i # N + 1
      <4>1. i + 1 \in 1 .. N + 1 /\ ~(i + 1 < j) /\ i + 1 # j /\ i + 1 - 1 = i
        BY <1>2, <2>4, <3>5
      <4>2. u[i + 1] = s[i]
        BY <1>14, <4>1
      <4>3. nd[s[i - 1]].next = s[i]
        BY <1>1, <3>1
      <4>4. QED
        BY <1>12, <1>14, <2>1, <3>1, <3>2, <3>3, <3>5, <4>2, <4>3
    <3>6. QED
      BY <3>4, <3>5
  <2>5. QED
    BY <1>2, <2>2, <2>3, <2>4
<1>21. OneWay(first, end, u)
  <2>1. DOMAIN end = ToSet(u)
    BY <1>11, <1>18
  <2>2. u # <<>>
    BY <1>14
  <2>3. QED
    BY <1>14, <1>17, <1>19, <1>20, <2>1, <2>2 DEF OneWay
<1>22. end[e].next = Null
  BY <1>3, <1>4, <1>12
<1>23. \A i \in 1 .. N + 1 : end[s[i]].addr = nd[s[i]].addr
  BY <1>1, <1>12
<1>24. QED
  BY <1>13, <1>21, <1>22, <1>23 DEF u, c, e, t

\* The nodes before the last are in order, and none has its address.
AllButLast(nd, s) ==
    /\ \A i, j \in 1 .. Len(s) - 1 : i < j => nd[s[i]].addr < nd[s[j]].addr
    /\ \A i \in 1 .. Len(s) - 1 : nd[s[i]].addr # nd[s[Len(s)]].addr

\* A new node comes to its place by address, wherever that is.
LEMMA SortEnters ==
    ASSUME NEW h, NEW nd, NEW s, Leads(h, nd, s), NEW N \in Nat, Len(s) = N + 1,
           AllButLast(nd, s)
    PROVE  \E u : /\ OneWay(Sorted(h, nd).head, Sorted(h, nd).node, u)
                  /\ InOrder(Sorted(h, nd).node, u)
<1> DEFINE A(i) == nd[s[i]].addr
           x == s[N + 1]
           turn == Turns(h, nd)
<1>0. /\ \A i, k \in 1 .. N : i < k => A(i) < A(k)
      /\ \A i \in 1 .. N : A(i) # A(N + 1)
  <2>1. Len(s) - 1 = N
    OBVIOUS
  <2>2. QED
    BY <2>1 DEF AllButLast
<1>1. /\ DOMAIN s = 1 .. N + 1 /\ Cardinality(DOMAIN nd) = N + 1
      /\ \A i \in 1 .. N + 1 : s[i] # Null /\ A(i) \in Nat
      /\ \A i, k \in 1 .. N + 1 : s[i] = s[k] => i = k
  <2>1. DOMAIN s = 1 .. N + 1 /\ DOMAIN nd = ToSet(s) /\ nd \in [ToSet(s) -> Nodes]
    BY DEF Leads
  <2>2. Cardinality(ToSet(s)) = N + 1
    BY NodesCounted DEF Leads
  <2>3. \A i \in 1 .. N + 1 : s[i] \in Names /\ s[i] \in ToSet(s)
    BY <2>1 DEF Leads, ToSet
  <2>4. \A i \in 1 .. N + 1 : s[i] # Null /\ A(i) \in Nat
    BY <2>1, <2>3, NamesAssumption, AddrsAssumption DEF Null, Nodes
  <2>5. \A i, k \in 1 .. N + 1 : s[i] = s[k] => i = k
    BY <2>1 DEF Leads
  <2>6. QED
    BY <2>1, <2>2, <2>4, <2>5
<1>2. CASE ~Sorted(h, nd).moved
  BY <1>2, UnmovedSort, BothWays
<1>3. CASE Sorted(h, nd).moved
  <2> DEFINE Moved(k) == Move(h, nd, s[k], s[k + 1], PlaceFor(nd, s[k + 1], h))
  <2>1. /\ Sorted(h, nd) = turn[N + 1]
        /\ \A k \in 1 .. N + 1 : turn[k] = IF turn[k - 1].at = Null THEN turn[k - 1]
                                           ELSE SortTurn(turn[k - 1])
    <3>1. Cardinality(DOMAIN nd) \in Nat /\ Cardinality(DOMAIN nd) = N + 1
      BY <1>1
    <3>2. Sorted(h, nd) = turn[N + 1]
      BY <3>1, TurnsGoOn
    <3>3. ASSUME NEW k \in 1 .. N + 1
          PROVE  turn[k] = IF turn[k - 1].at = Null THEN turn[k - 1]
                           ELSE SortTurn(turn[k - 1])
      <4>1. k \in 1 .. Cardinality(DOMAIN nd)
        BY <3>1
      <4>2. QED
        BY <3>1, <4>1, TurnsGoOn
    <3>4. QED
      BY <3>2, <3>3
  <2>a. ASSUME NEW k \in 1 .. N + 1, turn[k - 1] = Unmoved(h, nd, s, k - 1)
        PROVE  /\ k = N + 1 \/ PlaceFor(nd, s[k + 1], h) = Null
                     => turn[k] = Unmoved(h, nd, s, k)
               /\ k < N + 1 /\ PlaceFor(nd, s[k + 1], h) # Null
                     => turn[k] = [head |-> Moved(k).head, node |-> Moved(k).node,
                                   at |-> Moved(k).node[s[k]].next, moved |-> TRUE]
    <3>1. k \in 1 .. Len(s)
      OBVIOUS
    <3>2. /\ k = Len(s) \/ PlaceFor(nd, s[k + 1], h) = Null
                => turn[k] = Unmoved(h, nd, s, k)
          /\ k < Len(s) /\ PlaceFor(nd, s[k + 1], h) # Null
                => turn[k] = LET w == Move(h, nd, s[k], s[k + 1], PlaceFor(nd, s[k + 1], h))
                             IN  [head |-> w.head, node |-> w.node,
                                  at |-> w.node[s[k]].next, moved |-> TRUE]
      BY <2>a, <3>1, NextTurn
    <3>3. QED
      BY <3>2, Zenon
  <2> HIDE DEF Moved, turn
  <2>2. turn[0] = Unmoved(h, nd, s, 0)
    <3>1. h = s[1] /\ 0 < Len(s)
      BY <1>1 DEF Leads
    <3>2. turn[0] = [head |-> h, node |-> nd, at |-> h, moved |-> FALSE]
      <4>1. Cardinality(DOMAIN nd) \in Nat
        BY <1>1
      <4>2. QED
        BY <4>1, TurnsGoOn DEF turn
    <3>3. QED
      BY <3>1, <3>2 DEF Unmoved
  <2>3. ASSUME NEW k \in 1 .. N - 1, turn[k - 1] = Unmoved(h, nd, s, k - 1)
        PROVE  turn[k] = Unmoved(h, nd, s, k)
    <3>1. k \in 1 .. Len(s) /\ k + 1 \in DOMAIN s /\ k + 1 \in 1 .. N
      BY <1>1
    <3>2. \A i \in DOMAIN s : i < k + 1 => nd[s[i]].addr < nd[s[k + 1]].addr
      BY <1>0, <1>1, <3>1
    <3>3. PlaceFor(nd, s[k + 1], h) = Null
      BY <3>1, <3>2, NothingPlaced
    <3>4. QED
      BY <2>3, <2>a, <3>1, <3>3
  <2>4. ASSUME NEW k \in 0 .. N - 1
        PROVE  turn[k] = Unmoved(h, nd, s, k)
    <3> DEFINE T == {m \in 0 .. N - 1 : turn[m] # Unmoved(h, nd, s, m)}
    <3> HIDE DEF turn
    <3>1. SUFFICES ASSUME T # {} PROVE FALSE
      OBVIOUS
    <3>2. PICK m \in T : \A z \in T : m <= z
      <4>1. T \subseteq Nat
        OBVIOUS
      <4> HIDE DEF T
      <4>2. QED
        BY <3>1, <4>1, LeastStep
    <3>3. m \in 0 .. N - 1 /\ turn[m] # Unmoved(h, nd, s, m)
      OBVIOUS
    <3>4. m # 0
      BY <2>2, <3>3
    <3>5. m \in 1 .. N - 1 /\ m - 1 \in 0 .. N - 1 /\ ~(m <= m - 1)
      BY <3>3, <3>4
    <3>6. turn[m - 1] = Unmoved(h, nd, s, m - 1)
      BY <3>2, <3>5
    <3>7. QED
      BY <2>3, <3>3, <3>5, <3>6
  <2>5. ASSUME turn[N] = Unmoved(h, nd, s, N) PROVE FALSE
    <3>1. N + 1 \in 1 .. Len(s) /\ N + 1 - 1 = N /\ N + 1 = Len(s)
      OBVIOUS
    <3>a. turn[(N + 1) - 1] = Unmoved(h, nd, s, (N + 1) - 1) /\ N + 1 \in 1 .. N + 1
      BY <2>5, <3>1
    <3>2. turn[N + 1] = Unmoved(h, nd, s, N + 1)
      BY <2>a, <3>a
    <3>3. ~turn[N + 1].moved
      BY <3>2 DEF Unmoved
    <3>4. QED
      BY <1>3, <2>1, <3>3
  <2>6. /\ N # 0 /\ N \in 1 .. Len(s) /\ N < Len(s)
        /\ turn[N - 1] = Unmoved(h, nd, s, N - 1)
    <3>1. N # 0
      BY <2>2, <2>5
    <3>2. N - 1 \in 0 .. N - 1
      BY <3>1
    <3> HIDE DEF turn
    <3>3. QED
      BY <2>4, <3>1, <3>2
  <2>7. PlaceFor(nd, x, h) # Null
    BY <2>5, <2>6, <2>a
  <2>8. PICK j \in 1 .. N : PlaceFor(nd, x, h) = s[j] /\ Belongs(nd, x, s[j])
    <3> DEFINE places == {i \in DOMAIN s : /\ \A m \in 1 .. i : s[m] # x
                                           /\ Belongs(nd, x, s[i])}
    <3>1. PlaceFor(nd, x, h) = IF places = {} THEN Null ELSE s[Min(places)]
      <4>1. Chain(h, nd) = s
        BY BothWays
      <4>2. QED
        BY <4>1 DEF PlaceFor
    <3>2. places # {} /\ PlaceFor(nd, x, h) = s[Min(places)]
      BY <2>7, <3>1
    <3>3. \A i \in places : i \in 1 .. N /\ Belongs(nd, x, s[i])
      <4> SUFFICES ASSUME NEW i \in places PROVE i \in 1 .. N /\ Belongs(nd, x, s[i])
        OBVIOUS
      <4>1. i \in 1 .. N + 1 /\ s[i] # x
        BY <1>1
      <4>2. QED
        BY <4>1
    <3> HIDE DEF places
    <3>4. \E k \in places : \A m \in places : k <= m
      <4>1. places \subseteq Nat
        BY <3>3
      <4>2. QED
        BY <3>2, <4>1, LeastStep
    <3>5. Min(places) \in places
      BY <3>4 DEF Min
    <3>6. QED
      BY <3>2, <3>3, <3>5
  <2> DEFINE m == Move(h, nd, s[N], x, s[j])
             u == LastBefore(s, j)
  <2>9. turn[N] = [head |-> m.head, node |-> m.node, at |-> m.node[s[N]].next, moved |-> TRUE]
    <3>1. Moved(N) = m
      BY <2>8 DEF Moved
    <3>2. QED
      BY <2>6, <2>7, <2>a, <3>1
  <2>10. /\ OneWay(m.head, m.node, u) /\ m.node[s[N]].next = Null
         /\ \A i \in 1 .. N + 1 : m.node[s[i]].addr = A(i)
    <3>1. LET w == Move(h, nd, s[N], s[N + 1], s[j])
          IN  /\ OneWay(w.head, w.node, LastBefore(s, j))
              /\ w.node[s[N]].next = Null
              /\ \A i \in 1 .. N + 1 : w.node[s[i]].addr = nd[s[i]].addr
      BY LastNodeMoves
    <3>2. QED
      BY <3>1
  <2> HIDE DEF m
  <2>11. turn[N + 1] = turn[N]
    <3>1. turn[N].at = Null
      BY <2>9, <2>10
    <3>2. N + 1 \in 1 .. N + 1 /\ N + 1 - 1 = N
      OBVIOUS
    <3> HIDE DEF turn
    <3>3. QED
      BY <2>1, <3>1, <3>2
  <2>12. Sorted(h, nd).head = m.head /\ Sorted(h, nd).node = m.node
    <3> HIDE DEF turn
    <3>1. QED
      BY <2>1, <2>9, <2>11
  <2>13. A(N + 1) < A(j) /\ (j # 1 => A(j - 1) < A(N + 1))
    <3>1. A(N + 1) <= A(j) /\ A(N + 1) # A(j) /\ A(N + 1) \in Nat /\ A(j) \in Nat
      <4>1. j \in 1 .. N + 1 /\ N + 1 \in 1 .. N + 1
        OBVIOUS
      <4>2. QED
        BY <1>0, <1>1, <2>8, <4>1 DEF Belongs
    <3>2. CASE j = 1
      BY <3>1, <3>2
    <3>3. CASE j # 1
      <4>1. j - 1 \in 1 .. N /\ j - 1 \in 1 .. N + 1 /\ j \in DOMAIN s
        BY <1>1, <3>3
      <4>2. nd[s[j]].prev = s[j - 1]
        BY <3>3, <4>1 DEF Leads
      <4>3. A(N + 1) >= A(j - 1) /\ A(N + 1) # A(j - 1) /\ A(j - 1) \in Nat
        BY <1>0, <1>1, <2>8, <4>1, <4>2 DEF Belongs
      <4>4. QED
        BY <3>1, <4>3
    <3>4. QED
      BY <3>2, <3>3
  <2>14. /\ DOMAIN u = 1 .. N + 1
         /\ \A i \in 1 .. N + 1 : u[i] = IF i < j THEN s[i] ELSE IF i = j THEN x ELSE s[i - 1]
    BY DEF LastBefore
  <2> HIDE DEF u
  <2>15. ASSUME NEW i \in 1 .. N + 1, NEW k \in 1 .. N + 1, i < k
         PROVE  m.node[u[i]].addr < m.node[u[k]].addr
    <3> DEFINE v(z) == IF z < j THEN z ELSE IF z = j THEN N + 1 ELSE z - 1
    <3>1. \A z \in 1 .. N + 1 : v(z) \in 1 .. N + 1 /\ u[z] = s[v(z)]
      BY <2>14
    <3>2. \A z \in 1 .. N + 1 : m.node[u[z]].addr = A(v(z))
      <4> HIDE DEF v
      <4>1. QED
        BY <2>10, <3>1
    <3>3. \A a, b \in 1 .. N : a < b => A(a) < A(b)
      BY <1>0
    <3>4. \A a \in 1 .. N + 1 : A(a) \in Nat
      BY <1>1
    <3> HIDE DEF A
    <3>5. A(v(i)) < A(v(k))
      <4>1. CASE i < j /\ k < j
        <5>1. v(i) = i /\ v(k) = k /\ i \in 1 .. N /\ k \in 1 .. N
          BY <4>1
        <5> HIDE DEF v
        <5>2. QED
          BY <2>15, <3>3, <5>1
      <4>2. CASE i < j /\ k = j
        <5>1. /\ v(i) = i /\ v(k) = N + 1 /\ i \in 1 .. N /\ j - 1 \in 1 .. N /\ j # 1
              /\ i = j - 1 \/ i < j - 1
          BY <4>2
        <5>2. A(i) <= A(j - 1) /\ A(i) \in Nat /\ A(j - 1) \in Nat /\ A(N + 1) \in Nat
          BY <3>3, <3>4, <5>1
        <5> HIDE DEF v
        <5>3. QED
          BY <2>13, <5>1, <5>2
      <4>3. CASE i < j /\ k > j
        <5>1. v(i) = i /\ v(k) = k - 1 /\ i \in 1 .. N /\ k - 1 \in 1 .. N /\ i < k - 1
          BY <4>3
        <5> HIDE DEF v
        <5>2. QED
          BY <3>3, <5>1
      <4>4. CASE i = j
        <5>1. /\ v(i) = N + 1 /\ v(k) = k - 1 /\ k - 1 \in 1 .. N
              /\ j = k - 1 \/ j < k - 1
          BY <2>15, <4>4
        <5>2. A(j) <= A(k - 1) /\ A(j) \in Nat /\ A(k - 1) \in Nat /\ A(N + 1) \in Nat
          BY <3>3, <3>4, <5>1
        <5> HIDE DEF v
        <5>3. QED
          BY <2>13, <5>1, <5>2
      <4>5. CASE i > j
        <5>1. v(i) = i - 1 /\ v(k) = k - 1 /\ i - 1 \in 1 .. N /\ k - 1 \in 1 .. N /\ i - 1 < k - 1
          BY <2>15, <4>5
        <5> HIDE DEF v
        <5>2. QED
          BY <3>3, <5>1
      <4>6. QED
        BY <2>15, <4>1, <4>2, <4>3, <4>4, <4>5
    <3>6. QED
      BY <3>2, <3>5
  <2>16. InOrder(m.node, u)
    BY <2>14, <2>15 DEF InOrder
  <2>17. QED
    BY <2>10, <2>12, <2>16
<1>4. QED
  BY <1>2, <1>3

-----------------------------------------------------------------------------
(***************************************************************************)
(* The invariant of the list.  The nodes are counted and outside a restore *)
(* stand in the table, whatever the pointers are; until the sort moves one *)
(* the list leads to them all, both ways and in order.                     *)
(***************************************************************************)
LinkedInOrder(h, nd) ==
    Leads(h, nd, Chain(h, nd)) /\ InOrder(nd, Chain(h, nd))

ListInv ==
    /\ Shaped(node) /\ DOMAIN node \subseteq Names /\ n = Cardinality(DOMAIN node)
    /\ RowsSound(rows)
    /\ restoring \in BOOLEAN /\ moved \in BOOLEAN
    /\ IF restoring THEN node = NoNodes ELSE RowsHold(rows, node)
    /\ ~moved => LinkedInOrder(head, node)

\* No node, no row.
LEMMA Nothing ==
    /\ LinkedInOrder(Null, NoNodes) /\ Shaped(NoNodes)
    /\ DOMAIN NoNodes = {} /\ Cardinality(DOMAIN NoNodes) = 0
    /\ RowsSound(<<>>) /\ RowsHold(<<>>, NoNodes)
<1>1. ToSet(<<>>) = {} /\ DOMAIN <<>> = {}
  BY DEF ToSet
<1>2. NoNodes \in [{} -> Nodes] /\ DOMAIN NoNodes = {}
  BY DEF NoNodes
<1>3. Leads(Null, NoNodes, <<>>) /\ InOrder(NoNodes, <<>>)
  BY <1>1, <1>2 DEF Leads, InOrder
<1>4. Chain(Null, NoNodes) = <<>>
  BY <1>3, BothWays
<1>5. LinkedInOrder(Null, NoNodes)
  BY <1>3, <1>4 DEF LinkedInOrder
<1>6. Shaped(NoNodes) /\ RowsHold(<<>>, NoNodes)
  BY <1>1, <1>2 DEF Shaped, RowsHold
<1>7. RowsSound(<<>>)
  BY <1>1 DEF RowsSound
<1>8. QED
  BY <1>2, <1>5, <1>6, <1>7, FS_EmptySet

\* The names that are nodes can be counted.
LEMMA NodesFinite ==
    ASSUME NEW D, D \subseteq Names
    PROVE  /\ IsFiniteSet(D) /\ Cardinality(D) \in Nat
           /\ Cardinality(D) <= Cardinality(Names) /\ Cardinality(Names) \in Nat
BY NamesAssumption, FS_Subset, FS_CardinalityType

\* A list that is linked both ways leads to its nodes and ends.
LEMMA Unbroken ==
    ASSUME NEW h, NEW nd, NEW q, Leads(h, nd, q)
    PROVE  ~Broken(h, nd)
<1> DEFINE N == Len(q)
<1>1. Chain(h, nd) = q
  BY BothWays
<1>2. /\ N \in Nat /\ DOMAIN q = 1 .. N /\ DOMAIN nd = ToSet(q)
      /\ \A i \in 1 .. N : q[i] \in DOMAIN nd
  BY DEF Leads, ToSet
<1>3. CASE q = <<>>
  BY <1>1, <1>3 DEF Broken, Leads
<1>4. CASE q # <<>>
  <2>1. N \in 1 .. N /\ Last(q) = q[N]
    BY <1>2, <1>4 DEF Last
  <2>2. nd[Last(q)].next = Null
    BY <1>2, <2>1 DEF Leads
  <2>3. ASSUME NEW c \in ToSet(q)
        PROVE  nd[c].prev \in DOMAIN nd \cup {Null}
    <3>1. PICK i \in 1 .. N : c = q[i]
      BY <1>2 DEF ToSet
    <3>2. nd[c].prev = IF i = 1 THEN Null ELSE q[i - 1]
      BY <1>2, <3>1 DEF Leads
    <3>3. i # 1 => i - 1 \in 1 .. N
      BY <1>2
    <3>4. QED
      BY <1>2, <3>2, <3>3
  <2>4. QED
    BY <1>1, <1>4, <2>2, <2>3 DEF Broken
<1>5. QED
  BY <1>3, <1>4

\* A list of which the sort moved nothing stays as it was.
LEMMA Taken ==
    ASSUME NEW l, NEW q, Leads(l.head, l.node, q), NEW b, Becomes(l, b), ~moved'
    PROVE  LinkedInOrder(head', node')
<1>1. ~Broken(l.head, l.node)
  BY DEF Becomes
<1>2. ~Sorted(l.head, l.node).moved
  BY <1>1 DEF Becomes
<1>3. /\ head' = Sorted(l.head, l.node).head
      /\ node' = Sorted(l.head, l.node).node
  BY <1>1 DEF Becomes
<1>4. head' = l.head /\ node' = l.node /\ InOrder(l.node, q)
  BY <1>2, <1>3, UnmovedSort
<1>5. Chain(l.head, l.node) = q
  BY BothWays
<1>6. QED
  BY <1>4, <1>5 DEF LinkedInOrder

\* The list after a step that makes it l.
LEMMA Rebuilt ==
    ASSUME NEW l, Shaped(l.node), RowsSound(rows'), RowsHold(rows', l.node),
           n' = Cardinality(DOMAIN l.node), restoring' = FALSE,
           NEW b, ~b => \E q : Leads(l.head, l.node, q), Becomes(l, b)
    PROVE  ListInv'
<1>1. DOMAIN l.node \subseteq Names
  BY RowsCount
<1>2. Kept(l.node, node') /\ moved' \in BOOLEAN
  BY <1>1, NodesFinite, BecomesKeeps
<1>3. /\ DOMAIN node' = DOMAIN l.node /\ Shaped(node')
      /\ \A c \in DOMAIN l.node : node'[c].addr = l.node[c].addr
  BY <1>2 DEF Kept
<1>4. RowsHold(rows', node')
  BY <1>3 DEF RowsHold
<1>5. ~moved' => LinkedInOrder(head', node')
  <2>1. SUFFICES ASSUME ~moved' PROVE LinkedInOrder(head', node')
    OBVIOUS
  <2>2. ~b
    BY <2>1 DEF Becomes
  <2>3. PICK q : Leads(l.head, l.node, q)
    BY <2>2
  <2>4. QED
    BY <2>1, <2>3, Taken
<1>6. QED
  BY <1>1, <1>2, <1>3, <1>4, <1>5 DEF ListInv

LEMMA ListInvInit == ListInit => ListInv
BY Nothing DEF ListInit, ListInv

\* Entering a node: the list that leads to it, before the sort.
LEMMA AddLinks ==
    ASSUME ListInv, ~moved, NEW c \in Names \ DOMAIN node, NEW a \in Addrs
    PROVE  LET l == Inserted(head, node, c, a)
           IN  /\ Leads(l.head, l.node, Append(List, c))
               /\ l.node[c].addr = a
               /\ \A x \in ToSet(List) : l.node[x].addr = node[x].addr
<1>1. Leads(head, node, List)
  BY DEF ListInv, LinkedInOrder, List
<1>2. c \in Names /\ c \notin ToSet(List)
  BY <1>1 DEF Leads
<1>3. QED
  BY <1>1, <1>2, InsertedLast

LEMMA AddKeeps ==
    ASSUME ListInv, restoring = FALSE, restoring' = FALSE,
           NEW a \in Addrs, NEW c \in Names \ DOMAIN node, NEW i, Add(i, c, a)
    PROVE  ListInv'
<1> DEFINE l == Inserted(head, node, c, a)
<1>1. /\ Shaped(node) /\ DOMAIN node \subseteq Names /\ n = Cardinality(DOMAIN node)
      /\ RowsSound(rows) /\ RowsHold(rows, node) /\ moved \in BOOLEAN
  BY DEF ListInv
<1>2. /\ n' = n + 1 /\ rows' = Append(RowsWithout(rows, c), [name |-> c, addr |-> a])
      /\ Becomes(l, moved)
  BY DEF Add, RowsAdded
<1>3. /\ DOMAIN l.node = DOMAIN node \cup {c} /\ Shaped(l.node)
      /\ l.node[c].addr = a /\ \A x \in DOMAIN node : l.node[x].addr = node[x].addr
  BY <1>1, InsertedKeeps
<1>4. ~moved => \E q : Leads(l.head, l.node, q)
  BY AddLinks
<1> HIDE DEF l
<1>5. n' = Cardinality(DOMAIN l.node)
  BY <1>1, <1>2, <1>3, NodesFinite, FS_AddElement
<1>6. RowsSound(rows') /\ RowsHold(rows', l.node)
  <2> DEFINE r == RowsWithout(rows, c)
  <2>1. RowsSound(r) /\ ToSet(r) = {x \in ToSet(rows) : x.name # c}
    BY <1>1, RowDropped
  <2>2. ToSet(rows) = {[name |-> x, addr |-> node[x].addr] : x \in DOMAIN node}
    BY <1>1 DEF RowsHold
  <2> HIDE DEF r
  <2>3. ToSet(r) = ToSet(rows)
    BY <2>1, <2>2
  <2>4. /\ RowsSound(Append(r, [name |-> c, addr |-> a]))
        /\ ToSet(Append(r, [name |-> c, addr |-> a])) = ToSet(r) \cup {[name |-> c, addr |-> a]}
    BY <2>1, RowAppended
  <2>5. rows' = Append(r, [name |-> c, addr |-> a])
    BY <1>2 DEF r
  <2>6. ToSet(rows') = {[name |-> x, addr |-> l.node[x].addr] : x \in DOMAIN l.node}
    BY <1>3, <2>2, <2>3, <2>4, <2>5
  <2>7. QED
    BY <2>4, <2>5, <2>6 DEF RowsHold
<1>7. QED
  BY <1>2, <1>3, <1>4, <1>5, <1>6, Rebuilt

\* A new address of the node c: the list before the sort.
LEMMA AddressChanged ==
    ASSUME NEW h, NEW nd, NEW q, Leads(h, nd, q), NEW c \in ToSet(q), NEW a \in Addrs
    PROVE  Leads(h, [nd EXCEPT ![c].addr = a], q)
<1> DEFINE md == [nd EXCEPT ![c].addr = a]
<1>1. nd \in [ToSet(q) -> Nodes] /\ nd[c] \in Nodes /\ \A i \in DOMAIN q : q[i] \in ToSet(q)
  BY DEF Leads, ToSet
<1>2. /\ [nd[c] EXCEPT !.addr = a] \in Nodes
      /\ [nd[c] EXCEPT !.addr = a].next = nd[c].next
      /\ [nd[c] EXCEPT !.addr = a].prev = nd[c].prev
  BY <1>1 DEF Nodes
<1>3. md = [x \in ToSet(q) |-> IF x = c THEN [nd[c] EXCEPT !.addr = a] ELSE nd[x]]
  BY <1>1
<1>4. /\ md \in [ToSet(q) -> Nodes]
      /\ \A x \in ToSet(q) : md[x].next = nd[x].next /\ md[x].prev = nd[x].prev
  BY <1>1, <1>2, <1>3
<1> HIDE DEF md
<1>5. Leads(h, md, q)
  BY <1>1, <1>4 DEF Leads
<1>6. QED
  BY <1>5 DEF md

LEMMA UpdateKeeps ==
    ASSUME ListInv, restoring = FALSE, restoring' = FALSE,
           NEW a \in Addrs, NEW k \in DOMAIN List, NEW i, UpdateVar(i, List[k], a)
    PROVE  ListInv'
<1> DEFINE c == List[k]
           md == [node EXCEPT ![c].addr = a]
           l == [head |-> head, node |-> md]
<1>1. /\ Shaped(node) /\ DOMAIN node \subseteq Names /\ n = Cardinality(DOMAIN node)
      /\ RowsSound(rows) /\ RowsHold(rows, node) /\ moved \in BOOLEAN
  BY DEF ListInv
<1>2. n' = n /\ rows' = RowsUpdated(c, a) /\ Becomes(l, moved)
  BY DEF UpdateVar
<1>3. c \in ToSet(List)
  BY DEF ToSet
<1>4. ~moved => Leads(head, md, List)
  <2>1. ~moved => Leads(head, node, List)
    BY DEF ListInv, LinkedInOrder, List
  <2>2. QED
    BY <1>3, <2>1, AddressChanged
<1>5. /\ RowsSound(rows') /\ RowsHold(rows', md)
      /\ DOMAIN md = DOMAIN node /\ Shaped(md)
  BY <1>1, <1>2, RowChanged
<1> HIDE DEF c, md
<1>6. l.head = head /\ l.node = md
  OBVIOUS
<1> HIDE DEF l
<1>7. QED
  BY <1>1, <1>2, <1>4, <1>5, <1>6, Rebuilt

LEMMA NotFoundKeeps ==
    ASSUME ListInv, restoring = FALSE, restoring' = FALSE, NEW i, NotFound(i)
    PROVE  ListInv'
<1> DEFINE l == [head |-> head, node |-> node]
<1>1. /\ Shaped(node) /\ n = Cardinality(DOMAIN node)
      /\ RowsSound(rows) /\ RowsHold(rows, node)
      /\ ~moved => Leads(head, node, List)
  BY DEF ListInv, LinkedInOrder, List
<1>2. n' = n /\ rows' = rows /\ Becomes(l, moved)
  BY DEF NotFound
<1>3. l.head = head /\ l.node = node
  OBVIOUS
<1> HIDE DEF l
<1>4. QED
  BY <1>1, <1>2, <1>3, Rebuilt

LEMMA DeleteKeeps ==
    ASSUME ListInv, NEW c, Delete(c)
    PROVE  ListInv'
<1> DEFINE o == Removed(head, node, c)
           l == [o EXCEPT !.head = IF n' = 0 THEN Null ELSE @]
<1>1. /\ Shaped(node) /\ DOMAIN node \subseteq Names /\ n = Cardinality(DOMAIN node)
      /\ RowsSound(rows) /\ RowsHold(rows, node) /\ restoring' = FALSE
      /\ ~moved => Leads(head, node, List)
  BY DEF ListInv, Delete, LinkedInOrder, List
<1>2. /\ n' = n - 1 /\ rows' = RowsWithout(rows, c) /\ Becomes(l, moved) /\ c \in ToSet(List)
  BY DEF Delete, CountDown
<1>3. Cardinality(DOMAIN node) \in Nat /\ IsFiniteSet(DOMAIN node)
  BY <1>1, NodesFinite
<1>4. c \in DOMAIN node
  BY <1>2, <1>3, ChainAllocated DEF List
<1>5. l.head = (IF n' = 0 THEN Null ELSE o.head) /\ l.node = o.node
  BY DEF Removed
<1>6. /\ DOMAIN o.node = DOMAIN node \ {c} /\ Shaped(o.node)
      /\ \A x \in DOMAIN node \ {c} : o.node[x].addr = node[x].addr
  BY <1>1, RemovedKeeps
<1>7. ~moved => \E q : Leads(l.head, l.node, q)
  <2>1. SUFFICES ASSUME ~moved PROVE \E q : Leads(l.head, l.node, q)
    OBVIOUS
  <2>2. PICK k \in DOMAIN List : c = List[k]
    BY <1>2 DEF ToSet
  <2> DEFINE s == Without(List, k)
  <2>3. Leads(head, node, List)
    BY <1>1, <2>1
  <2>4. Leads(o.head, o.node, s)
    BY <2>2, <2>3, RemovedKth
  <2>5. n = Len(List) /\ Len(List) \in Nat /\ List \in Seq(Names)
    BY <1>1, <2>3, NodesCounted DEF Leads
  <2>6. n' = 0 => s = <<>>
    BY <1>2, <2>5 DEF Without
  <2> HIDE DEF s, o, l
  <2>7. n' = 0 => o.head = Null
    BY <2>4, <2>6 DEF Leads
  <2>8. l.head = o.head
    BY <1>5, <2>7
  <2>9. QED
    BY <1>5, <2>4, <2>8
<1> HIDE DEF o, l
<1>8. n' = Cardinality(DOMAIN l.node)
  <2>1. Cardinality(DOMAIN node \ {c}) = Cardinality(DOMAIN node) - 1
    BY <1>3, <1>4, FS_RemoveElement
  <2>2. QED
    BY <1>1, <1>2, <1>5, <1>6, <2>1
<1>9. RowsSound(rows') /\ RowsHold(rows', l.node)
  <2>1. RowsSound(rows') /\ ToSet(rows') = {x \in ToSet(rows) : x.name # c}
    BY <1>1, <1>2, RowDropped
  <2>2. ToSet(rows) = {[name |-> x, addr |-> node[x].addr] : x \in DOMAIN node}
    BY <1>1 DEF RowsHold
  <2>3. ToSet(rows') = {[name |-> x, addr |-> node[x].addr] : x \in DOMAIN node \ {c}}
    BY <2>1, <2>2
  <2>4. ToSet(rows') = {[name |-> x, addr |-> l.node[x].addr] : x \in DOMAIN l.node}
    BY <1>5, <1>6, <2>3
  <2>5. QED
    BY <2>1, <2>4 DEF RowsHold
<1>10. QED
  BY <1>1, <1>2, <1>5, <1>6, <1>7, <1>8, <1>9, Rebuilt

LEMMA RestoreLineKeeps ==
    ASSUME ListInv, NEW c \in Names, NEW a \in Addrs, RestoreLine(c, a)
    PROVE  ListInv'
<1> DEFINE r == RowsWithout(rows, c)
<1>1. /\ head' = head /\ node' = node /\ n' = n /\ restoring' = restoring /\ moved' = moved
      /\ restoring = TRUE /\ rows' = Append(r, [name |-> c, addr |-> a])
  BY DEF ListInv, RestoreLine, RowsAdded
<1>2. RowsSound(r) /\ ToSet(r) = {x \in ToSet(rows) : x.name # c}
  BY RowDropped DEF ListInv
<1> HIDE DEF r
<1>3. RowsSound(rows')
  BY <1>1, <1>2, RowAppended
<1>4. QED
  BY <1>1, <1>3 DEF ListInv

LEMMA RestartKeeps ==
    ASSUME ListInv, Restart
    PROVE  ListInv'
<1> DEFINE N == Len(rows)
           l == Loaded(rows)
           q == NamesOf(rows, N)
<1>1. /\ RowsSound(rows) /\ rows' = rows /\ n' = N /\ Becomes(l, FALSE) /\ restoring' = FALSE
      /\ N \in Nat /\ N \in 0 .. N /\ DOMAIN rows = 1 .. N /\ rows \in Seq(Row)
  <2>1. RowsSound(rows) /\ rows' = rows /\ n' = N /\ Becomes(l, FALSE) /\ restoring' = FALSE
    BY DEF ListInv, Restart
  <2>2. rows \in Seq(Row)
    BY <2>1 DEF RowsSound
  <2> HIDE DEF l, q
  <2>3. N \in Nat /\ N \in 0 .. N /\ DOMAIN rows = 1 .. N
    BY <2>2
  <2>4. QED
    BY <2>1, <2>2, <2>3
<1>2. /\ Leads(l.head, l.node, q)
      /\ \A i \in 1 .. N : l.node[rows[i].name].addr = rows[i].addr
  BY <1>1, LoadedRows
<1>3. ToSet(q) = {rows[i].name : i \in 1 .. N}
  BY <1>1, RowNames
<1> HIDE DEF l, q, N
<1>4. DOMAIN l.node = ToSet(q) /\ Shaped(l.node)
  BY <1>2 DEF Leads, Shaped, Nodes
<1>5. RowsHold(rows, l.node)
  <2>1. \A i \in 1 .. N : rows[i] = [name |-> rows[i].name, addr |-> l.node[rows[i].name].addr]
    <3> SUFFICES ASSUME NEW i \in 1 .. N
                 PROVE  rows[i] = [name |-> rows[i].name, addr |-> l.node[rows[i].name].addr]
      OBVIOUS
    <3>1. rows[i] \in Row
      BY <1>1
    <3>2. rows[i] = [name |-> rows[i].name, addr |-> rows[i].addr]
      BY <3>1 DEF Row
    <3>3. QED
      BY <1>2, <3>2
  <2>2. ToSet(rows) = {rows[i] : i \in 1 .. N}
    BY <1>1 DEF ToSet
  <2> DEFINE R == {[name |-> x, addr |-> l.node[x].addr] : x \in ToSet(q)}
  <2>3. ASSUME NEW i \in 1 .. N PROVE rows[i] \in R
    <3>1. rows[i].name \in ToSet(q)
      BY <1>3
    <3>2. QED
      BY <2>1, <3>1
  <2>4. ASSUME NEW x \in R PROVE x \in ToSet(rows)
    <3>1. PICK c \in ToSet(q) : x = [name |-> c, addr |-> l.node[c].addr]
      OBVIOUS
    <3>2. PICK i \in 1 .. N : c = rows[i].name
      BY <1>3
    <3>3. x = rows[i]
      BY <2>1, <3>1, <3>2
    <3>4. QED
      BY <2>2, <3>3
  <2>5. ToSet(rows) = R
    <3> HIDE DEF R
    <3>1. QED
      BY <2>2, <2>3, <2>4
  <2>6. QED
    BY <1>4, <2>5 DEF RowsHold
<1>6. N = Cardinality(DOMAIN l.node)
  BY <1>1, <1>5, RowsCount DEF N
<1>7. QED
  BY <1>1, <1>2, <1>4, <1>5, <1>6, Rebuilt

\* Every request of the page, every line of a restore and every start keep it.
LEMMA ListInvStep ==
    ASSUME ListInv, [ListNext]_listVars
    PROVE  ListInv'
<1>1. CASE Save
  <2>1. restoring = FALSE /\ restoring' = FALSE
    BY <1>1 DEF Save, ListInv
  <2>2. PICK a \in Addrs :
           \/ \E c \in Names \ DOMAIN node : Add(Len(List), c, a)
           \/ NotFound(Len(List))
           \/ \E i \in DOMAIN List : UpdateVar(i - 1, List[i], a)
    BY <1>1 DEF Save
  <2>3. CASE \E c \in Names \ DOMAIN node : Add(Len(List), c, a)
    BY <2>1, <2>3, AddKeeps
  <2>4. CASE NotFound(Len(List))
    BY <2>1, <2>4, NotFoundKeeps
  <2>5. CASE \E i \in DOMAIN List : UpdateVar(i - 1, List[i], a)
    BY <2>1, <2>5, UpdateKeeps
  <2>6. QED
    BY <2>2, <2>3, <2>4, <2>5
<1>2. CASE \E c \in Names : Delete(c)
  BY <1>2, DeleteKeeps
<1>3. CASE RestoreBegin
  BY <1>3, Nothing DEF RestoreBegin, ListInv
<1>4. CASE \E c \in Names, a \in Addrs : RestoreLine(c, a)
  BY <1>4, RestoreLineKeeps
<1>5. CASE Restart
  BY <1>5, RestartKeeps
<1>6. CASE UNCHANGED listVars
  BY <1>6 DEF listVars, ListInv
<1>7. QED
  BY <1>1, <1>2, <1>3, <1>4, <1>5, <1>6 DEF ListNext

LEMMA ListInvAlways == ListSpec => []ListInv
<1>1. ListInv /\ [ListNext]_listVars => ListInv'
  BY ListInvStep
<1>2. QED
  BY <1>1, ListInvInit, PTL DEF ListSpec

\* Every name that is allocated has an address of the ranges, the count never
\* passes the number of names, and the table is one of names and addresses.
THEOREM ListTypeCorrect == ListSpec => []ListTypeOK
<1>1. ListInv => ListTypeOK
  <2> SUFFICES ASSUME ListInv PROVE ListTypeOK
    OBVIOUS
  <2>1. /\ DOMAIN node \subseteq Names /\ n = Cardinality(DOMAIN node)
        /\ restoring \in BOOLEAN /\ moved \in BOOLEAN
        /\ rows \in Seq([name : Names, addr : Addrs])
    BY DEF ListInv, RowsSound, Row
  <2>2. n \in 0 .. Cardinality(Names)
    BY <2>1, NodesFinite
  <2>3. \A c \in DOMAIN node : node[c].addr \in Addrs
    <3>1. CASE restoring
      BY <3>1, Nothing DEF ListInv
    <3>2. CASE ~restoring
      BY <3>2, RowsCount DEF ListInv
    <3>3. QED
      BY <3>1, <3>2
  <2>4. QED
    BY <2>1, <2>2, <2>3 DEF ListTypeOK
<1>2. QED
  BY <1>1, ListInvAlways, PTL

\* Outside a restore the table of variables says what the nodes say, and n
\* counts them, whatever the sort has made of the links.
THEOREM DatabaseMirrors == ListSpec => []CfgMirrorsNodes
<1>1. ListInv => CfgMirrorsNodes
  <2> SUFFICES ASSUME ListInv, ~restoring
               PROVE  /\ n = Len(rows) /\ n = Cardinality(DOMAIN node)
                      /\ ToSet(rows) =
                           {[name |-> c, addr |-> node[c].addr] : c \in DOMAIN node}
    BY DEF CfgMirrorsNodes
  <2>1. RowsSound(rows) /\ RowsHold(rows, node) /\ n = Cardinality(DOMAIN node)
    BY DEF ListInv
  <2>2. QED
    BY <2>1, RowsCount DEF RowsHold
<1>2. QED
  BY <1>1, ListInvAlways, PTL

\* Until the sort moves a node, next and prev are the inverse of each other,
\* and the list leads to every node and n counts them.
THEOREM LinkedBothWays == ListSpec => []LinkedUntilMoved
<1>1. ListInv => LinkedUntilMoved
  <2> SUFFICES ASSUME ListInv, ~moved
               PROVE  /\ \A i \in DOMAIN List :
                            node[List[i]].prev = IF i = 1 THEN Null ELSE List[i - 1]
                      /\ ToSet(List) = DOMAIN node
                      /\ n = Len(List)
    BY DEF LinkedUntilMoved, CountIsLength
  <2>1. Leads(head, node, List) /\ n = Cardinality(DOMAIN node)
    BY DEF ListInv, LinkedInOrder, List
  <2>2. DOMAIN node = ToSet(List)
    BY <2>1 DEF Leads
  <2>3. Cardinality(ToSet(List)) = Len(List)
    BY <2>1, NodesCounted DEF Leads
  <2>4. QED
    BY <2>1, <2>2, <2>3 DEF Leads
<1>2. QED
  BY <1>1, ListInvAlways, PTL

\* The sort overlooks no node of a list that is linked both ways: where it
\* moved none, they are in the order of the addresses.
THEOREM OrderKept == ListSpec => []OrderedUnlessMoved
<1>1. ListInv => OrderedUnlessMoved
  BY DEF ListInv, OrderedUnlessMoved, LinkedInOrder, InOrder, List
<1>2. QED
  BY <1>1, ListInvAlways, PTL

\* A new variable comes to its place by address, wherever that is, in a list
\* the sort had not moved a node of before.
THEOREM NewInOrder == ListSpec => EntersInOrder
<1> DEFINE Entered == /\ ToSet(List') = DOMAIN node'
                      /\ \A i, j \in DOMAIN List' :
                            i < j => node'[List'[i]].addr < node'[List'[j]].addr
<1>1. ListInv /\ [ListNext]_listVars
        => [~moved /\ ~restoring /\ n' = n + 1 => Entered]_listVars
  <2> SUFFICES ASSUME ListInv, [ListNext]_listVars, ~moved, ~restoring, n' = n + 1
               PROVE  Entered
    OBVIOUS
  <2>1. /\ n \in Nat /\ n = Cardinality(DOMAIN node) /\ RowsSound(rows) /\ RowsHold(rows, node)
        /\ Leads(head, node, List) /\ InOrder(node, List)
    BY NodesFinite DEF ListInv, LinkedInOrder, List
  <2>2. Len(rows) = n
    BY <2>1, RowsCount
  <2>3. PICK a \in Addrs, c \in Names \ DOMAIN node :
            AddressFree(a, c) /\ Add(Len(List), c, a)
    <3>0. n' # n /\ n' # n - 1 /\ n' # 0
      BY <2>1
    <3>1. ~(\E c \in Names : Delete(c))
      BY <3>0 DEF Delete, CountDown
    <3>2. ~RestoreBegin
      BY <3>0 DEF RestoreBegin
    <3>3. ~(\E c \in Names, a \in Addrs : RestoreLine(c, a))
      BY DEF RestoreLine
    <3>4. ~Restart
      BY <2>2, <3>0 DEF Restart
    <3>5. ~UNCHANGED listVars
      BY <3>0 DEF listVars
    <3>6. Save
      BY <3>1, <3>2, <3>3, <3>4, <3>5 DEF ListNext
    <3>7. \A i, c, a : ~UpdateVar(i, c, a) /\ ~NotFound(i)
      BY <3>0 DEF UpdateVar, NotFound
    <3>8. QED
      BY <3>6, <3>7 DEF Save
  <2> DEFINE l == Inserted(head, node, c, a)
             s == Append(List, c)
             N == Len(List)
  <2>4. /\ Leads(l.head, l.node, s) /\ l.node[c].addr = a
        /\ \A x \in ToSet(List) : l.node[x].addr = node[x].addr
    BY AddLinks
  <2>5. Becomes(l, moved)
    BY <2>3 DEF Add
  <2> HIDE DEF l
  <2>6. /\ N \in Nat /\ Len(s) = N + 1 /\ DOMAIN List = 1 .. N
        /\ \A i \in 1 .. N : s[i] = List[i] /\ List[i] \in ToSet(List) /\ List[i] # c
        /\ s[N + 1] = c
    <3>1. List \in Seq(Names) /\ c \in Names /\ DOMAIN node = ToSet(List)
      BY <2>1 DEF Leads
    <3>2. N \in Nat /\ Len(s) = N + 1 /\ DOMAIN List = 1 .. N /\ s[N + 1] = c
      BY <3>1
    <3>3. \A i \in 1 .. N : s[i] = List[i] /\ List[i] \in ToSet(List)
      BY <3>1 DEF ToSet
    <3>4. QED
      BY <3>1, <3>2, <3>3
  <2> HIDE DEF s, N
  <2>7. AllButLast(l.node, s)
    <3>1. \A i \in 1 .. N : l.node[s[i]].addr = node[List[i]].addr /\ node[List[i]].addr # a
      BY <2>3, <2>4, <2>6 DEF AddressFree
    <3>2. \A i, j \in 1 .. N : i < j => node[List[i]].addr < node[List[j]].addr
      BY <2>1, <2>6 DEF InOrder
    <3>3. Len(s) - 1 = N /\ s[Len(s)] = c
      BY <2>6
    <3>4. QED
      BY <2>4, <3>1, <3>2, <3>3 DEF AllButLast
  <2>8. \E u : /\ OneWay(Sorted(l.head, l.node).head, Sorted(l.head, l.node).node, u)
               /\ InOrder(Sorted(l.head, l.node).node, u)
    BY <2>4, <2>6, <2>7, SortEnters
  <2>9. head' = Sorted(l.head, l.node).head /\ node' = Sorted(l.head, l.node).node
    <3>1. ~Broken(l.head, l.node)
      BY <2>4, Unbroken
    <3>2. QED
      BY <2>5, <3>1 DEF Becomes
  <2>10. PICK u : OneWay(head', node', u) /\ InOrder(node', u)
    BY <2>8, <2>9
  <2>11. List' = u
    BY <2>10, ChainIs DEF List
  <2>12. QED
    BY <2>10, <2>11 DEF OneWay, InOrder
<1>2. QED
  BY <1>1, ListInvAlways, PTL DEF ListSpec, EntersInOrder
================================================================================
