---------------------------- MODULE ReportProofs ----------------------------
(***************************************************************************)
(* Proofs about Report for any list of variables, any number of devices,   *)
(* any values and frames of any size.                                      *)
(***************************************************************************)
EXTENDS Report, TLAPS, FiniteSetTheorems, WellFoundedInduction

USE NAssumption, DevicesAssumption, SetupsAssumption

-----------------------------------------------------------------------------
(***************************************************************************)
(* The ends of a set of places in the list.                                *)
(***************************************************************************)
\* Sets of places have a smallest and a largest member: the sets of the
\* places up to n, or from n on, are well founded under inclusion.
LEMMA Ends ==
  ASSUME NEW S \in SUBSET Nodes, S # {}
  PROVE  /\ \E n \in S : \A m \in S : n <= m
         /\ \E n \in S : \A m \in S : m <= n
<1> DEFINE Less == StrictSubsetOrdering(Nodes)
           Up == {1 .. n : n \in S}
           Down == {n .. N : n \in S}
<1>1. IsWellFoundedOn(Less, FiniteSubsetsOf(Nodes))
  BY FS_StrictSubsetOrderingWellFounded
<1>2. IsFiniteSet(Nodes)
  BY FS_Interval DEF Nodes
<1>3. Up \subseteq FiniteSubsetsOf(Nodes) /\ Down \subseteq FiniteSubsetsOf(Nodes)
  <2>1. ASSUME NEW n \in S
        PROVE  /\ 1 .. n \in SUBSET Nodes /\ n .. N \in SUBSET Nodes
               /\ IsFiniteSet(1 .. n) /\ IsFiniteSet(n .. N)
    BY FS_Interval DEF Nodes
  <2>2. QED
    BY <2>1 DEF FiniteSubsetsOf
<1>4. Up # {} /\ Down # {}
  OBVIOUS
<1>5. PICK U \in Up : \A V \in Up : <<V, U>> \notin Less
  <2> HIDE DEF Up, Less
  <2>1. QED
    BY <1>1, <1>3, <1>4, WFMin
<1>6. PICK D \in Down : \A E \in Down : <<E, D>> \notin Less
  <2> HIDE DEF Down, Less
  <2>1. QED
    BY <1>1, <1>3, <1>4, WFMin
<1>7. PICK u \in S : U = 1 .. u
  OBVIOUS
<1>8. PICK d \in S : D = d .. N
  OBVIOUS
<1>9. ASSUME NEW m \in S PROVE u <= m /\ m <= d
  <2>1. m \in Nodes /\ u \in Nodes /\ d \in Nodes
    OBVIOUS
  <2>2. <<1 .. m, 1 .. u>> \notin Less /\ <<m .. N, d .. N>> \notin Less
    BY <1>5, <1>6, <1>7, <1>8
  <2>3. /\ 1 .. m \in SUBSET Nodes /\ 1 .. u \in SUBSET Nodes
        /\ m .. N \in SUBSET Nodes /\ d .. N \in SUBSET Nodes
    BY <2>1 DEF Nodes
  <2>4. CASE m < u
    <3>1. 1 .. m \subseteq 1 .. u /\ u \in 1 .. u /\ u \notin 1 .. m
      BY <2>1, <2>4 DEF Nodes
    <3>2. QED
      BY <2>2, <2>3, <3>1 DEF StrictSubsetOrdering
  <2>5. CASE d < m
    <3>1. m .. N \subseteq d .. N /\ d \in d .. N /\ d \notin m .. N
      BY <2>1, <2>5 DEF Nodes
    <3>2. QED
      BY <2>2, <2>3, <3>1 DEF StrictSubsetOrdering
  <2>6. QED
    BY <2>1, <2>4, <2>5 DEF Nodes
<1>10. QED
  BY <1>9

\* *ppnode has somewhere to point to when a frame holds anything.
LEMMA LastIsLargest ==
  ASSUME NEW S \in SUBSET Nodes, S # {}
  PROVE  Last(S) \in S /\ \A n \in S : n <= Last(S)
BY Ends DEF Last

\* A frame takes something if anything is due: the first always fits.
LEMMA FirstFits ==
  ASSUME NEW S \in SUBSET Nodes, S # {}
  PROVE  FirstOf(S) # {} /\ FirstOf(S) \subseteq S
<1>1. S \in SUBSET Nat
  BY DEF Nodes
<1>2. PICK n \in S : \A m \in S : n <= m
  BY Ends
<1>3. {m \in S : m < n} = {}
  <2>1. ASSUME NEW m \in S PROVE ~(m < n)
    <3>1. m \in Nat /\ n \in Nat /\ n <= m
      BY <1>1, <1>2
    <3>2. QED
      BY <3>1
  <2>2. QED
    BY <2>1
<1>4. Cardinality({m \in S : m < n}) = 0
  BY <1>3, FS_EmptySet
<1>5. n \in FirstOf(S)
  BY <1>4 DEF FirstOf
<1>6. QED
  BY <1>5 DEF FirstOf

-----------------------------------------------------------------------------
(***************************************************************************)
(* Type correctness.                                                       *)
(***************************************************************************)
CfgType == /\ [proto |-> proto, order |-> order, sharp |-> sharp] \in Setups
           /\ nid \in Devices
ValuesType ==
  /\ counted \in [Nodes -> SUBSET Tags]
  /\ pending \in [Nodes -> [Kinds -> SUBSET Tags]]
  /\ reported \in [Nodes -> [Kinds -> SUBSET Tags]]
ClocksType ==
  /\ elapsed \in [Nodes -> [Kinds -> BOOLEAN]]
  /\ turned \in [Kinds -> BOOLEAN]
PlaceType == stage \in 0 .. Len(order) /\ at \in 0 .. N
ExitType == lost \in BOOLEAN /\ owed \subseteq Nodes

LEMMA Order ==
  ASSUME CfgType
  PROVE  /\ order \in Seq({"real", "min", "5min", "hour"}) /\ order # <<>>
         /\ Len(order) \in Nat \ {0}
         /\ \A i \in 1 .. Len(order) : order[i] \in Kinds
BY DEF CfgType, Kinds

\* What goes into a frame is in the list.
LEMMA EntriesInList ==
  ASSUME at \in 0 .. N, NEW k
  PROVE  /\ Rest \subseteq Nodes /\ Run \subseteq Rest
         /\ Entries(k) \subseteq Nodes
         /\ proto = "hjt212" => Entries(k) \subseteq Run
         /\ NextAt(k) \in 0 .. N
<1>1. Rest \subseteq Nodes /\ Run \subseteq Rest
  BY DEF Rest, Run, Nodes
<1>2. /\ Entries(k) \subseteq Nodes
      /\ proto = "hjt212" => Entries(k) \subseteq Run
  BY <1>1 DEF Entries, FirstOf, Ready
<1>3. Entries(k) # {} => Last(Entries(k)) \in 0 .. N
  BY <1>2, LastIsLargest DEF Nodes
<1>4. NextAt(k) \in 0 .. N
  BY <1>3 DEF NextAt, NextInList
<1>5. QED
  BY <1>1, <1>2, <1>4

LEMMA NextCfg == [Next]_vars => UNCHANGED cfgVars
BY DEF Next, Count, CountNothing, Elapse, Turn, Lose, BeginAgain, ReportFrame,
       SkipSweep, CutShort, CutInside, vars

LEMMA NextPlace == CfgType /\ PlaceType /\ [Next]_vars => PlaceType'
<1> SUFFICES ASSUME CfgType, PlaceType, [Next]_vars PROVE PlaceType'
  OBVIOUS
<1>1. Len(order) \in Nat \ {0} /\ order' = order
  BY Order, NextCfg DEF cfgVars
<1>2. NextStage \in 0 .. Len(order)
  BY <1>1 DEF NextStage, PlaceType
<1>3. CASE Count \/ CountNothing
  BY <1>1, <1>3 DEF Count, CountNothing, PlaceType
<1>4. CASE Elapse \/ Turn \/ Lose \/ BeginAgain \/ UNCHANGED vars
  BY <1>1, <1>4 DEF Elapse, Turn, Lose, BeginAgain, vars, PlaceType
<1>5. CASE ReportFrame
  <2>1. at' = NextAt(order[stage]) /\ stage' \in {stage, NextStage}
    BY <1>5 DEF ReportFrame
  <2>2. QED
    BY <1>1, <1>2, <2>1, EntriesInList DEF PlaceType
<1>6. CASE SkipSweep \/ CutShort \/ CutInside
  BY <1>1, <1>2, <1>6 DEF SkipSweep, CutShort, CutInside, PlaceType
<1>7. QED
  BY <1>3, <1>4, <1>5, <1>6 DEF Next

LEMMA NextValues ==
  CfgType /\ PlaceType /\ ValuesType /\ [Next]_vars => ValuesType'
<1> SUFFICES ASSUME CfgType, PlaceType, ValuesType, [Next]_vars PROVE ValuesType'
  OBVIOUS
<1>1. Kinds' = Kinds
  BY NextCfg DEF cfgVars, Kinds
<1>2. CASE Count
  BY <1>1, <1>2 DEF Count, ValuesType
<1>3. CASE ReportFrame \/ CutInside
  <2>1. PICK k \in Kinds : \E S, C : HandOver(S, C, k) /\ UNCHANGED counted
    BY <1>3, Order DEF ReportFrame, CutInside, PlaceType
  <2>2. QED
    BY <1>1, <2>1 DEF HandOver, ValuesType
<1>4. CASE \/ CountNothing \/ Elapse \/ Turn \/ SkipSweep
           \/ CutShort \/ Lose \/ BeginAgain \/ UNCHANGED vars
  BY <1>1, <1>4 DEF CountNothing, Elapse, Turn, SkipSweep, CutShort, Lose,
     BeginAgain, vars, valueVars, ValuesType
<1>5. QED
  BY <1>2, <1>3, <1>4 DEF Next

LEMMA NextClocks ==
  CfgType /\ PlaceType /\ ClocksType /\ [Next]_vars => ClocksType'
<1> SUFFICES ASSUME CfgType, PlaceType, ClocksType, [Next]_vars PROVE ClocksType'
  OBVIOUS
<1>1. Kinds' = Kinds
  BY NextCfg DEF cfgVars, Kinds
<1>2. CASE Elapse
  BY <1>1, <1>2 DEF Elapse, ClocksType
<1>3. CASE Turn
  BY <1>1, <1>3 DEF Turn, ClocksType
<1>4. CASE ReportFrame \/ CutInside
  <2>1. PICK k \in Kinds : \E S, C : HandOver(S, C, k)
    BY <1>4, Order DEF ReportFrame, CutInside, PlaceType
  <2>2. turned' \in [Kinds -> BOOLEAN]
    BY <1>4, Order DEF ReportFrame, CutInside, ClocksType, PlaceType
  <2>3. QED
    BY <1>1, <2>1, <2>2 DEF HandOver, ClocksType
<1>5. CASE \/ Count \/ CountNothing \/ SkipSweep \/ CutShort
           \/ Lose \/ BeginAgain \/ UNCHANGED vars
  BY <1>1, <1>5 DEF Count, CountNothing, SkipSweep, CutShort, Lose,
     BeginAgain, vars, valueVars, ClocksType
<1>6. QED
  BY <1>2, <1>3, <1>4, <1>5 DEF Next

LEMMA NextExit == ExitType /\ [Next]_vars => ExitType'
BY DEF ExitType, Next, Count, CountNothing, Elapse, Turn, Lose, BeginAgain,
       ReportFrame, SkipSweep, CutShort, CutInside, Owes, Ready, vars

Types == CfgType /\ ValuesType /\ ClocksType /\ PlaceType /\ ExitType

LEMMA TypesInvariant == Spec => []Types
<1>1. Init => Types
  <2> SUFFICES ASSUME Init PROVE Types
    OBVIOUS
  <2>1. PICK s \in Setups :
          proto = s.proto /\ order = s.order /\ sharp = s.sharp
    BY DEF Init
  <2>2. s = [proto |-> s.proto, order |-> s.order, sharp |-> s.sharp]
    OBVIOUS
  <2>3. CfgType
    BY <2>1, <2>2 DEF Init, CfgType
  <2>4. Len(order) \in Nat
    BY <2>3, Order
  <2>5. ValuesType /\ ClocksType
    BY DEF Init, ValuesType, ClocksType
  <2>6. PlaceType
    BY <2>4 DEF Init, PlaceType
  <2>7. ExitType
    BY DEF Init, ExitType
  <2>8. QED
    BY <2>3, <2>5, <2>6, <2>7 DEF Types
<1>2. Types /\ [Next]_vars => Types'
  BY NextCfg, NextPlace, NextValues, NextClocks, NextExit DEF Types, CfgType, cfgVars
<1>3. QED
  BY <1>1, <1>2, PTL DEF Spec

\* Averages, clocks and the place of the sweep keep their types; *ppnode is
\* NULL or in the list.
THEOREM TypesKept == Spec => []TypeOK
<1>1. Types => TypeOK
  BY DEF Types, CfgType, ValuesType, ClocksType, PlaceType, ExitType, TypeOK
<1>2. QED
  BY <1>1, TypesInvariant, PTL

-----------------------------------------------------------------------------
(***************************************************************************)
(* Nothing is lost and nothing is sent twice.                              *)
(***************************************************************************)
LEMMA NextOnce ==
  ASSUME Types, EachValueOnce, [Next]_vars
  PROVE  EachValueOnce'
<1> USE DEF EachValueOnce
<1>1. Kinds' = Kinds
  BY NextCfg DEF cfgVars, Kinds
<1>2. CASE Count
  <2> SUFFICES ASSUME NEW n \in Nodes, NEW k \in Kinds
               PROVE  /\ pending'[n][k] \cap reported'[n][k] = {}
                      /\ pending'[n][k] \cup reported'[n][k] = counted'[n]
    BY <1>1
  <2>1. PICK t \in Tags, S \in SUBSET Nodes :
          /\ FreeTag(t)
          /\ counted' = [m \in Nodes |->
                           IF m \in S THEN counted[m] \cup {t}
                           ELSE counted[m] \ {t}]
          /\ pending' = [m \in Nodes |-> [j \in Kinds |->
                           IF m \in S THEN pending[m][j] \cup {t}
                           ELSE pending[m][j]]]
          /\ reported' = [m \in Nodes |-> [j \in Kinds |-> reported[m][j] \ {t}]]
    BY <1>2 DEF Count
  <2>2. /\ counted'[n] = IF n \in S THEN counted[n] \cup {t} ELSE counted[n] \ {t}
        /\ pending'[n][k] = IF n \in S THEN pending[n][k] \cup {t} ELSE pending[n][k]
        /\ reported'[n][k] = reported[n][k] \ {t}
        /\ t \notin pending[n][k]
    BY <2>1 DEF FreeTag
  <2>3. /\ pending[n][k] \cap reported[n][k] = {}
        /\ pending[n][k] \cup reported[n][k] = counted[n]
    OBVIOUS
  <2>4. QED
    BY <2>2, <2>3
<1>3. CASE ReportFrame \/ CutInside
  <2>a. PICK o \in Kinds :
          \E taken : HandOver(taken, taken, o) /\ UNCHANGED counted
    BY <1>3, Order DEF ReportFrame, Cleared, CutInside, Types, PlaceType
  <2>0. PICK taken : HandOver(taken, taken, o) /\ UNCHANGED counted
    BY <2>a
  <2> SUFFICES ASSUME NEW n \in Nodes, NEW k \in Kinds
               PROVE  /\ pending'[n][k] \cap reported'[n][k] = {}
                      /\ pending'[n][k] \cup reported'[n][k] = counted'[n]
    BY <1>1
  <2>1. /\ counted' = counted
        /\ reported'[n] = IF n \in taken
                          THEN [reported[n] EXCEPT ![o] = @ \cup pending[n][o]]
                          ELSE reported[n]
        /\ pending'[n] = IF n \in taken THEN [pending[n] EXCEPT ![o] = {}]
                         ELSE pending[n]
    BY <2>0 DEF HandOver
  <2>2. /\ pending[n] \in [Kinds -> SUBSET Tags]
        /\ reported[n] \in [Kinds -> SUBSET Tags]
    BY DEF Types, ValuesType
  <2>3. /\ pending[n][k] \cap reported[n][k] = {}
        /\ pending[n][k] \cup reported[n][k] = counted[n]
    OBVIOUS
  <2>4. CASE n \in taken /\ k = o
    <3>1. pending'[n][k] = {} /\ reported'[n][k] = reported[n][k] \cup pending[n][k]
      BY <2>0, <2>1, <2>2, <2>4
    <3>2. QED
      BY <2>1, <2>3, <3>1
  <2>5. CASE ~(n \in taken /\ k = o)
    <3>1. pending'[n][k] = pending[n][k] /\ reported'[n][k] = reported[n][k]
      BY <2>0, <2>1, <2>2, <2>5
    <3>2. QED
      BY <2>1, <2>3, <3>1
  <2>6. QED
    BY <2>4, <2>5
<1>4. CASE \/ CountNothing \/ Elapse \/ Turn \/ SkipSweep
           \/ CutShort \/ Lose \/ BeginAgain \/ UNCHANGED vars
  BY <1>1, <1>4 DEF CountNothing, Elapse, Turn, SkipSweep, CutShort, Lose,
     BeginAgain, vars, valueVars
<1>5. QED
  BY <1>2, <1>3, <1>4 DEF Next

\* Every value counted is in its average or has been handed over, exactly one
\* of the two, for every kind of average and however the frames are cut.
THEOREM ValuesReportedOnce == Spec => []EachValueOnce
<1>1. Init => EachValueOnce
  BY DEF Init, EachValueOnce
<1>2. Types /\ EachValueOnce /\ [Next]_vars => EachValueOnce'
  BY NextOnce
<1>3. QED
  BY <1>1, <1>2, TypesInvariant, PTL DEF Spec

-----------------------------------------------------------------------------
(***************************************************************************)
(* A frame is about one device: it ends where another device begins, and   *)
(* nothing else is handed over in the same step.                           *)
(***************************************************************************)
SameMN == proto = "hjt212" /\ stage # 0 =>
            \A m, n \in Nodes : reported'[m] # reported[m] /\ reported'[n] # reported[n]
                                  => nid[m] = nid[n]

LEMMA RunOfOneDevice ==
  ASSUME at \in 0 .. N, NEW n \in Run
  PROVE  nid[n] = nid[at + 1]
<1>1. n \in at + 1 .. n
  BY DEF Run, Rest
<1>2. QED
  BY <1>1 DEF Run, SameDevice

\* A frame of HJT212 never holds variables of two devices under one MN.
THEOREM FramesOfOneDevice == Spec => OneDeviceFrames
<1>1. Types /\ [Next]_vars => SameMN
  <2> SUFFICES ASSUME Types, [Next]_vars, proto = "hjt212", stage # 0,
                      NEW m \in Nodes, NEW n \in Nodes,
                      reported'[m] # reported[m], reported'[n] # reported[n]
               PROVE  nid[m] = nid[n]
    BY DEF SameMN
  <2>1. ReportFrame
    BY DEF Next, Count, CountNothing, Elapse, Turn, Lose, BeginAgain, SkipSweep,
       CutShort, CutInside, vars, valueVars
  <2>2. m \in Entries(order[stage]) /\ n \in Entries(order[stage])
    BY <2>1 DEF ReportFrame, HandOver
  <2>3. m \in Run /\ n \in Run
    BY <2>2, EntriesInList DEF Types, PlaceType
  <2>4. QED
    BY <2>3, RunOfOneDevice DEF Types, PlaceType
<1>2. Types /\ [Next]_vars => [SameMN]_vars
  BY <1>1
<1>3. Spec => [][SameMN]_vars
  BY <1>2, TypesInvariant, PTL DEF Spec
<1>4. QED
  BY <1>3 DEF OneDeviceFrames, SameMN

-----------------------------------------------------------------------------
(***************************************************************************)
(* A sweep leaves nothing over.  What was due when it began has been taken *)
(* or is still due and not passed yet.                                     *)
(***************************************************************************)
Swept == order[stage]

\* *ppnode is not NULL only during a sweep of HJT212.
Standing == at # 0 =>
  /\ stage # 0 /\ proto = "hjt212"
  /\ ByClock(Swept) => turned[Swept]

Paid == stage # 0 =>
  \A n \in owed : pending[n][Swept] = {} \/ (Due(n, Swept) /\ n \notin 1 .. at)

SweepInv == Standing /\ Paid

\* A frame leaves nothing due between its first and its last entry.
LEMMA FrameIsDense ==
  ASSUME at \in 0 .. N, proto = "hjt212", NEW k, Entries(k) # {},
         NEW n \in at + 1 .. Last(Entries(k)), Due(n, k)
  PROVE  n \in Entries(k)
<1> DEFINE L == Last(Entries(k))
           S == Ready(Run, k)
<1>1. L \in Entries(k) /\ L \in Run /\ L \in Nodes
  BY EntriesInList, LastIsLargest
<1>2. n \in Nat /\ L \in Nat /\ n <= L /\ L <= N /\ at + 1 <= n
  BY <1>1 DEF Nodes
<1>3. n \in Run
  <2>1. \A m \in at + 1 .. n : m \in at + 1 .. L
    BY <1>2
  <2>2. n \in Rest
    BY <1>2 DEF Rest
  <2>3. QED
    BY <1>1, <2>1, <2>2 DEF Run
<1>4. n \in S
  BY <1>3 DEF Ready
<1>5. Entries(k) = FirstOf(S)
  BY DEF Entries
<1>6. Cardinality({m \in S : m < L}) < FrameMax
  BY <1>1, <1>5 DEF FirstOf
<1>7. S \in SUBSET Nodes
  BY EntriesInList DEF Ready
<1>8. {m \in S : m < n} \in SUBSET {m \in S : m < L}
  BY <1>2, <1>7 DEF Nodes
<1>9. IsFiniteSet({m \in S : m < L})
  <2>1. IsFiniteSet(Nodes)
    BY FS_Interval DEF Nodes
  <2>2. {m \in S : m < L} \in SUBSET Nodes
    BY <1>7
  <2>3. QED
    BY <2>1, <2>2, FS_Subset
<1>10. /\ Cardinality({m \in S : m < n}) <= Cardinality({m \in S : m < L})
       /\ IsFiniteSet({m \in S : m < n})
  BY <1>8, <1>9, FS_Subset
<1>11. Cardinality({m \in S : m < n}) < FrameMax
  <2>1. /\ Cardinality({m \in S : m < n}) \in Nat
        /\ Cardinality({m \in S : m < L}) \in Nat
    BY <1>9, <1>10, FS_CardinalityType
  <2>2. QED
    BY <1>6, <1>10, <2>1
<1>12. QED
  BY <1>4, <1>5, <1>11 DEF FirstOf

\* When HJT212 stops calling, the rest of the list was the run and went into
\* the frame, or nothing did and the list was at its head.
LEMMA WhenNull ==
  ASSUME at \in 0 .. N, proto = "hjt212", NEW k, NextAt(k) = 0
  PROVE  \/ Run = Rest /\ Entries(k) = Ready(Run, k)
         \/ Entries(k) = {} /\ at = 0
<1>1. Entries(k) # {} => Last(Entries(k)) # 0
  BY EntriesInList, LastIsLargest DEF Nodes
<1>2. QED
  BY <1>1 DEF NextAt, NextInList

\* What one frame does to the averages.
LEMMA FrameEffect ==
  ASSUME Types, ReportFrame
  PROVE  /\ Swept \in Kinds /\ at' = NextAt(Swept) /\ UNCHANGED cfgVars
         /\ \A n \in Nodes, k \in Kinds :
              IF n \in Entries(Swept) /\ k = Swept
              THEN pending'[n][k] = {} /\ ~elapsed'[n][k]
              ELSE pending'[n][k] = pending[n][k] /\ elapsed'[n][k] = elapsed[n][k]
         /\ IF SweepOver(Swept) THEN stage' = NextStage
            ELSE UNCHANGED <<stage, turned>>
<1>1. /\ stage # 0 /\ at' = NextAt(Swept) /\ UNCHANGED cfgVars
      /\ pending' = [n \in Nodes |->
            IF n \in Entries(Swept) THEN [pending[n] EXCEPT ![Swept] = {}]
            ELSE pending[n]]
      /\ elapsed' = [n \in Nodes |->
            IF n \in Entries(Swept) THEN [elapsed[n] EXCEPT ![Swept] = FALSE]
            ELSE elapsed[n]]
      /\ stage' = IF SweepOver(Swept) THEN NextStage ELSE stage
      /\ turned' = IF SweepOver(Swept) THEN [turned EXCEPT ![Swept] = FALSE]
                   ELSE turned
  BY DEF ReportFrame, HandOver, Cleared, Swept
<1>2. Swept \in Kinds
  BY <1>1, Order DEF Types, PlaceType, Swept
<1>3. /\ \A n \in Nodes : DOMAIN pending[n] = Kinds
      /\ \A n \in Nodes : DOMAIN elapsed[n] = Kinds
  BY DEF Types, ValuesType, ClocksType
<1>4. ASSUME NEW n \in Nodes, NEW k \in Kinds
      PROVE  IF n \in Entries(Swept) /\ k = Swept
             THEN pending'[n][k] = {} /\ ~elapsed'[n][k]
             ELSE pending'[n][k] = pending[n][k] /\ elapsed'[n][k] = elapsed[n][k]
  <2>1. /\ pending'[n] = IF n \in Entries(Swept)
                         THEN [pending[n] EXCEPT ![Swept] = {}] ELSE pending[n]
        /\ elapsed'[n] = IF n \in Entries(Swept)
                         THEN [elapsed[n] EXCEPT ![Swept] = FALSE] ELSE elapsed[n]
    BY <1>1
  <2>2. QED
    BY <1>2, <1>3, <2>1
<1>5. QED
  BY <1>1, <1>2, <1>4

\* The history changes where a sweep begins, and says what is due there.
LEMMA OwesEffect ==
  ASSUME CfgType, PlaceType, Owes, UNCHANGED cfgVars
  PROVE  /\ stage' = stage \/ stage' \notin 1 .. Len(order) => owed' = owed
         /\ stage' # stage /\ stage' \in 1 .. Len(order) =>
              owed' = {n \in Nodes : Due(n, Swept)'}
<1>1. DOMAIN order = 1 .. Len(order) /\ order' = order
  BY Order DEF cfgVars
<1>2. Ready(Nodes, order[stage])' = {n \in Nodes : Due(n, Swept)'}
  BY DEF Ready, Swept
<1>3. QED
  BY <1>1, <1>2 DEF Owes

LEMMA StageMoves ==
  ASSUME CfgType, PlaceType, stage # 0
  PROVE  /\ NextStage # stage
         /\ NextStage \in 0 .. Len(order)
         /\ stage \in 1 .. Len(order)
BY Order DEF PlaceType, NextStage

\* Where the next sweep begins, what is due is owed and nothing is passed.
LEMMA SweepBegins ==
  ASSUME Types, Types', Owes, UNCHANGED cfgVars, stage' # stage, at' = 0
  PROVE  SweepInv'
<1>1. stage' # 0 => stage' \in 1 .. Len(order)
  BY Order DEF Types, PlaceType, cfgVars
<1>2. stage' # 0 => owed' = {n \in Nodes : Due(n, Swept)'}
  BY <1>1, OwesEffect DEF Types
<1>3. Standing'
  BY DEF Standing
<1>4. Paid'
  <2> SUFFICES ASSUME stage' # 0, NEW n \in owed'
               PROVE  Due(n, Swept)' /\ n \notin 1 .. at'
    BY DEF Paid
  <2>1. 1 .. at' = {}
    OBVIOUS
  <2>2. QED
    BY <1>2, <2>1
<1>5. QED
  BY <1>3, <1>4 DEF SweepInv

\* One frame: what is owed is taken, or is still due and not passed.
LEMMA FrameOwed ==
  ASSUME Types, SweepInv, ReportFrame, NEW n \in owed
  PROVE  pending'[n][Swept] = {}
         \/ (/\ n \notin Entries(Swept) /\ Due(n, Swept)
             /\ n \notin 1 .. at /\ n \notin 1 .. at')
<1> DEFINE E == Entries(Swept)
<1>0. at \in 0 .. N /\ n \in Nodes /\ stage # 0
  BY DEF Types, PlaceType, ExitType, ReportFrame
<1>1. Swept \in Kinds /\ at' = NextAt(Swept)
  BY FrameEffect
<1>2. /\ n \in E => pending'[n][Swept] = {}
      /\ n \notin E => pending'[n][Swept] = pending[n][Swept]
  BY <1>0, <1>1, FrameEffect
<1>3. pending[n][Swept] = {} \/ (Due(n, Swept) /\ n \notin 1 .. at)
  BY <1>0 DEF SweepInv, Paid
<1>4. ASSUME n \notin E, Due(n, Swept), n \notin 1 .. at, n \in 1 .. at'
      PROVE  FALSE
  <2>1. proto = "hjt212" /\ E # {} /\ at' = Last(E)
    BY <1>0, <1>1, <1>4 DEF NextAt, NextInList
  <2>2. n \in at + 1 .. Last(E)
    BY <1>0, <1>4, <2>1 DEF Nodes
  <2>3. QED
    BY <1>0, <1>4, <2>1, <2>2, FrameIsDense
<1>5. QED
  BY <1>2, <1>3, <1>4

LEMMA FrameKeeps ==
  ASSUME Types, Types', SweepInv, ReportFrame
  PROVE  SweepInv'
<1>0. /\ at \in 0 .. N /\ stage # 0 /\ Owes /\ UNCHANGED cfgVars
      /\ at' = NextAt(Swept) /\ Swept \in Kinds
  BY FrameEffect DEF Types, PlaceType, ReportFrame
<1>1. CASE SweepOver(Swept)
  <2>1. stage' # stage
    BY <1>1, FrameEffect, StageMoves, <1>0 DEF Types
  <2>2. at' = 0
    BY <1>0, <1>1 DEF SweepOver, NextAt
  <2>3. QED
    BY <1>0, <2>1, <2>2, SweepBegins
<1>2. CASE ~SweepOver(Swept)
  <2>1. UNCHANGED <<stage, turned, proto, sharp, order, owed>>
    BY <1>0, <1>2, FrameEffect, OwesEffect DEF Types, cfgVars
  <2>2. Swept' = Swept /\ ByClock(Swept)' = ByClock(Swept)
    BY <2>1 DEF Swept, ByClock
  <2>3. Standing'
    <3>1. at' # 0 => proto = "hjt212"
      BY <1>0 DEF NextAt
    <3>2. ByClock(Swept) => turned[Swept]
      BY DEF ReportFrame, Swept
    <3>3. QED
      BY <1>0, <2>1, <2>2, <3>1, <3>2 DEF Standing
  <2>4. Paid'
    <3> SUFFICES ASSUME NEW n \in owed
                 PROVE  \/ pending'[n][Swept] = {}
                        \/ Due(n, Swept)' /\ n \notin 1 .. at'
      BY <2>1, <2>2 DEF Paid
    <3>1. n \in Nodes
      BY DEF Types, ExitType
    <3>2. n \notin Entries(Swept) => Due(n, Swept)' = Due(n, Swept)
      <4>1. n \notin Entries(Swept) => /\ pending'[n][Swept] = pending[n][Swept]
                                       /\ elapsed'[n][Swept] = elapsed[n][Swept]
        BY <1>0, <3>1, FrameEffect
      <4>2. QED
        BY <2>2, <4>1 DEF Due
    <3>3. QED
      BY <3>2, FrameOwed
  <2>5. QED
    BY <2>3, <2>4 DEF SweepInv
<1>3. QED
  BY <1>1, <1>2

\* The other steps.  Nothing is counted during a sweep, and what comes due
\* was not owed or stays due.
LEMMA OthersKeep ==
  ASSUME Types, Types', SweepInv,
         \/ Count \/ CountNothing \/ SkipSweep \/ CutShort \/ CutInside
         \/ Elapse \/ Turn \/ Lose \/ BeginAgain \/ UNCHANGED vars
  PROVE  SweepInv'
<1>1. CASE Count \/ CountNothing \/ SkipSweep \/ CutShort \/ CutInside
  <2>1. at = 0
    BY <1>1 DEF Count, CountNothing, SkipSweep, CutShort, CutInside, LooksAway,
       Swept, SweepInv, Standing
  <2>2. Owes /\ UNCHANGED cfgVars /\ at' = at
    BY <1>1 DEF Count, CountNothing, SkipSweep, CutShort, CutInside
  <2>3. stage' # stage
    BY <1>1, StageMoves DEF Count, CountNothing, SkipSweep, CutShort, CutInside,
       Types
  <2>4. QED
    BY <2>1, <2>2, <2>3, SweepBegins
<1>2. CASE Elapse
  <2>1. UNCHANGED <<cfgVars, pending, turned, stage, at, owed>>
    BY <1>2 DEF Elapse, valueVars
  <2>2. Swept' = Swept /\ ByClock(Swept)' = ByClock(Swept)
    BY <2>1 DEF cfgVars, Swept, ByClock
  <2>3. Standing'
    BY <2>1, <2>2 DEF SweepInv, Standing, cfgVars
  <2>4. ASSUME stage # 0, NEW n \in owed, Due(n, Swept) PROVE Due(n, Swept)'
    <3>1. n \in Nodes /\ Swept \in Kinds
      BY <2>4, Order DEF Types, ExitType, PlaceType, Swept
    <3>2. PICK k \in Kinds, S \in SUBSET Nodes :
            elapsed' = [m \in Nodes |->
                          IF m \in S THEN [elapsed[m] EXCEPT ![k] = TRUE]
                          ELSE elapsed[m]]
      BY <1>2 DEF Elapse
    <3>3. elapsed[n][Swept] => elapsed'[n][Swept]
      BY <3>1, <3>2 DEF Types, ClocksType
    <3>4. QED
      BY <2>1, <2>2, <2>4, <3>3 DEF Due
  <2>5. Paid'
    BY <2>1, <2>2, <2>4 DEF SweepInv, Paid
  <2>6. QED
    BY <2>3, <2>5 DEF SweepInv
<1>3. CASE Turn
  <2>1. stage = 0 /\ UNCHANGED <<stage, at>>
    BY <1>3 DEF Turn
  <2>2. QED
    BY <2>1 DEF SweepInv, Standing, Paid
<1>4. CASE Lose \/ BeginAgain \/ UNCHANGED vars
  <2>1. UNCHANGED <<proto, order, sharp, pending, elapsed, turned, stage, at, owed>>
    BY <1>4 DEF Lose, BeginAgain, vars, cfgVars, valueVars
  <2>2. QED
    BY <2>1 DEF SweepInv, Standing, Paid, Due, ByClock, Swept
<1>5. QED
  BY <1>1, <1>2, <1>3, <1>4

LEMMA SweepInvariant == Spec => []SweepInv
<1>1. Init => SweepInv
  BY DEF Init, SweepInv, Standing, Paid
<1>2. Types /\ Types' /\ SweepInv /\ [Next]_vars => SweepInv'
  BY FrameKeeps, OthersKeep DEF Next
<1>3. QED
  BY <1>1, <1>2, TypesInvariant, PTL DEF Spec

\* When a sweep is over that the end of the session did not cut short, every
\* variable that was due when it began has been handed over, wherever the
\* frames ended; of HJT212 those excepted that follow a first device of which
\* nothing is due.
THEOREM SweepsLeaveNothing == Spec => NothingLeftOver
<1> DEFINE Nothing == \A i \in 1 .. Len(order) :
       /\ stage = i /\ stage' # i
       /\ ByClock(order[i]) => turned[order[i]]
       /\ lost' => LooksAway
       => \A n \in owed : pending'[n][order[i]] = {}
                            \/ (at = 0 /\ Silent /\ n \notin Run)
<1>1. Types /\ SweepInv /\ [Next]_vars => Nothing
  <2> SUFFICES ASSUME Types, SweepInv, [Next]_vars,
                      stage \in 1 .. Len(order), stage' # stage,
                      ByClock(Swept) => turned[Swept],
                      lost' => LooksAway,
                      NEW n \in owed, pending'[n][Swept] # {}
               PROVE  at = 0 /\ Silent /\ n \notin Run
    BY DEF Swept
  <2>1. stage # 0
    OBVIOUS
  <2>2. ReportFrame
    BY <2>1 DEF Next, Count, CountNothing, Elapse, Turn, Lose, BeginAgain,
       SkipSweep, CutShort, CutInside, LooksAway, Swept, vars
  <2>3. SweepOver(Swept) /\ at \in 0 .. N /\ n \in Nodes
    BY <2>2, FrameEffect DEF Types, PlaceType, ExitType
  <2>4. n \notin Entries(Swept) /\ Due(n, Swept) /\ n \notin 1 .. at
    BY <2>2, FrameOwed
  <2>5. n \in Ready(Nodes, Swept) /\ Ready(Nodes, Swept) \in SUBSET Nodes
    BY <2>3, <2>4 DEF Ready
  <2>6. proto = "hjt212"
    <3>1. proto # "dm101"
      BY <2>3, <2>5, FirstFits DEF SweepOver, Entries
    <3>2. QED
      BY <2>4, <2>5, <3>1 DEF Entries
  <2>7. n \in Rest
    BY <2>3, <2>4 DEF Rest, Nodes
  <2>8. Ready(Run, Swept) \in SUBSET Nodes /\ (n \in Run => n \in Ready(Run, Swept))
    BY <2>3, <2>4, EntriesInList DEF Ready
  <2>9. Entries(Swept) = {} /\ at = 0
    <3>1. ~(Run = Rest /\ Entries(Swept) = Ready(Run, Swept))
      BY <2>4, <2>7, <2>8
    <3>2. NextAt(Swept) = 0
      BY <2>3, <2>6 DEF SweepOver
    <3>3. QED
      BY <2>3, <2>6, <3>1, <3>2, WhenNull
  <2>10. n \notin Run
    BY <2>6, <2>8, <2>9, FirstFits DEF Entries
  <2>11. QED
    BY <2>6, <2>7, <2>9, <2>10 DEF Silent, Swept
<1>2. Types /\ SweepInv /\ [Next]_vars => [Nothing]_vars
  BY <1>1
<1>3. Spec => [][Nothing]_vars
  BY <1>2, TypesInvariant, SweepInvariant, PTL DEF Spec
<1>4. QED
  BY <1>3 DEF NothingLeftOver
=============================================================================
