---------------------------- MODULE AveragesProofs ---------------------------
(***************************************************************************)
(* Proofs about Averages for all sets of names and devices, any number of  *)
(* periods and any number of samples.                                      *)
(***************************************************************************)
EXTENDS Averages, TLAPS

\* An average holds samples of its variable, from the device it has now.
OwnSamples ==
    \A n \in Names, p \in Period : \A s \in avg[n][p] :
        s.name = n /\ s.dev = dev[n] /\ s.id < taken

\* A copy holds samples of the name it was made of, from the task's device.
OwnCopies ==
    \A d \in Devices, p \in Period : \A s \in copy[d].avg[p] :
        s.name = copy[d].name /\ s.dev = d /\ s.id < taken

\* Handed over were only samples already taken.
Handed(p) == UNION {rows[p][i].of : i \in DOMAIN rows[p]}

HandedAreTaken == \A p \in Period : \A s \in Handed(p) : s.id < taken

\* The averages of task d's copy that it has not yet handed over.
Ahead(d, p) ==
    at[d] # 0 /\ (p > at[d] \/ (p = at[d] /\ d \notin clearing))

AheadIsNew ==
    \A d \in Devices, p \in Period :
        Ahead(d, p) => copy[d].avg[p] \cap Handed(p) = {}

\* A sample handed over is still in its average only while the task that
\* handed it over is about to clear it.
LeftToClear ==
    \A n \in Names, p \in Period :
        avg[n][p] \cap Handed(p) # {} =>
            /\ dev[n] \in clearing
            /\ copy[dev[n]].name = n
            /\ at[dev[n]] = p

Parts ==
    /\ OwnSamples /\ OwnCopies
    /\ HandedAreTaken /\ AheadIsNew /\ LeftToClear
    /\ CountedOnce /\ MeansOfOneSetting

USE PeriodsAssumption, MaxSamplesAssumption, NamesAssumption, DevicesAssumption

-----------------------------------------------------------------------------
(***************************************************************************)
(* Type correctness.                                                       *)
(***************************************************************************)

\* The next average, or none.
LEMMA Advanced ==
    ASSUME TypeOK, NEW d \in Devices, at[d] # 0, Advance(d)
    PROVE  /\ at' \in [Devices -> 0 .. Periods]
           /\ at[d] < Periods => at'[d] = at[d] + 1 /\ copy' = copy
           /\ at[d] = Periods =>
                 at'[d] = 0 /\ copy' = [copy EXCEPT ![d] = NoCopy]
           /\ \A e \in Devices \ {d} : at'[e] = at[e] /\ copy'[e] = copy[e]
<1>1. at[d] \in 1 .. Periods /\ Periods \in Nat
  BY DEF TypeOK
<1>2. (at[d] + 1) % (Periods + 1) = IF at[d] = Periods THEN 0 ELSE at[d] + 1
  BY <1>1
<1>3. (at[d] + 1) % (Periods + 1) \in 0 .. Periods
  BY <1>1, <1>2
<1>4. at' = [at EXCEPT ![d] = (at[d] + 1) % (Periods + 1)]
  BY DEF Advance
<1>5. QED
  BY <1>1, <1>2, <1>3, <1>4 DEF Advance, TypeOK

\* A task that goes on to its next average keeps the types of its state.
LEMMA AdvancedTypes ==
    ASSUME TypeOK, NEW d \in Devices, at[d] # 0, Advance(d)
    PROVE  /\ at' \in [Devices -> 0 .. Periods]
           /\ copy' \in [Devices -> [name : Names \cup {NoName}, avg : Averaged]]
           /\ \A e \in Devices : (at'[e] = 0) <=> (copy'[e].name = NoName)
           /\ \A e \in clearing \ {d} : at'[e] # 0
<1>1. at[d] \in 1 .. Periods
  BY DEF TypeOK
<1>2. NoCopy \in [name : Names \cup {NoName}, avg : Averaged]
  BY DEF NoCopy, Empty, Averaged
<1> DEFINE Copies == [name : Names \cup {NoName}, avg : Averaged]
<1>3. copy \in [Devices -> Copies]
  BY DEF TypeOK
<1>4. /\ copy' \in [Devices -> Copies]
      /\ (at'[d] = 0) <=> (copy'[d].name = NoName)
  <2>1. CASE at[d] < Periods
    <3>1. at'[d] = at[d] + 1 /\ copy' = copy
      BY <2>1, Advanced
    <3>2. copy[d].name # NoName
      BY <1>1 DEF TypeOK
    <3>3. QED
      BY <1>1, <1>3, <3>1, <3>2
  <2>2. CASE at[d] = Periods
    <3> HIDE DEF Copies
    <3>1. at'[d] = 0 /\ copy' = [copy EXCEPT ![d] = NoCopy]
      BY <2>2, Advanced
    <3>2. NoCopy \in Copies /\ NoCopy.name = NoName
      BY <1>2 DEF NoCopy, Copies
    <3>3. copy' \in [Devices -> Copies] /\ copy'[d] = NoCopy
      BY <1>3, <3>1, <3>2
    <3>4. QED
      BY <3>1, <3>2, <3>3
  <2>3. QED
    BY <1>1, <2>1, <2>2
<1>5. \A e \in Devices \ {d} : (at'[e] = 0) <=> (copy'[e].name = NoName)
  BY Advanced DEF TypeOK
<1>6. \A e \in clearing \ {d} : at'[e] # 0
  BY Advanced DEF TypeOK
<1>7. QED
  BY <1>4, <1>5, <1>6, Advanced

\* The types hold at first and are kept by every step.
LEMMA InitTypes == Init => TypeOK
BY DEF Init, TypeOK, Empty, NoCopy, Averaged, Period

LEMMA NextTypes == TypeOK /\ [Next]_vars => TypeOK'
<1> SUFFICES ASSUME TypeOK, [Next]_vars PROVE TypeOK'
  OBVIOUS
<1> USE DEF TypeOK, Averaged, Empty, list
<1>1. ASSUME NEW n \in Names, UpdateValue(n) PROVE TypeOK'
  <2> DEFINE s == [id |-> taken, name |-> n, dev |-> dev[n]]
  <2>1. s \in Samples
    BY <1>1 DEF UpdateValue, Samples
  <2> HIDE DEF s
  <2>2. avg' = [avg EXCEPT ![n] = [p \in Period |-> avg[n][p] \cup {s}]]
    BY <1>1 DEF UpdateValue, s
  <2>3. avg' \in [Names -> [Period -> SUBSET Samples]]
    <3>1. [p \in Period |-> avg[n][p] \cup {s}] \in [Period -> SUBSET Samples]
      BY <2>1
    <3>2. QED
      BY <2>2, <3>1
  <2>4. taken' \in 0 .. MaxSamples
    BY <1>1 DEF UpdateValue
  <2>5. QED
    BY <1>1, <2>3, <2>4 DEF UpdateValue
<1>2. ASSUME NEW n \in Names, NEW d \in Devices, Set(n, d) PROVE TypeOK'
  BY <1>2 DEF Set, Reset
<1>3. ASSUME NEW n \in Names, NEW m \in Names, NEW d \in Devices,
             Rename(n, m, d)
      PROVE  TypeOK'
  BY <1>3 DEF Rename, Reset
<1>4. ASSUME NEW n \in Names, Remove(n) PROVE TypeOK'
  BY <1>4 DEF Remove
<1>5. ASSUME NEW d \in Devices, NEW n \in Names, CopyData(d, n) PROVE TypeOK'
  <2>1. copy' \in [Devices -> [name : Names \cup {NoName},
                                avg : [Period -> SUBSET Samples]]]
    BY <1>5 DEF CopyData
  <2>2. at' \in [Devices -> 0 .. Periods]
    BY <1>5 DEF CopyData
  <2>3. /\ at'[d] = 1 /\ copy'[d].name = n
        /\ \A e \in Devices \ {d} : at'[e] = at[e] /\ copy'[e] = copy[e]
    BY <1>5 DEF CopyData
  <2>4. \A e \in Devices : (at'[e] = 0) <=> (copy'[e].name = NoName)
    BY <2>3
  <2>5. \A e \in clearing : at'[e] # 0
    BY <2>3
  <2>6. QED
    BY <1>5, <2>1, <2>2, <2>4, <2>5 DEF CopyData
<1>6. ASSUME NEW d \in Devices, PassOver(d) PROVE TypeOK'
  BY <1>6, AdvancedTypes DEF PassOver
<1>7. ASSUME NEW d \in Devices, AddData(d) PROVE TypeOK'
  <2>1. at[d] \in Period /\ Mean(d) \in [name : Names, of : SUBSET Samples]
    BY <1>7 DEF AddData, Mean, Period
  <2>2. PICK r \in {rows[at[d]], Append(rows[at[d]], Mean(d))} :
            rows' = [rows EXCEPT ![at[d]] = r]
    BY <1>7 DEF AddData
  <2>3. r \in Seq([name : Names, of : SUBSET Samples])
    <3>1. \A q \in Seq([name : Names, of : SUBSET Samples]) :
             Append(q, Mean(d)) \in Seq([name : Names, of : SUBSET Samples])
      BY <2>1
    <3>2. rows[at[d]] \in Seq([name : Names, of : SUBSET Samples])
      BY <2>1
    <3>3. QED
      BY <2>2, <3>1, <3>2
  <2>4. rows' \in [Period -> Seq([name : Names, of : SUBSET Samples])]
    BY <2>1, <2>2, <2>3
  <2>5. QED
    BY <1>7, <2>4 DEF AddData
<1>8. ASSUME NEW d \in Devices, Clear(d) PROVE TypeOK'
  <2>1. at[d] # 0 /\ at[d] \in Period /\ copy[d].name \in Names
    BY <1>8 DEF Clear, Period
  <2>2. avg' \in [Names -> [Period -> SUBSET Samples]]
    BY <1>8, <2>1 DEF Clear, Cleared
  <2>3. Advance(d)
    BY <1>8 DEF Clear
  <2>4. QED
    BY <1>8, <2>1, <2>2, <2>3, AdvancedTypes DEF Clear
<1>9. CASE UNCHANGED vars
  BY <1>9 DEF vars
<1>10. QED
  BY <1>1, <1>2, <1>3, <1>4, <1>5, <1>6, <1>7, <1>8, <1>9 DEF Next, Task

\* The list, the copies and what was handed over keep their types.
THEOREM AveragesTypeCorrect == Spec => []TypeOK
<1>1. QED
  BY InitTypes, NextTypes, PTL DEF Spec

-----------------------------------------------------------------------------
(***************************************************************************)
(* No value counted twice.                                                 *)
(***************************************************************************)

\* What the entries of a sequence, and of one with one more at its end, are.
LEMMA EntryType ==
    ASSUME NEW R, NEW q \in Seq(R), NEW i \in DOMAIN q
    PROVE  q[i] \in R
OBVIOUS

LEMMA AppendedEntry ==
    ASSUME NEW R, NEW q \in Seq(R), NEW r \in R, NEW i \in DOMAIN Append(q, r)
    PROVE  \/ i \in DOMAIN q /\ Append(q, r)[i] = q[i]
           \/ i = Len(q) + 1 /\ Append(q, r)[i] = r
OBVIOUS

\* Handed over were samples, with numbers already given.
LEMMA HandedIds ==
    ASSUME TypeOK, HandedAreTaken, NEW p \in Period, NEW s \in Handed(p)
    PROVE  s.id \in Nat /\ s.id < taken
<1>1. PICK i \in DOMAIN rows[p] : s \in rows[p][i].of
  BY DEF Handed
<1> DEFINE Rows == [name : Names, of : SUBSET Samples]
<1>2. rows[p] \in Seq(Rows)
  BY DEF TypeOK
<1> HIDE DEF Rows
<1>3. rows[p][i] \in Rows
  BY <1>1, <1>2, EntryType
<1>4. QED
  BY <1>1, <1>3 DEF HandedAreTaken, Samples, Rows

\* Changes of the list: what is left of an average was in it before, of a
\* variable that keeps its device, or is one new sample.
LEMMA ListKeepsParts ==
    ASSUME TypeOK, TypeOK', Parts, UNCHANGED <<rows, copy, at, clearing>>,
           taken' >= taken,
           \A n \in Names, p \in Period : \A s \in avg'[n][p] :
              /\ s.name = n /\ s.dev = dev'[n] /\ s.id < taken'
              /\ (s \in avg[n][p] /\ dev'[n] = dev[n]) \/ s.id >= taken
    PROVE  Parts'
<1> USE DEF Parts
<1>1. taken \in Nat /\ taken' \in Nat
  BY DEF TypeOK
<1>2. \A p \in Period : Handed(p)' = Handed(p)
  BY DEF Handed
<1>3. \A p \in Period : \A s \in Handed(p) : s.id \in Nat /\ s.id < taken
  BY HandedIds
<1>4. OwnSamples'
  BY DEF OwnSamples
<1>5. OwnCopies'
  <2>1. \A d \in Devices, p \in Period : \A s \in copy[d].avg[p] : s.id \in Nat
    BY DEF TypeOK, Averaged, Samples
  <2>2. QED
    BY <1>1, <2>1 DEF OwnCopies
<1>6. HandedAreTaken'
  BY <1>1, <1>2, <1>3 DEF HandedAreTaken
<1>7. AheadIsNew'
  BY <1>2 DEF AheadIsNew, Ahead
<1>8. LeftToClear'
  <2> SUFFICES ASSUME NEW n \in Names, NEW p \in Period,
                      NEW s \in avg'[n][p] \cap Handed(p)
               PROVE  /\ dev'[n] \in clearing
                      /\ copy[dev'[n]].name = n
                      /\ at[dev'[n]] = p
    BY <1>2 DEF LeftToClear
  <2>1. s \in avg[n][p] /\ dev'[n] = dev[n]
    BY <1>1, <1>3
  <2>2. QED
    BY <2>1 DEF LeftToClear
<1>9. CountedOnce' /\ MeansOfOneSetting'
  BY DEF CountedOnce, MeansOfOneSetting
<1>10. QED
  BY <1>4, <1>5, <1>6, <1>7, <1>8, <1>9

\* A value is counted: it was never handed over.
LEMMA UpdateKeepsParts ==
    ASSUME TypeOK, TypeOK', Parts, NEW n \in Names, UpdateValue(n)
    PROVE  Parts'
<1> DEFINE s == [id |-> taken, name |-> n, dev |-> dev[n]]
<1>1. /\ dev' = dev /\ taken' = taken + 1 /\ taken \in Nat
      /\ \A m \in Names \ {n} : avg'[m] = avg[m]
      /\ \A p \in Period : avg'[n][p] = avg[n][p] \cup {s}
  BY DEF UpdateValue, TypeOK, Averaged
<1>2. s.name = n /\ s.dev = dev[n] /\ s.id = taken
  OBVIOUS
<1> HIDE DEF s
<1>3. \A m \in Names, p \in Period : \A t \in avg[m][p] :
         t.name = m /\ t.dev = dev[m] /\ t.id < taken /\ t.id \in Nat
  BY DEF Parts, OwnSamples, TypeOK, Averaged, Samples
<1>4. ASSUME NEW m \in Names, NEW p \in Period, NEW t \in avg'[m][p]
      PROVE  /\ t.name = m /\ t.dev = dev'[m] /\ t.id < taken'
             /\ (t \in avg[m][p] /\ dev'[m] = dev[m]) \/ t.id >= taken
  BY <1>1, <1>2, <1>3
<1>5. QED
  BY <1>1, <1>4, ListKeepsParts DEF UpdateValue

\* A variable is changed, renamed or removed: its averages are empty then.
LEMMA ChangeKeepsParts ==
    ASSUME TypeOK, TypeOK', Parts, NEW n \in Names,
           \/ \E d \in Devices : Set(n, d)
           \/ \E m \in Names, d \in Devices : Rename(n, m, d)
           \/ Remove(n)
    PROVE  Parts'
<1>1. UNCHANGED <<rows, copy, at, clearing, taken>>
  BY DEF Set, Rename, Remove
<1>2. \A k \in Names :
         (avg'[k] = avg[k] /\ dev'[k] = dev[k]) \/ avg'[k] = Empty
  BY DEF Set, Rename, Remove, Reset, TypeOK
<1>3. \A k \in Names, p \in Period : \A s \in avg[k][p] :
         s.name = k /\ s.dev = dev[k] /\ s.id < taken
  BY DEF Parts, OwnSamples
<1>4. ASSUME NEW k \in Names, NEW p \in Period, NEW s \in avg'[k][p]
      PROVE  /\ s.name = k /\ s.dev = dev'[k] /\ s.id < taken'
             /\ s \in avg[k][p] /\ dev'[k] = dev[k]
  BY <1>1, <1>2, <1>3 DEF Empty
<1>5. taken' >= taken
  BY <1>1 DEF TypeOK
<1>6. QED
  BY <1>1, <1>4, <1>5, ListKeepsParts

\* A copy is made: nothing in it was handed over, or its device's task, which
\* makes the copy, would be about to clear it.
LEMMA CopyKeepsParts ==
    ASSUME TypeOK, Parts, NEW d \in Devices, NEW n \in Names, CopyData(d, n)
    PROVE  Parts'
<1> USE DEF Parts
<1>1. /\ at[d] = 0 /\ d \notin clearing /\ dev[n] = d
      /\ UNCHANGED <<list, rows, clearing>>
      /\ copy'[d].name = n /\ copy'[d].avg = avg[n] /\ at'[d] = 1
      /\ \A e \in Devices \ {d} : copy'[e] = copy[e] /\ at'[e] = at[e]
  BY DEF CopyData, TypeOK
<1>2. UNCHANGED <<dev, avg, taken>>
  BY <1>1 DEF list
<1>3. \A p \in Period : Handed(p)' = Handed(p)
  BY <1>1 DEF Handed
<1>4. OwnSamples' /\ HandedAreTaken' /\ CountedOnce' /\ MeansOfOneSetting'
  BY <1>1, <1>2, <1>3
  DEF OwnSamples, HandedAreTaken, CountedOnce, MeansOfOneSetting
<1>5. OwnCopies'
  BY <1>1, <1>2 DEF OwnCopies, OwnSamples
<1>6. \A p \in Period : avg[n][p] \cap Handed(p) = {}
  BY <1>1 DEF LeftToClear
<1>7. AheadIsNew'
  BY <1>1, <1>3, <1>6 DEF AheadIsNew, Ahead
<1>8. LeftToClear'
  <2> SUFFICES ASSUME NEW m \in Names, NEW p \in Period,
                      avg[m][p] \cap Handed(p) # {}
               PROVE  /\ dev[m] \in clearing
                      /\ copy'[dev[m]].name = m
                      /\ at'[dev[m]] = p
    BY <1>1, <1>2, <1>3 DEF LeftToClear
  <2>1. dev[m] \in clearing /\ copy[dev[m]].name = m /\ at[dev[m]] = p
    BY DEF LeftToClear
  <2>2. dev[m] \in Devices \ {d}
    BY <1>1, <2>1 DEF TypeOK
  <2>3. QED
    BY <1>1, <2>1, <2>2
<1>9. QED
  BY <1>4, <1>5, <1>7, <1>8

\* A task that goes on has fewer averages of the same copy ahead of it.
LEMMA AdvanceKeepsCopies ==
    ASSUME TypeOK, Parts, NEW d \in Devices, at[d] # 0, Advance(d),
           UNCHANGED <<taken, rows>>,
           \A e \in Devices \ {d} : e \in clearing' <=> e \in clearing
    PROVE  OwnCopies' /\ AheadIsNew'
<1>1. at[d] \in 1 .. Periods
  BY DEF TypeOK
<1>2. \/ at'[d] = at[d] + 1 /\ copy' = copy
      \/ at'[d] = 0 /\ copy'[d] = NoCopy
  <2> DEFINE Copies == [name : Names \cup {NoName}, avg : Averaged]
  <2>1. copy \in [Devices -> Copies]
    BY DEF TypeOK
  <2> HIDE DEF Copies
  <2>2. CASE at[d] < Periods
    BY <2>2, Advanced
  <2>3. CASE at[d] = Periods
    <3>1. at'[d] = 0 /\ copy' = [copy EXCEPT ![d] = NoCopy]
      BY <2>3, Advanced
    <3>2. QED
      BY <2>1, <3>1
  <2>4. QED
    BY <1>1, <2>2, <2>3
<1>3. \A e \in Devices \ {d} : at'[e] = at[e] /\ copy'[e] = copy[e]
  BY Advanced
<1>4. OwnCopies'
  BY <1>2, <1>3 DEF Parts, OwnCopies, NoCopy, Empty
<1>5. ASSUME NEW e \in Devices, NEW p \in Period, Ahead(e, p)'
      PROVE  Ahead(e, p) /\ copy'[e] = copy[e]
  <2>1. CASE e = d
    BY <1>1, <1>2, <1>5, <2>1 DEF Ahead, Period
  <2>2. CASE e # d
    BY <1>3, <1>5, <2>2 DEF Ahead
  <2>3. QED
    BY <2>1, <2>2
<1>6. \A p \in Period : Handed(p)' = Handed(p)
  BY DEF Handed
<1>7. AheadIsNew'
  BY <1>5, <1>6 DEF Parts, AheadIsNew
<1>8. QED
  BY <1>4, <1>7

\* An average is passed over.
LEMMA PassOverKeepsParts ==
    ASSUME TypeOK, Parts, NEW d \in Devices, PassOver(d)
    PROVE  Parts'
<1> USE DEF Parts
<1>1. /\ at[d] # 0 /\ d \notin clearing /\ Advance(d)
      /\ UNCHANGED <<dev, avg, taken, rows, clearing>>
  BY DEF PassOver, list
<1>2. OwnCopies' /\ AheadIsNew'
  BY <1>1, AdvanceKeepsCopies
<1>3. \A p \in Period : Handed(p)' = Handed(p)
  BY <1>1 DEF Handed
<1>4. OwnSamples' /\ HandedAreTaken' /\ CountedOnce' /\ MeansOfOneSetting'
  BY <1>1, <1>3
  DEF OwnSamples, HandedAreTaken, CountedOnce, MeansOfOneSetting
<1>5. \A e \in clearing : at'[e] = at[e] /\ copy'[e] = copy[e]
  BY <1>1, Advanced DEF TypeOK
<1>6. LeftToClear'
  BY <1>1, <1>3, <1>5 DEF LeftToClear
<1>7. QED
  BY <1>2, <1>4, <1>6

\* A mean is handed over: its samples are new to the storage, and the task is
\* about to clear the average it was made of.
LEMMA AddKeepsParts ==
    ASSUME TypeOK, Parts, NEW d \in Devices, AddData(d)
    PROVE  Parts'
<1> USE DEF Parts
<1> DEFINE q == at[d]
           new == copy[d].avg[q]
<1>1. /\ q # 0 /\ q \in Period /\ d \notin clearing
      /\ UNCHANGED <<dev, avg, taken, copy, at>>
      /\ clearing' = clearing \cup {d}
  BY DEF AddData, TypeOK, list, Period
<1>2. /\ \A s \in new : s.name = copy[d].name /\ s.dev = d /\ s.id < taken
      /\ new \cap Handed(q) = {}
  BY <1>1 DEF OwnCopies, AheadIsNew, Ahead
<1> DEFINE Rows == [name : Names, of : SUBSET Samples]
<1>3. Mean(d).of = new /\ Mean(d).name = copy[d].name /\ Mean(d) \in Rows
  BY <1>1 DEF Mean, TypeOK, Averaged
<1>4. rows \in [Period -> Seq(Rows)]
  BY DEF TypeOK
<1> HIDE DEF Rows
<1>5. \A p \in Period : \A i \in DOMAIN rows'[p] :
         \/ i \in DOMAIN rows[p] /\ rows'[p][i] = rows[p][i]
         \/ p = q /\ i = Len(rows[q]) + 1 /\ rows'[p][i] = Mean(d)
  <2> SUFFICES ASSUME NEW p \in Period, NEW i \in DOMAIN rows'[p]
               PROVE  \/ i \in DOMAIN rows[p] /\ rows'[p][i] = rows[p][i]
                      \/ /\ p = q /\ i = Len(rows[q]) + 1
                         /\ rows'[p][i] = Mean(d)
    OBVIOUS
  <2>1. \/ rows'[p] = rows[p]
        \/ p = q /\ rows'[p] = Append(rows[q], Mean(d))
    BY <1>1, <1>4 DEF AddData
  <2>2. rows[q] \in Seq(Rows)
    BY <1>1, <1>4
  <2>3. QED
    BY <1>3, <2>1, <2>2, AppendedEntry
<1>6. \A p \in Period : \A s \in Handed(p)' :
         s \in Handed(p) \/ (p = q /\ s \in new)
  <2> SUFFICES ASSUME NEW p \in Period, NEW s \in Handed(p)'
               PROVE  s \in Handed(p) \/ (p = q /\ s \in new)
    OBVIOUS
  <2>1. PICK i \in DOMAIN rows'[p] : s \in rows'[p][i].of
    BY DEF Handed
  <2>2. CASE i \in DOMAIN rows[p] /\ rows'[p][i] = rows[p][i]
    BY <2>1, <2>2 DEF Handed
  <2>3. CASE p = q /\ rows'[p][i] = Mean(d)
    BY <1>3, <2>1, <2>3
  <2>4. QED
    BY <1>5, <2>2, <2>3
<1> HIDE DEF q, new
<1>7. OwnSamples' /\ OwnCopies'
  BY <1>1 DEF OwnSamples, OwnCopies
<1>8. HandedAreTaken'
  BY <1>1, <1>2, <1>6 DEF HandedAreTaken
<1>9. AheadIsNew'
  <2> SUFFICES ASSUME NEW e \in Devices, NEW p \in Period, Ahead(e, p)',
                      NEW s \in copy[e].avg[p], s \in Handed(p)'
               PROVE  FALSE
    BY <1>1 DEF AheadIsNew
  <2>1. Ahead(e, p) /\ (e = d => p # q)
    BY <1>1 DEF Ahead, TypeOK, Period, q
  <2>2. s \notin Handed(p)
    BY <2>1 DEF AheadIsNew
  <2>3. p = q /\ s \in new
    BY <1>6, <2>2
  <2>4. s.dev = e /\ s.dev = d
    BY <1>2, <2>3 DEF OwnCopies
  <2>5. QED
    BY <2>1, <2>3, <2>4
<1>10. LeftToClear'
  <2> SUFFICES ASSUME NEW n \in Names, NEW p \in Period,
                      NEW s \in avg[n][p], s \in Handed(p)'
               PROVE  /\ dev[n] \in clearing \cup {d}
                      /\ copy[dev[n]].name = n
                      /\ at[dev[n]] = p
    BY <1>1 DEF LeftToClear
  <2>1. CASE s \in Handed(p)
    BY <2>1 DEF LeftToClear
  <2>2. CASE p = q /\ s \in new
    BY <1>2, <2>2 DEF OwnSamples, q
  <2>3. QED
    BY <1>6, <2>1, <2>2
<1>11. CountedOnce'
  <2> SUFFICES ASSUME NEW p \in Period, NEW i \in DOMAIN rows'[p],
                      NEW j \in DOMAIN rows'[p], i # j
               PROVE  rows'[p][i].of \cap rows'[p][j].of = {}
    BY DEF CountedOnce
  <2>1. \A k \in DOMAIN rows[p] : rows[p][k].of \subseteq Handed(p)
    BY DEF Handed
  <2>2. QED
    BY <1>2, <1>3, <1>5, <2>1 DEF CountedOnce
<1>12. MeansOfOneSetting'
  <2> SUFFICES ASSUME NEW p \in Period, NEW i \in DOMAIN rows'[p]
               PROVE  \E e \in Devices : \A s \in rows'[p][i].of :
                         s.name = rows'[p][i].name /\ s.dev = e
    BY DEF MeansOfOneSetting
  <2>1. CASE i \in DOMAIN rows[p] /\ rows'[p][i] = rows[p][i]
    BY <2>1 DEF MeansOfOneSetting
  <2>2. CASE rows'[p][i] = Mean(d)
    BY <1>2, <1>3, <2>2
  <2>3. QED
    BY <1>5, <2>1, <2>2
<1>13. QED
  BY <1>7, <1>8, <1>9, <1>10, <1>11, <1>12

\* The average is cleared, if its variable is still found under its name.
LEMMA ClearKeepsParts ==
    ASSUME TypeOK, TypeOK', Parts, NEW d \in Devices, Clear(d)
    PROVE  Parts'
<1> USE DEF Parts
<1>1. /\ d \in clearing /\ at[d] # 0 /\ Advance(d)
      /\ UNCHANGED <<dev, taken, rows>> /\ clearing' = clearing \ {d}
  BY DEF Clear, TypeOK
<1>2. copy[d].name \in Names /\ at[d] \in Period
  BY <1>1 DEF TypeOK, Period
<1>3. \A n \in Names, p \in Period :
         /\ avg'[n][p] \subseteq avg[n][p]
         /\ dev[n] = d /\ copy[d].name = n /\ at[d] = p => avg'[n][p] = {}
  BY <1>2 DEF Clear, Cleared, TypeOK, Averaged
<1>4. OwnCopies' /\ AheadIsNew'
  BY <1>1, AdvanceKeepsCopies
<1>5. \A p \in Period : Handed(p)' = Handed(p)
  BY <1>1 DEF Handed
<1>6. HandedAreTaken' /\ CountedOnce' /\ MeansOfOneSetting'
  BY <1>1, <1>5 DEF HandedAreTaken, CountedOnce, MeansOfOneSetting
<1>7. OwnSamples'
  BY <1>1, <1>3 DEF OwnSamples
<1>8. LeftToClear'
  <2> SUFFICES ASSUME NEW n \in Names, NEW p \in Period,
                      avg'[n][p] \cap Handed(p) # {}
               PROVE  /\ dev[n] \in clearing \ {d}
                      /\ copy'[dev[n]].name = n
                      /\ at'[dev[n]] = p
    BY <1>1, <1>5 DEF LeftToClear
  <2>1. dev[n] \in clearing /\ copy[dev[n]].name = n /\ at[dev[n]] = p
    BY <1>3 DEF LeftToClear
  <2>2. dev[n] # d
    BY <1>3, <2>1
  <2>3. dev[n] \in Devices \ {d}
    BY <2>1, <2>2 DEF TypeOK
  <2>4. QED
    BY <1>1, <2>1, <2>3, Advanced
<1>9. QED
  BY <1>4, <1>6, <1>7, <1>8

LEMMA InitParts == Init => Parts
BY DEF Init, Empty, NoCopy, Parts, OwnSamples, OwnCopies, Handed,
       HandedAreTaken, Ahead, AheadIsNew, LeftToClear, CountedOnce,
       MeansOfOneSetting

LEMMA NextParts == TypeOK /\ TypeOK' /\ Parts /\ [Next]_vars => Parts'
<1> SUFFICES ASSUME TypeOK, TypeOK', Parts, [Next]_vars PROVE Parts'
  OBVIOUS
<1>1. ASSUME NEW d \in Devices, Task(d) PROVE Parts'
  BY <1>1, CopyKeepsParts, PassOverKeepsParts, AddKeepsParts, ClearKeepsParts
  DEF Task
<1>2. ASSUME NEW n \in Names, UpdateValue(n) PROVE Parts'
  BY <1>2, UpdateKeepsParts
<1>3. ASSUME NEW n \in Names, Remove(n) PROVE Parts'
  BY <1>3, ChangeKeepsParts
<1>4. ASSUME NEW n \in Names, NEW d \in Devices, Set(n, d) PROVE Parts'
  BY <1>4, ChangeKeepsParts
<1>5. ASSUME NEW n \in Names, NEW m \in Names, NEW d \in Devices,
             Rename(n, m, d)
      PROVE  Parts'
  BY <1>5, ChangeKeepsParts
<1>6. CASE UNCHANGED vars
  BY <1>6 DEF vars, list, Parts, OwnSamples, OwnCopies, Handed,
     HandedAreTaken, Ahead, AheadIsNew, LeftToClear, CountedOnce,
     MeansOfOneSetting
<1>7. QED
  BY <1>1, <1>2, <1>3, <1>4, <1>5, <1>6 DEF Next

\* Every part of the invariant holds in every state.
THEOREM PartsHold == Spec => []Parts
<1>1. QED
  BY InitTypes, NextTypes, InitParts, NextParts, PTL DEF Spec

\* However values are counted and variables changed between a task's copy and
\* its clearing, no value is counted in two means of one period.
THEOREM NoValueCountedTwice == Spec => []CountedOnce
<1>1. Parts => CountedOnce
  BY DEF Parts
<1>2. QED
  BY <1>1, PartsHold, PTL

\* Every mean stored is of values of one variable under one setting.
THEOREM MeansAreOfOneSetting == Spec => []MeansOfOneSetting
<1>1. Parts => MeansOfOneSetting
  BY DEF Parts
<1>2. QED
  BY <1>1, PartsHold, PTL
=============================================================================
