------------------------------- MODULE Averages ------------------------------
(***************************************************************************)
(* The averages of drivers/varmanage/varmanage.c.  Every value a variable  *)
(* takes is counted in three averages (xAvgReal, xAvgMin, xAvgHour).  When *)
(* the period of one is over, the collection task of the variable's device *)
(* hands its mean to the storage and clears it: it works on a copy of the  *)
(* variable, waits for the storage with nothing locked, and finds the      *)
(* variable again by its name.  Meanwhile other threads count values and   *)
(* change, rename and remove variables.                                    *)
(*                                                                         *)
(* An average is the set of the samples counted in it.  Critical sections  *)
(* are one step.  Whether a period is over and whether storing is switched *)
(* on is left open.  Names are unique in the list (see VarList).           *)
(***************************************************************************)
EXTENDS Integers, Sequences

CONSTANTS
    Names,      \* the names of variables
    Devices,    \* pairs of device type and number, one task each
    Periods,    \* how many averages a variable has
    MaxSamples  \* bound: how many values are counted

ASSUME PeriodsAssumption == Periods \in Nat \ {0}
ASSUME MaxSamplesAssumption == MaxSamples \in Nat

VARIABLES
    dev,        \* the device of each name in s_xExtDataList
    avg,        \* the averages of each name
    taken,      \* the number of values counted so far
    rows,       \* the means handed to the storage, for each period
    copy,       \* node: the copy a task works on
    at,         \* the average of its copy a task is at; 0 when it has none
    clearing    \* the tasks between bStorageAddData and the clearing

list == <<dev, avg, taken>>
vars == <<list, rows, copy, at, clearing>>

Off == "off"        \* not in the list
NoName == "none"

ASSUME NamesAssumption == NoName \notin Names
ASSUME DevicesAssumption == Off \notin Devices

Period == 1 .. Periods
Samples == [id : Nat, name : Names, dev : Devices]
Empty == [p \in Period |-> {}]
NoCopy == [name |-> NoName, avg |-> Empty]

Init ==
    /\ dev \in [Names -> Devices \cup {Off}]
    /\ avg = [n \in Names |-> Empty]
    /\ taken = 0
    /\ rows = [p \in Period |-> <<>>]
    /\ copy = [d \in Devices |-> NoCopy]
    /\ at = [d \in Devices |-> 0]
    /\ clearing = {}

-----------------------------------------------------------------------------
(***************************************************************************)
(* The list of variables.                                                  *)
(***************************************************************************)

\* __update_value: an answer, or a write from outside, is counted.
UpdateValue(n) ==
    LET s == [id |-> taken, name |-> n, dev |-> dev[n]]
    IN  /\ taken < MaxSamples
        /\ dev[n] # Off
        /\ avg' = [avg EXCEPT ![n] = [p \in Period |-> @[p] \cup {s}]]
        /\ taken' = taken + 1
        /\ UNCHANGED <<dev, rows, copy, at, clearing>>

\* A changed variable goes on with the averages it has.
Kept(n) == avg[n]

\* setVarManageExtDataWithJson clears the averages of a variable it changed.
Reset(n) == Empty

\* The variable is added or changed; d may be the device it has.
Set(n, d) ==
    /\ dev' = [dev EXCEPT ![n] = d]
    /\ avg' = [avg EXCEPT ![n] = Reset(n)]
    /\ UNCHANGED <<taken, rows, copy, at, clearing>>

\* It takes another name, one no other variable has.
Rename(n, m, d) ==
    /\ dev[n] # Off /\ dev[m] = Off
    /\ dev' = [dev EXCEPT ![n] = Off, ![m] = d]
    /\ avg' = [avg EXCEPT ![n] = Empty, ![m] = Reset(n)]
    /\ UNCHANGED <<taken, rows, copy, at, clearing>>

Remove(n) ==
    /\ dev[n] # Off
    /\ dev' = [dev EXCEPT ![n] = Off]
    /\ avg' = [avg EXCEPT ![n] = Empty]
    /\ UNCHANGED <<taken, rows, copy, at, clearing>>

-----------------------------------------------------------------------------
(***************************************************************************)
(* The second half of vVarManage_ExtDataRefreshTask.                       *)
(***************************************************************************)

\* __GetExtDataWithIndex: the next variable of the task's device is copied.
CopyData(d, n) ==
    /\ at[d] = 0
    /\ dev[n] = d
    /\ copy' = [copy EXCEPT ![d] = [name |-> n, avg |-> avg[n]]]
    /\ at' = [at EXCEPT ![d] = 1]
    /\ UNCHANGED <<list, rows, clearing>>

\* To the next average; after the last one vVarManage_FreeData.
Advance(d) ==
    /\ at' = [at EXCEPT ![d] = (@ + 1) % (Periods + 1)]
    /\ copy' = IF at[d] = Periods THEN [copy EXCEPT ![d] = NoCopy] ELSE copy

\* The period is not over, nothing was counted, or storing is off.
PassOver(d) ==
    /\ at[d] # 0 /\ d \notin clearing
    /\ Advance(d)
    /\ UNCHANGED <<list, rows, clearing>>

Mean(d) == [name |-> copy[d].name, of |-> copy[d].avg[at[d]]]

\* bStorageAddData, which may wait, and may lose what it is given.
AddData(d) ==
    /\ at[d] # 0 /\ d \notin clearing
    /\ copy[d].avg[at[d]] # {}
    /\ \E r \in {rows[at[d]], Append(rows[at[d]], Mean(d))} :
          rows' = [rows EXCEPT ![at[d]] = r]
    /\ clearing' = clearing \cup {d}
    /\ UNCHANGED <<list, copy, at>>

\* The average of the next period is cleared.
ClearedNext(d) ==
    [avg EXCEPT ![copy[d].name][(at[d] % Periods) + 1] = {}]

\* vVarManage_ClearExtDataStorageAvgReal, ...Min and ...Hour.
Cleared(d) ==
    [avg EXCEPT ![copy[d].name][at[d]] = {}]

Clear(d) ==
    /\ d \in clearing
    /\ avg' = IF dev[copy[d].name] # Off THEN Cleared(d) ELSE avg
    /\ clearing' = clearing \ {d}
    /\ Advance(d)
    /\ UNCHANGED <<dev, taken, rows>>

Task(d) ==
    \/ \E n \in Names : CopyData(d, n)
    \/ PassOver(d) \/ AddData(d) \/ Clear(d)

Next ==
    \/ \E d \in Devices : Task(d)
    \/ \E n \in Names : UpdateValue(n) \/ Remove(n)
    \/ \E n \in Names, d \in Devices : Set(n, d)
    \/ \E n, m \in Names, d \in Devices : Rename(n, m, d)

Spec == Init /\ [][Next]_vars

-----------------------------------------------------------------------------
Averaged == [Period -> SUBSET Samples]

TypeOK ==
    /\ dev \in [Names -> Devices \cup {Off}]
    /\ avg \in [Names -> Averaged]
    /\ taken \in 0 .. MaxSamples
    /\ rows \in [Period -> Seq([name : Names, of : SUBSET Samples])]
    /\ copy \in [Devices -> [name : Names \cup {NoName}, avg : Averaged]]
    /\ at \in [Devices -> 0 .. Periods]
    /\ clearing \subseteq Devices
    /\ \A d \in clearing : at[d] # 0
    /\ \A d \in Devices : (at[d] = 0) <=> (copy[d].name = NoName)

\* No value is counted in two means of the same period, whatever is counted,
\* changed or renamed between a task's copy and its clearing.
CountedOnce ==
    \A p \in Period : \A i, j \in DOMAIN rows[p] :
        i # j => rows[p][i].of \cap rows[p][j].of = {}

\* A mean is of values its variable took under the name it is stored with, all
\* from the same device: a change of the variable starts the averages anew.
MeansOfOneSetting ==
    \A p \in Period : \A i \in DOMAIN rows[p] :
        \E d \in Devices : \A s \in rows[p][i].of :
            s.name = rows[p][i].name /\ s.dev = d
=============================================================================
