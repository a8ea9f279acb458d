------------------------------- MODULE Collect -------------------------------
(***************************************************************************)
(* The collection tasks of drivers/varmanage/varmanage.c: each device has  *)
(* a task that walks the chain of frames (__get_next_sync_ext_node), which *)
(* other threads free and build again under it, and polls the frames of    *)
(* its device; on a serial port it does so once an interval.               *)
(*                                                                         *)
(* A walk step, a rebuild and a change of the list are critical sections,  *)
(* so one step each; varmanage_free_all, which a restore calls, frees the  *)
(* chain outside of one and is a step for every call of free.  The two     *)
(* levels of the chain, slaves and their frames, are laid end to end: a    *)
(* frame names the cell of its slave and its own.  Joining frames is in    *)
(* SyncLink: here a frame reads one variable.  Only the web server changes *)
(* the configuration, one request at a time.                               *)
(***************************************************************************)
EXTENDS Integers, Sequences, FiniteSets

CONSTANTS
    Vars,       \* the variables
    Slaves,     \* what variables are read from
    Devices,    \* pairs of device type and number, one task each
    DeviceOf,   \* the device a slave is reached by
    Serial,     \* the devices whose port has an interval
    SlaveCells, \* the addresses sync_slave_t is allocated at
    ExtCells,   \* the addresses sync_ext_t is allocated at
    CollMax     \* BOARD_COLL_MAX, the size of s_varmanage_run

ASSUME VarsAssumption == IsFiniteSet(Vars)
ASSUME DeviceOfAssumption == DeviceOf \in [Slaves -> Devices]
ASSUME SerialAssumption == Serial \subseteq Devices
ASSUME CollMaxAssumption == CollMax \in Nat

VARIABLES
    cfg,        \* the slave of each enabled variable of s_xExtDataList
    chain,      \* s_psync_slave
    freed,      \* the cells of the chain that free_all has given back
    run,        \* the devices in s_varmanage_run
    elapsed,    \* the serial devices whose interval is over
    web,        \* what the web server is doing
    busy,       \* s_cfg_recover_ing
    pc,         \* where each task is
    at,         \* slave and ext: the cells of the frame a task took last
    frame,      \* sync_node: the copy of that frame
    allElapsed, \* com_flag of the task's port
    stray       \* the tasks that have read a freed cell

task == <<pc, at, frame, allElapsed, stray>>
server == <<cfg, chain, freed, run, web, busy>>
vars == <<task, server, elapsed>>

Off == "off"        \* disabled, or not in the list
None == "none"
Nowhere == [slave |-> None, ext |-> None]
NoFrame == [from |-> None, var |-> None]

Frames == [slave : SlaveCells, ext : ExtCells, from : Slaves, var : Vars]
Configurations == [Vars -> Slaves \cup {Off}]
Enabled(c) == {v \in Vars : c[v] # Off}

\* The chains __creat_sync_slave_link may build for c: a frame for every
\* enabled variable, the frames of a slave together, in cells of their own.
Chains(c) ==
    LET positions == 1 .. Cardinality(Enabled(c))
    IN  {q \in [positions -> Frames] :
            /\ {q[i].var : i \in positions} = Enabled(c)
            /\ \A i \in positions : q[i].from = c[q[i].var]
            /\ \A i, j \in positions :
                  /\ q[i].ext = q[j].ext => i = j
                  /\ (q[i].slave = q[j].slave) <=> (q[i].from = q[j].from)
                  /\ q[i].from = q[j].from =>
                        \A k \in i .. j : q[k].from = q[i].from}

\* The devices of the list: those of the enabled variables, and any others,
\* for disabled variables have a device too.
Listed(c) ==
    {{DeviceOf[c[v]] : v \in Enabled(c)} \cup more : more \in SUBSET Devices}

\* Nobody looks whether the table is full.
UpdatedAll(r, c) == {r \cup listed : listed \in Listed(c)}

\* varmanage_update: a task for every device in the list, while there is room.
Updated(r, c) ==
    UNION {{r \cup new : new \in {n \in SUBSET (listed \ r) :
                /\ Cardinality(r \cup n) <= CollMax
                /\ n = listed \ r \/ Cardinality(r \cup n) = CollMax}} :
           listed \in Listed(c)}

\* vVarManage_ExtDataInit, and varmanage_start once the rest is initialised.
Init ==
    /\ cfg \in Configurations
    /\ chain \in Chains(cfg)
    /\ freed = {}
    /\ run \in Updated({}, cfg)
    /\ elapsed = Serial
    /\ web = "idle"
    /\ busy = FALSE
    /\ pc = [d \in Devices |-> "top"]
    /\ at = [d \in Devices |-> Nowhere]
    /\ frame = [d \in Devices |-> NoFrame]
    /\ allElapsed = [d \in Devices |-> TRUE]
    /\ stray = {}

-----------------------------------------------------------------------------
(***************************************************************************)
(* __get_next_sync_ext_node.                                               *)
(***************************************************************************)

\* The frame at position i is the one task d took last.
IsHere(d, i) == chain[i].slave = at[d].slave /\ chain[i].ext = at[d].ext

\* A pointer once taken is followed.
AlwaysExists(d) == at[d].slave # None

\* __isexist_sync_ext, of a chain that may have been built again since.
IsExist(d) == \E i \in DOMAIN chain : IsHere(d, i)

Position(d) ==
    IF \E i \in DOMAIN chain : IsHere(d, i)
    THEN CHOOSE i \in DOMAIN chain : IsHere(d, i) ELSE 0

\* The frame after it, or the first one; none beyond the end.
Following(d) == IF IsExist(d) THEN Position(d) + 1 ELSE 1

NextFrame(d) == chain[Following(d)]
CellsOf(f) == [slave |-> f.slave, ext |-> f.ext]

\* The cells __isexist_sync_ext reads: slaves up to the task's, then its
\* frames up to the task's.
Searched(d) ==
    IF at[d].slave = None THEN {}
    ELSE {chain[i].slave : i \in {i \in DOMAIN chain :
            \A j \in 1 .. i - 1 : chain[j].slave # at[d].slave}}
         \cup
         {chain[i].ext : i \in {i \in DOMAIN chain :
            /\ chain[i].slave = at[d].slave
            /\ \A j \in 1 .. i - 1 : ~IsHere(d, j)}}

\* All the cells the step reads.
ReadBy(d) ==
    Searched(d)
    \cup (IF IsExist(d) THEN {at[d].slave, at[d].ext} ELSE {})
    \cup (IF Following(d) \in DOMAIN chain
          THEN {chain[Following(d)].slave, chain[Following(d)].ext} ELSE {})

Cells == UNION {{chain[i].slave, chain[i].ext} : i \in DOMAIN chain}

ReadsFreed(d) == ~(ReadBy(d) \subseteq Cells \ freed)

-----------------------------------------------------------------------------
(***************************************************************************)
(* vVarManage_ExtDataRefreshTask.                                          *)
(***************************************************************************)

In(d, place) == d \in run /\ pc[d] = place
Goto(d, place) == pc' = [pc EXCEPT ![d] = place]

\* The test of the inner loop.
Continue(d) ==
    /\ In(d, "top")
    /\ Goto(d, IF busy THEN "over" ELSE "walk")
    /\ UNCHANGED <<at, frame, allElapsed, stray, elapsed, server>>

\* The next frame is one of the task's own device,
Take(d) ==
    /\ In(d, "walk")
    /\ ~ReadsFreed(d)
    /\ Following(d) \in DOMAIN chain
    /\ DeviceOf[NextFrame(d).from] = d
    /\ at' = [at EXCEPT ![d] = CellsOf(NextFrame(d))]
    /\ frame' = [frame EXCEPT ![d] =
                    [from |-> NextFrame(d).from, var |-> NextFrame(d).var]]
    /\ Goto(d, "check")
    /\ UNCHANGED <<allElapsed, stray, elapsed, server>>

\* or one of another device, and passed over.
PassOver(d) ==
    /\ In(d, "walk")
    /\ ~ReadsFreed(d)
    /\ Following(d) \in DOMAIN chain
    /\ DeviceOf[NextFrame(d).from] # d
    /\ at' = [at EXCEPT ![d] = CellsOf(NextFrame(d))]
    /\ Goto(d, "top")
    /\ UNCHANGED <<frame, allElapsed, stray, elapsed, server>>

\* The end of the chain.
ReachEnd(d) ==
    /\ In(d, "walk")
    /\ Following(d) \notin DOMAIN chain
    /\ ~ReadsFreed(d)
    /\ at' = [at EXCEPT ![d].slave = None]
    /\ Goto(d, "over")
    /\ UNCHANGED <<frame, allElapsed, stray, elapsed, server>>

\* The chain is being freed: what the task reads is undefined, and it is not
\* followed any further.
GoAstray(d) ==
    /\ In(d, "walk")
    /\ ReadsFreed(d)
    /\ stray' = stray \cup {d}
    /\ Goto(d, "lost")
    /\ UNCHANGED <<at, frame, allElapsed, elapsed, server>>

Due(d) == d \in Serial => d \in elapsed

\* com_flag tells of the last frame only.
LastDue(d) == Due(d)

\* com_flag: the interval was over at every frame of the pass.
AllDue(d) == allElapsed[d] /\ Due(d)

\* The interval of the port, which may end in the middle of a pass.
Check(d) ==
    /\ In(d, "check")
    /\ allElapsed' = [allElapsed EXCEPT ![d] = AllDue(d)]
    /\ IF Due(d)
       THEN Goto(d, "poll") /\ UNCHANGED frame
       ELSE Goto(d, "top") /\ frame' = [frame EXCEPT ![d] = NoFrame]
    /\ UNCHANGED <<at, stray, elapsed, server>>

\* The bus transaction ends, with an answer or without.
Poll(d) ==
    /\ In(d, "poll")
    /\ frame' = [frame EXCEPT ![d] = NoFrame]
    /\ Goto(d, "top")
    /\ UNCHANGED <<at, allElapsed, stray, elapsed, server>>

\* After a pass in which the interval was over at every frame the next
\* interval begins; then a new pass.
EndPass(d) ==
    /\ In(d, "over")
    /\ elapsed' = IF ~busy /\ allElapsed[d] THEN elapsed \ {d} ELSE elapsed
    /\ at' = [at EXCEPT ![d] = Nowhere]
    /\ allElapsed' = [allElapsed EXCEPT ![d] = TRUE]
    /\ Goto(d, "top")
    /\ UNCHANGED <<frame, stray, server>>

\* Time passes.
Elapse(d) ==
    /\ d \in Serial \ elapsed
    /\ elapsed' = elapsed \cup {d}
    /\ UNCHANGED <<task, server>>

Task(d) ==
    \/ Continue(d) \/ Take(d) \/ PassOver(d) \/ ReachEnd(d) \/ GoAstray(d)
    \/ Check(d) \/ Poll(d) \/ EndPass(d)

-----------------------------------------------------------------------------
(***************************************************************************)
(* Requests of the web page.                                               *)
(***************************************************************************)

\* setVarManageExtData and delVarManageExtData: the list,
Change(v, s) ==
    /\ web = "idle"
    /\ cfg' = [cfg EXCEPT ![v] = s]
    /\ web' = "rebuild"
    /\ UNCHANGED <<chain, freed, run, busy, elapsed, task>>

\* then the chain,
Rebuild ==
    /\ web = "rebuild"
    /\ chain' \in Chains(cfg)
    /\ elapsed' = Serial
    /\ web' = "update"
    /\ UNCHANGED <<cfg, freed, run, busy, task>>

\* then the tasks; a deletion does without this, which after one adds nothing
\* that the change before it did not.
Update ==
    /\ web = "update"
    /\ run' \in Updated(run, cfg)
    /\ web' = "idle"
    /\ UNCHANGED <<cfg, chain, freed, busy, elapsed, task>>

\* cfg_recover_with_json: the flag is set before the file is opened.
StartRestore ==
    /\ web = "idle"
    /\ busy' = TRUE
    /\ web' \in {"restore", "idle"}
    /\ UNCHANGED <<cfg, chain, freed, run, elapsed, task>>

\* The file holds no line of a configuration.
NothingRestored ==
    /\ web = "restore"
    /\ busy' = FALSE
    /\ web' = "idle"
    /\ UNCHANGED <<cfg, chain, freed, run, elapsed, task>>

\* At the first variable varmanage_free_all empties the list,
EmptyList ==
    /\ web = "restore"
    /\ cfg' = [v \in Vars |-> Off]
    /\ web' = "free"
    /\ UNCHANGED <<chain, freed, run, busy, elapsed, task>>

HeadFrames == {i \in DOMAIN chain : chain[i].slave = chain[1].slave}

\* then frees the frames of the first slave one by one,
FreeFrame ==
    /\ web = "free"
    /\ \E i \in HeadFrames :
          /\ chain[i].ext \notin freed
          /\ \A j \in 1 .. i - 1 : chain[j].ext \in freed
          /\ freed' = freed \cup {chain[i].ext}
    /\ UNCHANGED <<cfg, chain, run, web, busy, elapsed, task>>

\* then the slave,
FreeSlave ==
    /\ web = "free"
    /\ chain # <<>>
    /\ \A i \in HeadFrames : chain[i].ext \in freed
    /\ chain[1].slave \notin freed
    /\ freed' = freed \cup {chain[1].slave}
    /\ UNCHANGED <<cfg, chain, run, web, busy, elapsed, task>>

\* and only then lets s_psync_slave point to the next.
NextSlave ==
    /\ web = "free"
    /\ chain # <<>>
    /\ chain[1].slave \in freed
    /\ chain' = SubSeq(chain, Cardinality(HeadFrames) + 1, Len(chain))
    /\ UNCHANGED <<cfg, freed, run, web, busy, elapsed, task>>

\* The whole file is in the database; the reboot comes seconds later.
FinishRestore ==
    /\ \/ web = "restore"
       \/ web = "free" /\ chain = <<>>
    /\ busy' = FALSE
    /\ web' = "reboot"
    /\ UNCHANGED <<cfg, chain, freed, run, elapsed, task>>

Reboot ==
    /\ web = "reboot"
    /\ cfg' \in Configurations
    /\ chain' \in Chains(cfg')
    /\ freed' = {}
    /\ run' \in Updated({}, cfg')
    /\ elapsed' = Serial
    /\ web' = "idle"
    /\ busy' = FALSE
    /\ pc' = [d \in Devices |-> "top"]
    /\ at' = [d \in Devices |-> Nowhere]
    /\ frame' = [d \in Devices |-> NoFrame]
    /\ allElapsed' = [d \in Devices |-> TRUE]
    /\ stray' = {}

Next ==
    \/ \E d \in Devices : Task(d) \/ Elapse(d)
    \/ \E v \in Vars, s \in Slaves \cup {Off} : Change(v, s)
    \/ Rebuild \/ Update
    \/ StartRestore \/ NothingRestored \/ EmptyList
    \/ FreeFrame \/ FreeSlave \/ NextSlave
    \/ FinishRestore \/ Reboot

Spec == Init /\ [][Next]_vars

\* Threads are scheduled, a bus transaction ends with an answer or a timeout,
\* and time passes.
FairSpec ==
    Spec /\ \A d \in Devices : WF_vars(Task(d)) /\ WF_vars(Elapse(d))

-----------------------------------------------------------------------------
TypeOK ==
    /\ cfg \in Configurations
    /\ chain \in Seq(Frames)
    /\ freed \subseteq SlaveCells \cup ExtCells
    /\ run \subseteq Devices /\ Cardinality(run) <= CollMax
    /\ elapsed \subseteq Serial
    /\ web \in {"idle", "rebuild", "update", "restore", "free", "reboot"}
    /\ busy \in BOOLEAN
    /\ pc \in [Devices -> {"top", "walk", "check", "poll", "over", "lost"}]
    /\ at \in [Devices -> [slave : SlaveCells \cup {None},
                        ext : ExtCells \cup {None}]]
    /\ frame \in [Devices -> [from : Slaves, var : Vars] \cup {NoFrame}]
    /\ allElapsed \in [Devices -> BOOLEAN]
    /\ stray \subseteq Devices

\* A task never reads a frame that has been given back, however often the
\* chain is freed and built again under it, except while a restore frees it
\* for good.
WalksLiveFrames == stray # {} => web \in {"free", "reboot"}

\* What the comment above __get_next_sync_ext_node says: the critical section
\* keeps a change of the list from breaking the walk, whatever changes it.
WalkIsSafe == stray = {}

\* The configuration is left alone, and v is enabled and its device has a task.
Settled(v) ==
    web = "idle" /\ ~busy /\ cfg[v] # Off /\ DeviceOf[cfg[v]] \in run

Polling(v) == \E d \in Devices : In(d, "poll") /\ frame[d].var = v

\* Once the configuration is left alone every enabled variable is polled again
\* and again: neither the interval of its port, nor the chain rebuilt in the
\* middle of a pass, nor other devices keep it from its turn.
EveryVariablePolled ==
    \A v \in Vars :
        <>[]Settled(v) => []<>Polling(v)
=============================================================================
