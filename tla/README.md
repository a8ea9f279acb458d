# A TLA+ model of the NUC972 RTU firmware

The firmware (`soft/decomoen_rtu`) is a Linux process on a NUC972 board that
polls meters and sensors over serial lines, ZigBee and Ethernet, keeps the
values as *variables*, stores averages in SQLite, reports them to cloud servers
and serves a web page on which all of it is configured. This directory models
its core with TLA+, checks the model with TLC and proves the most important
results with TLAPS. Paths below are relative to `src/soft/decomoen_rtu`.

## Inventory

| Component | State | Operations | Talks to |
| --- | --- | --- | --- |
| message queue `block_msg_queue.c` | ring, head, tail, a mutex, two condition variables | create, delete, reset, msgs, remain, send, recv | every other thread pair |
| sample storage `board/storage.c` | queue of samples, SQLite handle, `s_dbinit`, `s_transaction`, a table for each of five record types | add, commit, close; thread: open, receive, insert, purge, commit every 10 s | collection tasks (add), web server (commit), reset (close) |
| list of variables `drivers/varmanage` | linked list `s_xExtDataList` and its count, copy in the configuration database | load, add, update, delete, restore, sort | web server (changes), collection tasks (read) |
| collection chain `drivers/varmanage` | list of slaves, each with its list of frames | rebuilt at each change: enter, join | list of variables, collection tasks |
| collection tasks `drivers/varmanage` | one thread per device: place in the chain, last poll, averages in the variables | poll a frame, refresh registers, average, hand over | chain, modbus, sensors, storage |
| configuration database `board/cfg` | SQLite tables of registers and variables | add, update, delete, delete all, load | every configurable component |
| cloud sessions `sdccp/cc_bjdc.c`, `hjt212.c`, `dm101` | `s_cc_reinit_flag`, answer queue, verification state | open, close, start and exit of the work task, verify, heartbeat, report | network helper, variables |
| network helper `board/net_helper.c` | sockets, `disconnect`, `shutdown`, thread | open, close, disconnect, send, thread: connect, read, reconnect | sessions, transfer |
| serial sensors `sdccp/sdccp_serial.c`, `dlt645*.c`, `sdccp_dust.c` | a mailbox of one answer for each port | request, wait, parse | collection tasks |
| zigbee driver `drivers/zigbee`, `board/zgb_std.c` | two recursive mutexes, two queues of one message, `s_usAddr`, list of nodes `s_zgb_mnode` | commands to the radio, set destination, learn, answer a scan, insert, check online | collection tasks, gateway (`board/xfer_net.c`), web server |
| start and reset `das.c`, `das_os.h` | – | start of all components in order, `NVIC_SystemReset` | all |

Hard in this code: threads that share flags without a lock, waits that do not
test their condition again, linked lists changed under readers' feet, a
database written in ten-second transactions on a device that loses power,
connections that end while a session is in the middle of a step, 16-bit
registers, and structures whose corruption shows only many calls later. The
hazards are listed at their lines in `PROJECT.json`.

What makes each part correct: *queue* – a bounded FIFO, no lost and no empty
wakeup; *storage* – rows in order, transactions in step with the flag, nothing
inserted lost by a reset, a bounded table; *list* – count, links, order and
database agree; *chain* – every variable read, nothing else read, frames that
fit; *collection* – every enabled variable polled again and again, values filed
under the right variable, averages that count each sample once; *sessions* –
data only over a verified connection, a session again after each loss;
*sensors* – an answer belongs to its request; *zigbee* – a request goes to the node it
is for, no thread stuck between the two mutexes; *database* – old or new, never
neither, after a crash.

## Modules

| Module | Models | Extends | Runs |
| --- | --- | --- | --- |
| `MsgFifo` | what `rt_mq_*` promises: a FIFO of `Capacity` messages that may be cleared | | (refined by `BlockMsgQueue`) |
| `DurableLog` | what the storage promises: a log of which a failure takes the end | | (refined by `Storage`) |
| `BlockMsgQueue` | `block_msg_queue.c` | | `mq_fifo`, as a mailbox `serial` |
| `Storage` | `board/storage.c`, `NVIC_SystemReset` | | `storage` |
| `VarList` | list and sort in `varmanage.c`, table of variables in `board_cfg.c`, `cfg_recover.c` | | `var_list`, `var_list_any_order` |
| `SyncLink` | `__creat_sync_slave_link` and what it calls | | `sync_link` |
| `Collect` | the tasks of `vVarManage_ExtDataRefreshTask` on the chain, `varmanage_update`, `cfg_recover.c` | | `collect`, `collect_restore` |
| `Averages` | the averages in `varmanage.c` and their hand-over to the storage | | `averages` |
| `NetHelper` | the network thread of `board/net_helper.c` in its four roles | | `uplink` |
| `Uplink` | a session over it: `cc_bjdc.c`, `hjt212.c`, `dm101.c`, with server and line | `NetHelper` | `uplink` |
| `Report` | averages and reports of one port, by the three protocols | | `report` |
| `Serial` | `sdccp_serial.c`, `dlt645.c`, `dlt645_1997.c`, `sdccp_dust.c` over a mailbox | instance of `BlockMsgQueue` | `serial` |
| `Zigbee` | `zigbee.c`, `zgb_std.c` and the threads that use them | | `zigbee` |
| `VarManageProofs` | theorems on `Collect` and `VarList`, both of `drivers/varmanage` | them, `TLAPS` | |
| `PortProofs` | theorems on `Serial` and `Zigbee`, the drivers of the ports | them, `TLAPS` | |
| the other `*Proofs` | theorems on the module of the same name, `UplinkProofs` also on `NetHelper` | it, `TLAPS` | |
| `MC*` | model values for TLC | the module | |

### BlockMsgQueue
`pool`, `head`, `tail` are the fields of the queue, with `max_msgs` = `MaxMsgs`
+ 1 slots as `b_mq_create` allocates them. A call holds the mutex throughout
and is one action (`SendAccepted`, `SendRefused`, `RecvNow`, `RecvPoll`,
`Reset`), but for the wait in `b_mq_recv`, which is three: `RecvWait` gives the
mutex up, `Signal` (inside `SendAccepted`) or `ReturnUnsignalled` (the timeout,
or a spurious return) ends the wait, `WakeUp` has the mutex again and takes the
slot at `head` without looking whether there is a message, as the code does.
`Fifo` maps the ring to `MsgFifo`.

That missing look is the hazard. With one receiving thread that alone resets
the queue, and waits that return only when signalled (`Discipline`), the ring
implements the FIFO; that is how the storage and the sessions use it. The dust
sensor's parser resets from the sending side, outside of that discipline; what
remains there is the matter of `Serial`.

### Storage
What runs under `s_db_mutex` is one action; the unlocked reads of `s_db` and
`s_dbinit` are steps of their own (`AddLooks`, `CommitLooks`, `CloseLooks`,
`Receive`). `table` is what the connection sees, `disk` what a power failure
leaves, `txn` whether SQLite has a transaction open, `flag` what
`s_transaction` says. `Restart` is both the reset after a close and a power
failure at any moment. `Medium` lets a full or broken medium make any statement
fail from then on, and recover. The queue is the sequence `mq`, as `MsgFifo`
has it. `ST_T_COMMIT` messages are left out: nothing sends them.

`Log` maps all of it to `DurableLog`: what the table shows, what the disk keeps,
and the sample whose turn it is, the one in hand or the oldest in the queue
(`Passed`). The specification leaves the storage free to give samples up, since
it does so when the queue is full, the database closed or the medium broken; it
does not leave it free to take a sample twice or late, to forget a younger one
before an older, or to come back from a failure with anything but what was kept
last.

One order of events breaks what the properties say, and they name it: when
`bStorageDoCommit` runs after the thread has set `s_dbinit` (storage.c:319) and
before its first, unlocked `__begin_transaction` (line 345), the web server's
begin succeeds, the thread's fails and clears `s_transaction`, and rows inserted
from then on are rolled back at the next close. The history variable `early`
records it; `NoOrphanTransaction`, `CloseKeepsRows` and `RowsReachDisk` hold
unless it is set, and without that TLC finds each of them violated. Only a restore of
the configuration makes that call, within moments of the start, and it reboots
the device five seconds later.

### VarList
`node` is the heap of list nodes with `next`, `prev` and the mapped address;
`Inserted`, `Removed` and `Move` make the code's assignments in the code's
order, so a pointer the code forgets is forgotten here. Requests of the web
page are one action each with the sort that ends them; addresses come in any
order, as the page and a configuration file allow. `Restart` builds the list
from the database, `RestoreBegin` and `RestoreLine` are the lines of a
configuration file, between which the power may fail. The loops of the code are
recursive functions over the number of turns: `Chain` walks along `next`,
`Sorted` repeats `SortTurn`, `Loaded` inserts row after row.

*Finding.* `__sort_extdata_link` moves a node in front of another and does not
set that one's `prev` (varmanage.c:577-592). Where addresses are entered in
ascending order, what the page proposes, nothing is ever moved and all is well.
Otherwise later requests follow the stale pointer (`var_list_any_order`): add 2,
add 1, delete the first, and the list is empty with a count of 1.

`var_list` says what is left of the list, with the sort at work and on damaged
lists too. The history variable `moved` says whether the sort has moved a node
since the list was built. Until then the list is linked both ways, complete,
counted (`LinkedUntilMoved`) and in order (`OrderedUnlessMoved`); the very
request that enters a variable and moves it leaves `next` in order
(`EntersInOrder`), while a change of an address, or a start that loads several
rows out of order, may not (from addresses 5, 2, 3 the sort makes 2, 5, 3). Whatever
becomes of the links, the database keeps every variable with its address
(`CfgMirrorsNodes`), because requests write it by name. A list that comes round
in a circle or leads to a freed node (`Broken`) can only be left by a restart:
there the code loops for ever or reads freed memory, and what it does then is
not modelled.

### SyncLink
`link` is the chain of one slave, `Enter` is `__add_sync_ext_node`, and
`Join`, `TooLong`, `Swallow`, `Apart` are the branches of the loop of
`__trim_sync_slave_link` at position `at`. The ends of frames are taken modulo
`Word` where the code stores them in 16 bits and not where it computes in int.

A frame that ends with register 65535 has end 0 in the 16 bits the code gives
it (varmanage.c:433), is taken for one that ends before its neighbour, and is
dropped: with registers up to `Word` TLC finds `EveryVariableRead` violated.
Below that boundary, where `sync_link` lies, all properties hold and are proved.

### Collect
`chain` is `s_psync_slave`, slaves and frames laid end to end, each frame with
the addresses (`SlaveCells`, `ExtCells`) its two structures are allocated at;
`at` is what a task has in `slave` and `ext`. Addresses are few, so that a chain
built again has new frames where the old ones were, the case
`__isexist_sync_ext` cannot tell. A pass is `Continue`, `Take` or `PassOver`,
`Check` (the interval and `com_flag`), `Poll`, and at the end `ReachEnd` and
`EndPass`. `Change`, `Rebuild`, `Update` are the three steps of a request of the
web page. `StartRestore` sets the flag and may stop there (a file that cannot
be opened); `EmptyList`, `FreeFrame`, `FreeSlave`, `NextSlave` are
`varmanage_free_all` one `free` at a time; `FinishRestore` and `Reboot` end it.
Frames are not joined here (`SyncLink` does that), and how an answer gets into
the registers is left out.

*Finding.* `varmanage_free_all` leaves the critical section before it frees the
chain, so a task that tested `cfg_recover_busy` a moment earlier reads freed
frames (`collect_restore`). Everywhere else the walk is safe, which `collect`
checks and `WalkersAreSafe` proves.

### Averages
Samples have an identity, an average is the set of samples in it, `rows` is
what `bStorageAddData` was given. A task copies a variable (`CopyData`), goes
through its averages (`PassOver`, or `AddData` and `Clear`), and drops the copy;
`UpdateValue`, `Set`, `Rename`, `Remove` come from other threads at any moment.
`Clear` looks the variable up by name, as the code does, and finds it renamed,
removed, or another one. When a period is over is left open. The samples counted
between copy and clearing are in no mean; the code promises nothing else.

### NetHelper and Uplink
`NetHelper` is `_net_task` and the four functions it calls: `npc` is the place
in them, `sockFd` and `tcpFd` the two descriptors, `opened` those the stack
holds. `AttemptFails` stands for every failing call, all of which go to
`__END`; `TakePeer` accepts a peer or closes a second one; `CloseAll` is what
`__END` closes. `Uplink` conjoins the protocol to these actions: the start of
the work task (`NetEstablish`), its being told of the end (`ExitWork`, before
anything is closed), and `PutBytes`, the parser with the queue behind it. The
work task of each protocol is modelled by its labels and waits: `BjdcVerify` to
`BjdcPassed`, `HjtLogin` to `HjtNoLogin`, `DmStart`, then the loop of the
session (`LeaveSession`, `StaySession`, `Poll`, `Restart`, `Act`) and the end of
a connection as the task wants it (`HangUp`, `HungUp`, `DelayOver`). Messages
are kinds: answer to a request, result of the verification, command. The server
is in one of three moods: it answers or does not and the line fails at any time,
until for good it is in order (`calm`) or never says anything again (`silent`).

Until the server is `calm` nothing relates its timing to that of the code. The
connection ends at any time, whatever lies unread in the queue, a wait ends
whatever is on the wire, answers come late, and the network thread may connect
again while the work task still waits. `calm` means that the line does not fail
any more, that answers come within the waits for them, that connecting takes
less than the delays, and that the pause of two seconds before it is longer
than the tenth of a second after which `net_disconnect` looks again (`Settled`,
`TimedOut`, `Paused`, `HungUp`, `Tick`).

BJDC is not equal to all of that, and the properties name the cases. Its work
task clears the flag after the verification, whatever happened since the answer
came (`cc_bjdc.c:377`), and nothing ever empties `s_CCDataQueue`, so that an
answer of an older request or connection passes for the one it waits for. The
history variable `oldPass` records the two, and `ReportsAreVerified` holds
unless it is set; without it TLC finds the session over a connection that was
never verified. And an answer left in the queue makes each later one come one
request late, for ever, also with a server in order; so `SessionComesUp` asks,
for BJDC only, that on a calm line the verification begins once with nothing
unread and no hang-up in flight (`BeginsAfresh`). Without it TLC finds the device
that stays out, and likewise the attempts that end each other's connection
because BJDC does not wait for it (`cc_bjdc.c:325`). A UDP client cannot exchange
anything in this code, because the address it would send to is filled in
wrongly; it is only in `NoFdLost`.

### Report
`pending` is what is in the averages, `reported` what was handed to
`cc_net_send`, both as sets of values, so that loss and duplication can be told;
`at` is `*ppnode`. `ReportFrame` is one call of the function that makes a frame:
which variables it takes (`Entries`), where it leaves `*ppnode` (`NextAt`),
what it clears (`Cleared`) and whether the caller goes on (`SweepOver`), for
HJT212, BJDC and DM101. `Count` is the adding of values, `Elapse` and `Turn` the
time, which passes at any moment, in the middle of a sweep too. `Lose` is the
end of the session, the flag or the connection: DM101 looks at it before each
packet and BJDC before each variable, so that their sweeps are cut short
(`CutShort`, `CutInside`; the critical section does not keep the network thread
from raising the flag), while HJT212 finishes its sweeps first. `owed` is a history variable, what was due
when the sweep began.

A call of HJT212 that meets a variable of another device before one that is due
takes nothing and leaves `*ppnode` alone (`Silent`). At the head of the list its
caller takes that for the end, and the devices behind the first are left out;
behind a frame it calls again at once, until something of the device in between
comes due, if ever. `NothingLeftOver` and `SweepEnds` hold but for exactly
these two cases, and without either of them TLC finds the property violated; `EachValueOnce`
and `OneDeviceFrames` hold without exception.

### Serial
The worker gathers what came from the bus until a gap (`Gather`: two frames
without one between them are neither), parses and hands over (`HandOver`, and
for a reading of the dust sensor `ResetForData` and `SendData`, the two critical
sections of `sdccp_dust.c`). The task asks (`AskMeter`, `StartSample`,
`ReadOnly`), clears the mailbox, sends, waits (`Receive`, `Wait`, `GiveUp`) and
reads. `OtherPort` is the task of another port making its request in the same
static buffer, `OtherStarts` that of another dust port, which sends its start to
port 0 as well (sdccp_dust.c:108). The mailbox is an instance of `BlockMsgQueue`, whose actions are
conjuncts of these, with one slot and resets by the sender. `stale` are the
slots not written since the request began, a history variable for `AnswerIsNew`.
`harsh` is chosen at the start: a system on which a wait may end spuriously, and
a woken task may come to its mutex only after further frames. On such a one the
empty slot is taken for an answer and a request may go on for ever; what is
promised of both, no sleeping on a message, is checked on both. `RequestEnds`
leaves out a system where the other ports start the sensor for ever: their
tasks do so once in an interval, and without that clause TLC finds the request
whose acknowledgement every new start and its readings push out of the mailbox.

### Zigbee
A thread that gives a command to the radio takes `s_zgb_mutex` (`zgbOwner`,
`hold`), empties the queue of answers (`slot`), sends, and waits for the answer,
throwing others away (`Discard`). `reply` and `air` are what the radio has on
its way to the worker: its own answers, and the scan frames of other devices
for the parser's queue (`std`). The threads are the collection tasks
(`Pollers`: `Lookup`, `PollerAsks`, `PollerAnswered`, `SendToNode`), the
gateway, the page that changes the configuration and resets the radio, and the
parser: as coordinator it stores answers to its scans (`TakeFrame`, `Store`) and
learns (`Learn`, `Scan`, `Learnt`), as end device it answers scans (`AskSignal`,
`AnswerScan`, `StoreMaster`). `usAddr` is the destination the driver remembers,
`dst` the one the radio has. Each queue has one thread at a time that receives
and alone resets, so that by `ImplementsFifo` it is a slot. An entry of the
list that is not online is as good as none to all that is modelled, so `online`
is a set, and `CheckOnline` lets any node go on a line that is not settled.

`line` is chosen at the start: `clean`, where the radio answers in time but may
refuse; `noise` (answers late, lost or merged with a scan frame), `gateway` or
`web`, which go on until, if ever, the line is `settled`. One kind of trouble at a time
keeps the model small; what each does to `usAddr` is the same.

The mutexes are taken in both orders. No deadlock comes of it because an end
device enters only the coordinator into its list, with no slave, so that its
collection tasks find no node to set; let it enter one with a slave and TLC
finds the two threads waiting for each other (`PollEnds`). Changing the role
on the page does not empty the list; the model keeps the role.

`s_usAddr` survives what makes it wrong: a lost answer, a reset of the radio,
the gateway's late assignment. With two nodes polled in turn the next command
puts it right (`SlavesReached`). With `Chain` of one node it never is: the
node's address is the remembered one, no command is sent, and TLC finds the
slave that is not reached again until the program restarts. Nothing in the
repository says otherwise, so this is no finding, but it is a hazard.

## Runs

| Run | Bounds | Why they are enough |
| --- | --- | --- |
| `mq_fifo` | capacity 2, 2 messages, 1 receiver | three slots wrap around and fill; two messages tell order and duplication; senders do not differ, a send being one step |
| `storage` | 4 samples, queue 2, limit 1, 1 restart, failing medium | the queue fills; rows are purged twice; a commit, a close, a power failure and the commit of a restore before the first begin meet the thread at every step: 121,000 states |
| `var_list` | 4 variables, 5 addresses, in any order; names are only compared, so that they are symmetric | the sort moves nodes to the head and past several others; head, middle and tail are changed and removed, on damaged lists too, until one is `Broken`; files of every length restored and cut short: 54,000 states |
| `var_list_any_order` | the same | a node moved to the head and one removed are enough |
| `sync_link` | 3 variables, registers 7-14, sizes 1-3, frames of at most 4, `Word` 16 | equal, nested, overlapping, touching and distant variables, in every order of entry, and joints that just do and just do not fit |
| `collect` | 2 variables, a serial and a network slave, a table with room for one task, 2 cells of each kind | chains of 0-2 frames with one or two slaves; frames freed and built again at the same and at each other's addresses at every step of a walk; an interval that ends between two frames; a full table, in which the second slave finds no place: one task runs, of either kind, and what two do to each other is left to `averages` |
| `collect_restore` | the same | one slave is freed while a task walks |
| `averages` | 2 names, 2 devices, 2 averages, 2 samples | two tasks hold copies of one name after it moved; a copy outlives a rename and a removal; a second average is handed over after the first |
| `uplink` | 3 descriptors, queue 2, 2 messages on the wire, 3 missed heartbeats, 3 first packets | one descriptor more than a server with a refused peer holds; a queue that fills behind an unread answer; a count that reaches its limit over two connections; answers that come late, are left over from a lost connection or from a wait that ended; every protocol with each of its options, and transfer in four roles: 712,000 states |
| `report` | 3 variables of one device or of two, `a a b` or `a b a`, 1 value at a time, frames of 2, one or two averages, with and without the clock | a frame that is full with one variable left; a device that begins in the middle and comes again; a period that ends and a session lost in the middle of a sweep; a sweep after a sweep: 156,000 states |
| `serial` | 2 variables, 2 frames on the wire, bursts of 2 readings | an answer that is late for the same and for the other variable; readings before and after the acknowledgement, while the task waits, wakes and gives up; starts of another port before, during and after its own: 440,000 states |
| `zigbee` | 2 nodes polled in turn by one task, one answer of the radio on the wire, both roles, one kind of trouble | a remembered destination is wrong for one node and mended by the other; a task, the parser and a gateway or a page each with a command in progress; both orders of the mutexes: 236,000 states |

In every run deadlock is checked.

## Fairness

`BlockMsgQueue.FairSpec`: a receiver that finds a message takes it (its thread
calls `b_mq_recv` in a loop), and one that was signalled gets the mutex back.
`Storage.FairSpec`: the storage thread runs – its receive times out after five
seconds, so it is never stuck – and time passes. `Collect.FairSpec`: each
collection task runs, its bus transaction ending with an answer or a timeout,
and the interval of each port ends. `Uplink.Fairness`: the network thread and
the work task run, bytes are read and the time of a heartbeat comes; `NetIdle`,
the select that times out after four seconds, is strongly fair, because each
message read puts it off, and a server that sends commands without a pause of
four seconds is not one the code is made for. `Report.Fairness`: the work task
runs. `Zigbee.RadioFairness`: threads run and waiters get their
mutexes (`SF`, since the mutex is taken and given back while they wait),
learning steps come round, and a command of the gateway or the page, once begun,
ends; neither has to begin one. `Serial.Fairness`: task and worker run, and a sensor once started sends
its readings to the last; the other ports (`OtherStarts`) need not do anything. Nothing is assumed of senders, of the web server, of
resets, of the medium, or of a server that is not `calm`.

## Proofs

TLC checks small instances; the theorems hold for every value of the constants.

* `BlockMsgQueueProofs`. The invariant joins the types with the counting
  argument: a woken receiver accounts for one message in the ring
  (`WokenHasMessage`), a sleeping one for none (`SleepsOnlyWhenEmpty`) and a
  deleted queue has nobody in it (`DeadIsQuiet`). From it follow
  `TypeCorrect`, `NoLostWakeup` (one receiver), `WakeupsHaveMessages` and
  `ImplementsFifo` (`Discipline`). The refinement rests on lemmas on what the
  ring contains after a message is put and after one is taken, around the wrap.
* `StorageProofs`. `StorageTypeCorrect`; `PurgeRestoresWindow` from what
  `Relimited` does to any table; `ResetKeepsRows`, from `CloseInv` (outside a
  transaction the connection sees what is on the disk; a database once closed
  is not opened again before the restart) and from the flag being in step, by
  which the commit before the close is not skipped; `FlagInStep` from an invariant that also says
  where the thread stands when no transaction was begun yet; both theorems hold
  of every system, and what they state excepts the one order of events that
  `early` records; `RowsOrdered` from one (`OrderInv`) that orders rows,
  the sample in hand, the queue and the samples not yet offered. `ImplementsLog`
  maps every step to one of `DurableLog`, with no exception: an insert
  records the sample in hand, and the purge after it forgets the oldest because
  rows are in order (`PurgeForgetsOldest`); outside a transaction what is shown
  is what is kept, by `CloseInv`; commits, rollbacks, closing and restarts keep
  or lose; and turns only ever pass (`TurnsPass`), because the queue is in order.
* `SyncLinkProofs`. `ChainInvariant`: the frames before position `at` cannot
  be joined with their successors any more, all frames are in order, cover
  every variable entered and nothing else. Under `NoWrap` (no variable ends
  beyond the register space) it gives `NoVariableLost`, `ReadsOnlyVariables`,
  `FramesInOrder`, `JoinedFramesFit` and `ChainIsJoined`.
* `VarManageProofs`, on `Collect`. `CollectTypeCorrect`, for which the table of
  tasks and the rest of a chain half freed need lemmas of their own;
  `WalkersAreSafe`: what a step reads is in the chain, because
  `__isexist_sync_ext` found it there, so that it is freed only while a restore
  is at work.
* `VarManageProofs`, on `VarList`, for addresses in any order. `ListInv` says
  two things. Whatever the pointers are, the nodes are counted and, outside a
  restore, are the rows of the table (`Shaped`, `RowsHold`); that survives
  every damage, because what moves or removes a node names it (`SortKeeps`,
  `RemovedKeeps`) and a walk which is not `Broken` meets allocated nodes only
  (`ChainAllocated`). And until the sort moves a node the list leads through all
  of them, both ways and in order (`LinkedInOrder`): an insertion appends
  (`InsertedLast`), a removal takes one name out (`RemovedKth`), and a sort that
  moves nothing found nothing to move (`UnmovedSort`), because a whole round of
  it overlooks no pair (`NothingOverlooked`). The load builds from the rows the one heap with
  their names and addresses (`LoadedRows`, `Rebuilt`). From it follow
  `ListTypeCorrect`, `DatabaseMirrors`, `LinkedBothWays` and `OrderKept`.
  `NewInOrder` goes through the sort at work: on a list in order the node
  entered last is moved once, in front of the first that is larger
  (`LastNodeMoves`), and is then in its place (`SortEnters`), although a `prev`
  is wrong from then on. What the recursive functions compute is shown without
  induction over data: each is compared with a function in closed form, and of
  the steps at which the two differ there would be a least one (`LeastStep`,
  from the order of the naturals being well-founded, and `SameSteps`).
* `AveragesProofs`. `AveragesTypeCorrect`; `NoValueCountedTwice` and
  `MeansAreOfOneSetting` from one invariant (`Parts`): samples belong to the
  name and the device of their average, what a task's copy has ahead of it was
  not handed over (`AheadIsNew`), and a sample handed over stays in its average
  only until the task that did it clears it (`LeftToClear`). One task for each
  device is what makes it work: a copy can only be made by the task that has
  nothing left to clear.

* `UplinkProofs`. To the network thread every step of a session is one of its
  own, a request to disconnect, a restart or nothing (`StepsOfNet`), so that
  `DescriptorsKept` is proved of `NetHelper` alone: where the thread stands says
  which descriptors it can have (`NetPhases`). `TypesKept` adds the session.
  `VerifiedReports` assumes nothing; it excepts what `oldPass` records. The
  property itself is far from inductive: `BjdcInv` follows the two messages of
  the verification through wire, queue and work task. A pass that is unread
  while the task waits for it means that the connection which stands is verified,
  and so do the place after it and a session with the flag down, unless the
  pass was taken over from an older request or the connection went between the
  pass and the clearing of the flag.

* `ReportProofs`. `TypesKept`; `ValuesReportedOnce` and `FramesOfOneDevice`
  for every list, every arrangement of devices and every length of frames;
  `SweepsLeaveNothing` for every order of devices, with periods ending and the
  session lost in mid-sweep, from `SweepInv`: `*ppnode` stands in the list only
  in a sweep of HJT212 (`Standing`), and what was due when the sweep began has
  been taken, or is still due and not passed (`Paid`), because a frame leaves
  nothing due between its entries (`FrameIsDense`).

* `PortProofs`, on `Serial`. `MailboxIsQueue`: a port takes only steps of `BlockMsgQueue`
  on its mailbox, which brings the invariant of the queue to it and gives
  `NobodySleepsOnAMessage`. `AnswersAreNew` rests on `NewInv`: once the request
  is sent a message at `head` is new, and a woken task still has one to take.
* `PortProofs`, on `Zigbee`. `RadioTypeCorrect` from `ThreadsOK`: where each
  thread stands says which of the two mutexes it has and how deep, and which
  threads a device of its role has at all (`RolesOK`). From it also
  `NoDeadlyEmbrace`: a task comes to the radio only on a coordinator, where
  nobody who has the radio waits for the list, so the thread a task waits for is
  in a command, whose waits all end. `RequestsGoToTheirNode`: while a command is
  answered `s_usAddr` and the destination of the radio differ, and the answer
  under way says which of them is right; on a clean line there is at most one
  such answer, it belongs to the thread that has the mutex, and so whoever finds
  his node remembered, or is answered, sends to it (`CleanInv`).

Only model-checked: the liveness properties (`RowsReachDisk`,
`EveryVariablePolled`, `SilentServerIsLeft`, `SessionComesUp`, `SweepEnds`,
`RequestEnds`, `PollEnds`, `SlavesReached`), which need fairness and ENABLED.
`WakeupsHaveMessages`, `FramesInOrder`, `NoDeadlyEmbrace`, `ListTypeCorrect` and
`AveragesTypeCorrect` are proved and not listed in a run: what they say is part
of `FifoSpec`, of what the other properties of the chain, of the list and of the
averages rest on, and of `PollEnds`. The names of two theorems, `TypesKept`,
occur in two modules: each speaks of its own `TypeOK`.

## Not modelled, and why

Parsing and formatting (JSON, XML, frames of the uplink protocols), checksums
and ciphers, hardware access, the web server itself and all third-party
libraries: no state that the properties tell apart. `threaddog.c`: nothing calls
its check. Files the Makefile does not build (`board/lua`, `board_udp.c`,
`net_broadcast.c`, `update.c`, `sx1278`, `ad7707`, `test`). `net_open` and
`net_close`, with the opening and closing of the protocols, run once, before
the threads exist; the code that would stop a thread which did not end is never
reached. Of the radio: its start (a number of attempts, each
followed by a reset, before any other thread uses it), the commands that read or
write one setting, which are all alike, and the transparent modes. The conversion of a meter's digits to a value, where the test of the
sign at `dlt645.c:254` makes every value negative whose highest byte is not 0,
has no state. Two pages of the web server open at once (`varmanage.c:2033`) and
the failing of single statements of the configuration database
(`varmanage.c:2074`) would need users and media that `VarList` does not have.

## Plan

1. **Done**: the queue and its FIFO, the storage, the list of variables, the
   collection chain, the collection tasks and the averages; proofs for all of
   them.
2. **Done**: the network thread and the sessions over it, the reports, the
   serial sensors over the queue as a mailbox; proofs for all of them.
3. `Registers`: from the answer of a slave to registers and values, with the
   flags of `__RefreshRegsFlag` and the errors counted.
   Property: values are filed under the right variable, also when the list
   changes during the transaction.
4. `CfgTable`: the registers' and variables' tables with crashes between the
   statements, deletion of all and reopening.
5. **Done**: the zigbee driver, with proofs. Left: the gprs helper, several
   troubles of the radio at once, and a change of its role at run time.
6. Proofs left: of what `Registers` and `CfgTable` will promise; that the
   sort, with the missing assignment made good, keeps any list linked.
