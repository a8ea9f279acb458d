------------------------------- MODULE SyncLink ------------------------------
(***************************************************************************)
(* The collection chain of one modbus slave (drivers/varmanage/            *)
(* varmanage.c): __creat_sync_slave_link enters every enabled variable     *)
(* into a list ordered by register address, then joins neighbours that     *)
(* touch or overlap into one frame of at most _SYNC_EXT_MAX_SIZE           *)
(* registers.  The polling task reads the frames one after the other.      *)
(*                                                                         *)
(* The whole construction is one critical section; its steps are those of  *)
(* the two loops.  A variable's position in the list of variables, which   *)
(* is sorted by mapped address, says nothing of its register address, so   *)
(* variables are entered in any order.  usAddrOfs is left out: it only     *)
(* keeps two equal frames apart, which are joined later.                   *)
(***************************************************************************)
EXTENDS Integers, SequencesExt

CONSTANTS
    Vars,       \* the variables that may be enabled for this slave
    Addrs,      \* register addresses, usExtAddr
    Sizes,      \* registers a variable takes, (btVarSize + 1) / 2
    MaxSize,    \* _SYNC_EXT_MAX_SIZE
    Word        \* 2^16: addr_a and addr_b are var_uint16_t

ASSUME AddrsAssumption == Addrs \subseteq Nat /\ Sizes \subseteq Nat \ {0}
ASSUME MaxSizeAssumption == MaxSize \in Nat
ASSUME WordAssumption == Word \in Nat \ {0}

VARIABLES
    cfg,        \* the registers of the enabled variables
    todo,       \* the variables not entered yet
    link,       \* ext_list: the frames, in order
    at          \* node_ext of the trimming loop: a position; 0 before it

vars == <<cfg, todo, link, at>>

Frames == [addr : Addrs, size : Nat]

End(e) == e.addr + e.size

Registers == [addr : Addrs, size : Sizes]

Configurations == UNION {[S -> Registers] : S \in SUBSET Vars}

Init ==
    /\ cfg \in Configurations
    /\ todo = DOMAIN cfg
    /\ link = <<>>
    /\ at = 0

-----------------------------------------------------------------------------
(***************************************************************************)
(* __add_sync_ext_node.                                                    *)
(***************************************************************************)

\* The frame equal to e, met before any frame beyond e, that e is dropped for.
Duplicate(e) ==
    \E i \in DOMAIN link :
        /\ link[i] = e
        /\ \A j \in 1 .. i : link[j].addr <= e.addr

\* Position k is the first whose frame lies beyond e, or the end.
FirstBeyond(k, e) ==
    /\ k \in 1 .. Len(link) + 1
    /\ \A j \in 1 .. k - 1 : link[j].addr <= e.addr
    /\ k <= Len(link) => e.addr < link[k].addr

\* The new frame goes to the head of the list wherever it belongs.
EnterAtHead(v) ==
    /\ at = 0 /\ v \in todo
    /\ todo' = todo \ {v}
    /\ link' = IF Duplicate(cfg[v]) THEN link ELSE InsertAt(link, 1, cfg[v])
    /\ UNCHANGED <<cfg, at>>

Enter(v) ==
    /\ at = 0
    /\ v \in todo
    /\ todo' = todo \ {v}
    /\ IF Duplicate(cfg[v])
       THEN UNCHANGED link
       ELSE \E k \in 1 .. Len(link) + 1 :
                /\ FirstBeyond(k, cfg[v])
                /\ link' = InsertAt(link, k, cfg[v])
    /\ UNCHANGED <<cfg, at>>

-----------------------------------------------------------------------------
(***************************************************************************)
(* __trim_sync_slave_link.                                                 *)
(***************************************************************************)

\* The trimming does not wait for the last variable.
StartTrimEarly ==
    /\ at = 0
    /\ at' = 1
    /\ UNCHANGED <<cfg, todo, link>>

StartTrim ==
    /\ at = 0
    /\ todo = {}
    /\ at' = 1
    /\ UNCHANGED <<cfg, todo, link>>

This == link[at]
Following == link[at + 1]
Trimming == at \in 1 .. Len(link) - 1

\* Frames with a register between them are joined as well.
TouchOrNear == End(This) + 1 >= Following.addr

\* addr + size >= next->addr, in ints.
Touch == End(This) >= Following.addr

\* addr_a and addr_b.
EndOfThis == End(This) % Word
EndOfFollowing == End(Following) % Word

\* The length of the two frames in one, in ints.
JointSize == EndOfFollowing - This.addr

\* The frame may become one register too long.
OneTooLong == JointSize <= MaxSize + 1

\* The longest frame allowed is not used.
OneTooShort == JointSize < MaxSize

FitsAFrame == JointSize <= MaxSize

StepOver ==
    /\ at' = at + 1
    /\ UNCHANGED <<cfg, todo, link>>

\* The following frame ends later: the two become one, if that is not too
\* long.
Join ==
    /\ Trimming
    /\ Touch
    /\ EndOfThis < EndOfFollowing
    /\ FitsAFrame
    /\ link' = RemoveAt([link EXCEPT ![at].size = JointSize], at + 1)
    /\ UNCHANGED <<cfg, todo, at>>

TooLong ==
    /\ Trimming
    /\ Touch
    /\ EndOfThis < EndOfFollowing
    /\ ~FitsAFrame
    /\ StepOver

\* A frame that swallows the following one only looks at where they start.
SwallowAny ==
    /\ Trimming /\ Touch
    /\ link' = RemoveAt(link, at + 1)
    /\ UNCHANGED <<cfg, todo, at>>

\* The following frame ends no later: it is dropped.
Swallow ==
    /\ Trimming
    /\ Touch
    /\ EndOfThis >= EndOfFollowing
    /\ link' = RemoveAt(link, at + 1)
    /\ UNCHANGED <<cfg, todo, at>>

Apart ==
    /\ Trimming
    /\ ~Touch
    /\ StepOver

\* The construction is over.
Done == at > 0 /\ ~Trimming

\* The web page disables or deletes a variable, or enters or changes one,
\* and the chain is built anew.
Rebuild(v) ==
    /\ Done
    /\ \/ cfg' = Restrict(cfg, DOMAIN cfg \ {v})
       \/ \E e \in Registers :
            cfg' = [w \in DOMAIN cfg \cup {v} |-> IF w = v THEN e ELSE cfg[w]]
    /\ todo' = DOMAIN cfg'
    /\ link' = <<>>
    /\ at' = 0

Next ==
    \/ \E v \in Vars : Enter(v)
    \/ StartTrim
    \/ Join
    \/ TooLong
    \/ Swallow
    \/ Apart
    \/ \E v \in Vars : Rebuild(v)

Spec == Init /\ [][Next]_vars

-----------------------------------------------------------------------------
TypeOK ==
    /\ cfg \in Configurations
    /\ todo \subseteq DOMAIN cfg
    /\ link \in Seq(Frames)
    /\ at \in Nat
    /\ at > 0 => todo = {}

\* e covers the registers of v.
Covers(e, v) == e.addr <= v.addr /\ End(v) <= End(e)

(***************************************************************************)
(* Every variable entered is read, and whole, by one frame: the comment of *)
(* __trim_sync_slave_link has it that the problem of registers that are    *)
(* not collected is dealt with.                                            *)
(***************************************************************************)
EveryVariableRead ==
    \A v \in DOMAIN cfg \ todo : \E i \in DOMAIN link : Covers(link[i], cfg[v])

(***************************************************************************)
(* A frame asks for no register between variables: a slave answers a read  *)
(* of a register it does not have with an exception, and the whole frame   *)
(* fails.                                                                  *)
(***************************************************************************)
NoStrayRegister ==
    \A i \in DOMAIN link : \A r \in link[i].addr .. End(link[i]) - 1 :
        \E v \in DOMAIN cfg \ todo : cfg[v].addr <= r /\ r < End(cfg[v])

(***************************************************************************)
(* No frame joined from several is longer than _SYNC_EXT_MAX_SIZE ("reads  *)
(* at most 32 registers at a time").                                       *)
(***************************************************************************)
FramesFit ==
    \A i \in DOMAIN link :
        link[i].size <= MaxSize \/ \E v \in DOMAIN cfg : link[i] = cfg[v]

(***************************************************************************)
(* The frames are in the order of their addresses, as the comment of       *)
(* ext_list says; the trimming loop only compares neighbours.              *)
(***************************************************************************)
Ordered ==
    \A i, j \in DOMAIN link : i < j => link[i].addr <= link[j].addr

(***************************************************************************)
(* When the chain is built no two neighbours are left that one frame could *)
(* read: the loop, which never goes back, misses none.                     *)
(***************************************************************************)
NothingLeftToJoin ==
    Done => \A i \in 1 .. Len(link) - 1 :
                \/ End(link[i]) < link[i + 1].addr
                \/ End(link[i + 1]) - link[i].addr > MaxSize
=============================================================================
