------------------------------- MODULE VarList -------------------------------
(***************************************************************************)
(* The list of collected variables, s_xExtDataList, of                     *)
(* drivers/varmanage/varmanage.c: a doubly linked list that every change   *)
(* sorts by mapped address, and its copy in the configuration database     *)
(* (board/cfg/board_cfg.c), from which it is built at start.               *)
(*                                                                         *)
(* Only the web server changes the list, one request at a time.  A request *)
(* of the page is one step with all the calls it makes; a restore of the   *)
(* configuration from a file writes the database line by line, between     *)
(* which the power may fail, and ends in a reboot.  The page addresses a   *)
(* variable by its position in the list it fetched; it refuses a name or   *)
(* an address another variable of that list has (reform/js/rtuset.js:      *)
(* checkVarExtName, checkVarAddr).  Every variable takes one register, and *)
(* a variable keeps its name, which therefore also stands for its node.    *)
(*                                                                         *)
(* Addresses are entered in any order, as the page and a file allow.  The  *)
(* sort leaves prev wrong wherever it moves a node, and later requests     *)
(* work on such a list too, until it comes round in a circle or leads to a *)
(* node that was freed: what the code does then is not modelled, and only  *)
(* a restart is left.                                                      *)
(***************************************************************************)
EXTENDS Integers, SequencesExt, FiniteSetsExt

CONSTANTS
    Names,      \* the names of variables
    Addrs       \* the mapped addresses, xIo.usAddr

\* A name is an array of fixed length.
ASSUME NamesAssumption == IsFiniteSet(Names) /\ "NULL" \notin Names
ASSUME AddrsAssumption == Addrs \subseteq Nat

VARIABLES
    head,       \* s_xExtDataList.pList
    n,          \* s_xExtDataList.n
    node,       \* the allocated nodes, by name: next, prev and addr
    rows,       \* TABLE_CFG_VAREXT in the order of its ids
    restoring,  \* s_cfg_recover_ing, from the first line of a variable on
    moved       \* history: has the sort moved a node since the last start?

listVars == <<head, n, node, rows, restoring, moved>>

Null == "NULL"

Node(a) == [next |-> Null, prev |-> Null, addr |-> a]
NoNodes == [c \in {} |-> Node(0)]

\* The names met from h along next; a name met twice and a node that was
\* freed end the walk.
Chain(h, nd) ==
    LET met[k \in 0 .. Cardinality(DOMAIN nd)] ==
            IF k = 0 THEN <<>>
            ELSE LET q == met[k - 1]
                     c == IF q = <<>> THEN h ELSE nd[Last(q)].next
                 IN  IF c \notin DOMAIN nd \/ c \in ToSet(q) THEN q ELSE Append(q, c)
    IN  met[Cardinality(DOMAIN nd)]

List == Chain(head, node)

-----------------------------------------------------------------------------
(***************************************************************************)
(* The assignments of the C code, on the heap nd.  An assignment through   *)
(* the null pointer is one the code tests for and skips.                   *)
(***************************************************************************)

SetNext(nd, c, to) == IF c = Null THEN nd ELSE [nd EXCEPT ![c].next = to]
SetPrev(nd, c, to) == IF c = Null THEN nd ELSE [nd EXCEPT ![c].prev = to]

\* The new node is not told of its predecessor.
InsertedOneWay(h, nd, c, a) ==
    LET all == [x \in DOMAIN nd \cup {c} |-> IF x = c THEN Node(a) ELSE nd[x]]
    IN  IF h = Null
        THEN [head |-> c, node |-> all]
        ELSE [head |-> h, node |-> SetNext(all, Last(Chain(h, nd)), c)]

\* vVarManage_InsertNode: the new node c goes after the last one.
Inserted(h, nd, c, a) ==
    LET all == [x \in DOMAIN nd \cup {c} |-> IF x = c THEN Node(a) ELSE nd[x]]
    IN  IF h = Null
        THEN [head |-> c, node |-> all]
        ELSE LET last == Last(Chain(h, nd))
             IN  [head |-> h, node |-> SetPrev(SetNext(all, last, c), c, last)]

\* vVarManage_RemoveNodeWithName, without its last test (n = 0).
Removed(h, nd, c) ==
    LET p == nd[c].prev
        x == nd[c].next
    IN  [head |-> IF p = Null THEN x ELSE h,
         node |-> Restrict(SetPrev(SetNext(nd, p, x), x, p), DOMAIN nd \ {c})]

\* The comparison is turned round.
BelongsAfter(nd, x, t) ==
    /\ nd[x].addr >= nd[t].addr
    /\ nd[t].prev # Null => nd[x].addr <= nd[nd[t].prev].addr

\* The sort's test: node x belongs just before node t.
Belongs(nd, x, t) ==
    /\ nd[x].addr <= nd[t].addr
    /\ nd[t].prev # Null => nd[x].addr >= nd[nd[t].prev].addr

\* The list goes on beginning with t.
MoveBehindHead(h, nd, c, x, t) ==
    LET out == SetPrev(SetNext(nd, c, nd[x].next), nd[x].next, c)
        in == [out EXCEPT ![x].next = t, ![x].prev = out[t].prev]
    IN  [head |-> h, node |-> SetNext(in, in[t].prev, x)]

\* The sort's assignments: x, which follows c, moves before t.
Move(h, nd, c, x, t) ==
    LET after == nd[x].next
        out == SetPrev(SetNext(nd, c, after), after, c)
        in == [out EXCEPT ![x].next = t, ![x].prev = out[t].prev]
        led == SetNext(in, in[t].prev, x)
    IN  [head |-> IF nd[t].prev = Null THEN x ELSE h,
         node |-> SetPrev(led, led[t].next, x)]

\* The first node before x that x belongs before.
PlaceFor(nd, x, h) ==
    LET q == Chain(h, nd)
        places == {i \in DOMAIN q : /\ \A j \in 1 .. i : q[j] # x
                                    /\ Belongs(nd, x, q[i])}
    IN  IF places = {} THEN Null ELSE q[Min(places)]

\* One turn of the loop of __sort_extdata_link, at node l.at.
SortTurn(l) ==
    LET x == l.node[l.at].next
        t == IF x = Null THEN Null ELSE PlaceFor(l.node, x, l.head)
        m == IF t = Null THEN l ELSE Move(l.head, l.node, l.at, x, t)
    IN  [head |-> m.head, node |-> m.node, at |-> m.node[l.at].next,
         moved |-> l.moved \/ t # Null]

\* __sort_extdata_link: every turn leaves at least one node behind.
Sorted(h, nd) ==
    LET turn[k \in 0 .. Cardinality(DOMAIN nd)] ==
            IF k = 0 THEN [head |-> h, node |-> nd, at |-> h, moved |-> FALSE]
            ELSE LET l == turn[k - 1]
                 IN  IF l.at = Null THEN l ELSE SortTurn(l)
    IN  turn[Cardinality(DOMAIN nd)]

\* From h one comes to a freed node, or round in a circle.
Broken(h, nd) ==
    LET q == Chain(h, nd)
        used == IF q = <<>> THEN {h}
                ELSE {nd[c].prev : c \in ToSet(q)} \cup {nd[Last(q)].next}
    IN  \/ ~(used \subseteq DOMAIN nd \cup {Null})
        \/ q # <<>> /\ nd[Last(q)].next # Null

\* The list becomes l, sorted; before was it already moved?
Becomes(l, before) ==
    LET sorted == IF Broken(l.head, l.node)
                  THEN [head |-> l.head, node |-> l.node, moved |-> TRUE]
                  ELSE Sorted(l.head, l.node)
    IN  /\ head' = sorted.head
        /\ node' = sorted.node
        /\ moved' = (before \/ sorted.moved)

-----------------------------------------------------------------------------

ListInit ==
    /\ head = Null
    /\ n = 0
    /\ node = NoNodes
    /\ rows = <<>>
    /\ restoring = FALSE
    /\ moved = FALSE

\* checkVarAddr: no other variable of the page's list has address a.
AddressFree(a, c) == \A d \in ToSet(List) \ {c} : node[d].addr # a

\* board_cfg_varext_del: DELETE ... WHERE name = c.
RowsWithout(table, c) ==
    LET kept[k \in 0 .. Len(table)] ==
            IF k = 0 THEN <<>>
            ELSE LET s == kept[k - 1]
                 IN  IF table[k].name = c THEN s ELSE Append(s, table[k])
    IN  kept[Len(table)]

\* board_cfg_varext_add: DELETE the name, then INSERT.
RowsAdded(c, a) == Append(RowsWithout(rows, c), [name |-> c, addr |-> a])

\* Only the name is written.
RowsRenamed(c, a) == rows

\* board_cfg_varext_update: UPDATE ... WHERE name = c.
RowsUpdated(c, a) ==
    [j \in DOMAIN rows |->
        IF rows[j].name = c THEN [rows[j] EXCEPT !.addr = a] ELSE rows[j]]

\* setVarManageExtData for a position beyond the list's count.
Add(i, c, a) ==
    /\ n < i + 1
    /\ n' = n + 1
    /\ rows' = RowsAdded(c, a)
    /\ Becomes(Inserted(head, node, c, a), moved)

\* setVarManageExtData for a position within the list's count.
UpdateVar(i, c, a) ==
    /\ n >= i + 1
    /\ rows' = RowsUpdated(c, a)
    /\ Becomes([head |-> head, node |-> [node EXCEPT ![c].addr = a]], moved)
    /\ UNCHANGED n

\* setVarManageExtData for a position within the count, but behind the end
\* of a list that has lost nodes: nothing is entered.
NotFound(i) ==
    /\ n >= i + 1
    /\ Becomes([head |-> head, node |-> node], moved)
    /\ UNCHANGED <<n, rows>>

\* The page saves a new variable at the end of its list, or an old one.
Save ==
    /\ ~restoring
    /\ ~Broken(head, node)
    /\ \E a \in Addrs :
        \/ \E c \in Names \ DOMAIN node :
            /\ AddressFree(a, c)
            /\ Add(Len(List), c, a)
        \/ NotFound(Len(List))
        \/ \E i \in DOMAIN List :
            /\ AddressFree(a, List[i])
            /\ UpdateVar(i - 1, List[i], a)
    /\ UNCHANGED restoring

\* vVarManage_RemoveNodeWithName: n--.
CountDown == n - 1

\* delVarManageExtData.
Delete(c) ==
    /\ ~restoring
    /\ ~Broken(head, node)
    /\ c \in ToSet(List)
    /\ n' = CountDown
    /\ rows' = RowsWithout(rows, c)
    /\ LET l == Removed(head, node, c)
       IN  Becomes([l EXCEPT !.head = IF n' = 0 THEN Null ELSE @], moved)
    /\ UNCHANGED restoring

\* __parse_cfg_line at the first variable of a file: board_cfg_varext_del_all,
\* varmanage_free_all.
RestoreBegin ==
    /\ ~restoring
    /\ ~Broken(head, node)
    /\ restoring' = TRUE
    /\ head' = Null
    /\ n' = 0
    /\ node' = NoNodes
    /\ rows' = <<>>
    /\ moved' = FALSE

\* cfgSetVarManageExtDataWithJson: a variable of the file.
RestoreLine(c, a) ==
    /\ restoring
    /\ rows' = RowsAdded(c, a)
    /\ UNCHANGED <<head, n, node, restoring, moved>>

\* board_cfg_varext_loadlist: the rows one after the other.
Loaded(table) ==
    LET loaded[k \in 0 .. Len(table)] ==
            IF k = 0 THEN [head |-> Null, node |-> NoNodes]
            ELSE LET l == loaded[k - 1]
                 IN  Inserted(l.head, l.node, table[k].name, table[k].addr)
    IN  loaded[Len(table)]

\* vVarManage_ExtDataInit: the load, then the sort.
Restart ==
    /\ n' = Len(rows)
    /\ Becomes(Loaded(rows), FALSE)
    /\ restoring' = FALSE
    /\ UNCHANGED rows

ListNext ==
    \/ Save
    \/ \E c \in Names : Delete(c)
    \/ RestoreBegin
    \/ \E c \in Names, a \in Addrs : RestoreLine(c, a)
    \/ Restart

ListSpec == ListInit /\ [][ListNext]_listVars

-----------------------------------------------------------------------------
ListTypeOK ==
    /\ DOMAIN node \subseteq Names
    /\ \A c \in DOMAIN node : node[c].addr \in Addrs
    /\ n \in 0 .. Cardinality(Names)
    /\ rows \in Seq([name : Names, addr : Addrs])
    /\ restoring \in BOOLEAN
    /\ moved \in BOOLEAN

(***************************************************************************)
(* s_xExtDataList.n is the number of variables the list leads to           *)
(* (varmanage.h: "int n; // 数目").  setVarManageExtData compares a        *)
(* position with it to tell a new variable from a changed one, and         *)
(* getVarManageExtData copies that many.  It is so until the sort has      *)
(* moved a node.                                                           *)
(***************************************************************************)
CountIsLength == n = Len(List)

(***************************************************************************)
(* Whatever the sort has made of the links, as long as the list can be     *)
(* walked (Broken), outside a restore the database holds the variables     *)
(* that were entered and not deleted since, each once and with its         *)
(* address, and n counts them: what the list has lost, a restart brings    *)
(* back.  The page's requests find a variable by walking the list, and     *)
(* write the database by the name they find there.                         *)
(***************************************************************************)
CfgMirrorsNodes ==
    ~restoring =>
        /\ n = Len(rows)
        /\ n = Cardinality(DOMAIN node)
        /\ ToSet(rows) =
            {[name |-> c, addr |-> node[c].addr] : c \in DOMAIN node}

(***************************************************************************)
(* Until the sort moves a node, prev is the inverse of next and only the   *)
(* head has none: what vVarManage_RemoveNodeWithName relies on to take a   *)
(* node out of the list and the sort to find a place.  The list then leads *)
(* to every node there is, and n counts them.                              *)
(***************************************************************************)
LinkedUntilMoved ==
    ~moved =>
        /\ \A i \in DOMAIN List :
            node[List[i]].prev = IF i = 1 THEN Null ELSE List[i - 1]
        /\ ToSet(List) = DOMAIN node
        /\ CountIsLength

(***************************************************************************)
(* A list in which the sort found nothing to move is in the order of the   *)
(* addresses, after every request and every start: the sort overlooks no   *)
(* node of a list that is linked both ways.                                *)
(***************************************************************************)
OrderedUnlessMoved ==
    ~moved =>
        \A i, j \in DOMAIN List :
            i < j => node[List[i]].addr < node[List[j]].addr

(***************************************************************************)
(* A new variable comes to its place by address, wherever that is, in a    *)
(* list the sort had not moved a node of before: next leads to every node  *)
(* in the order of the addresses, though prev may be wrong by then.        *)
(***************************************************************************)
EntersInOrder ==
    [][~moved /\ ~restoring /\ n' = n + 1 =>
        /\ ToSet(List') = DOMAIN node'
        /\ \A i, j \in DOMAIN List' :
            i < j => node'[List'[i]].addr < node'[List'[j]].addr]_listVars
=============================================================================
