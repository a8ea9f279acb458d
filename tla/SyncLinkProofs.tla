--------------------------- MODULE SyncLinkProofs ----------------------------
(***************************************************************************)
(* Proofs about SyncLink for every set of variables, addresses and sizes   *)
(* whose registers lie below the last one a 16-bit end can name.           *)
(***************************************************************************)
EXTENDS SyncLink, SequenceTheorems, TLAPS

\* No variable ends at or beyond 2^16: the ends the loop compares are true.
NoWrap == \A a \in Addrs, s \in Sizes : a + s < Word

-----------------------------------------------------------------------------
(***************************************************************************)
(* Sequences.                                                              *)
(***************************************************************************)

\* InsertAt puts one element at k and moves the rest up by one.
LEMMA InsertedAt ==
    ASSUME NEW S, NEW s \in Seq(S), NEW k \in 1 .. Len(s) + 1, NEW e \in S
    PROVE  LET t == InsertAt(s, k, e)
           IN  /\ t \in Seq(S)
               /\ Len(t) = Len(s) + 1
               /\ \A i \in 1 .. k - 1 : t[i] = s[i]
               /\ t[k] = e
               /\ \A i \in k + 1 .. Len(s) + 1 : t[i] = s[i - 1]
<1> DEFINE front == SubSeq(s, 1, k - 1)
           back == SubSeq(s, k, Len(s))
<1>1. /\ front \in Seq(S)
      /\ Len(front) = k - 1
      /\ \A i \in 1 .. k - 1 : front[i] = s[i]
  BY SubSeqProperties, ElementOfSeq
<1>2. /\ back \in Seq(S)
      /\ Len(back) = Len(s) - k + 1
      /\ \A i \in 1 .. Len(s) - k + 1 : back[i] = s[k + i - 1]
  BY SubSeqProperties, ElementOfSeq
<1>3. <<e>> \in Seq(S) /\ Len(<<e>>) = 1 /\ <<e>>[1] = e
  OBVIOUS
<1>4. InsertAt(s, k, e) = front \o <<e>> \o back
  BY DEF InsertAt
<1> HIDE DEF front, back
<1>5. /\ front \o <<e>> \in Seq(S)
      /\ Len(front \o <<e>>) = k
      /\ \A i \in 1 .. k - 1 : (front \o <<e>>)[i] = s[i]
      /\ (front \o <<e>>)[k] = e
  BY <1>1, <1>3, ConcatProperties
<1> DEFINE led == front \o <<e>>
           t == led \o back
<1> HIDE DEF led
<1>6. /\ t \in Seq(S)
      /\ Len(t) = Len(s) + 1
      /\ \A i \in 1 .. Len(s) + 1 :
            t[i] = IF i <= k THEN led[i] ELSE back[i - k]
  <2>1. led \in Seq(S) /\ Len(led) = k
    BY <1>5 DEF led
  <2>2. Len(led) + Len(back) = Len(s) + 1
    BY <1>2, <2>1
  <2>3. /\ t \in Seq(S)
        /\ Len(t) = Len(led) + Len(back)
        /\ \A i \in 1 .. Len(led) + Len(back) :
              t[i] = IF i <= Len(led) THEN led[i] ELSE back[i - Len(led)]
    BY <1>2, <2>1, ConcatProperties
  <2>4. QED
    BY <2>1, <2>2, <2>3
<1> HIDE DEF t
<1>7. t = InsertAt(s, k, e)
  BY <1>4 DEF t, led
<1>8. \A i \in k + 1 .. Len(s) + 1 : t[i] = s[i - 1]
  <2> TAKE i \in k + 1 .. Len(s) + 1
  <2>1. t[i] = back[i - k]
    BY <1>6
  <2>2. i - k \in 1 .. Len(s) - k + 1
    OBVIOUS
  <2>3. QED
    BY <1>2, <2>1, <2>2
<1>9. (\A i \in 1 .. k - 1 : t[i] = s[i]) /\ t[k] = e
  BY <1>5, <1>6 DEF led
<1>10. QED
  BY <1>6, <1>7, <1>8, <1>9

\* RemoveAt takes the element at k out and moves the rest down by one.
LEMMA RemovedAt ==
    ASSUME NEW S, NEW s \in Seq(S), NEW k \in 1 .. Len(s)
    PROVE  LET t == RemoveAt(s, k)
           IN  /\ t \in Seq(S)
               /\ Len(t) = Len(s) - 1
               /\ \A i \in 1 .. k - 1 : t[i] = s[i]
               /\ \A i \in k .. Len(s) - 1 : t[i] = s[i + 1]
<1> DEFINE front == SubSeq(s, 1, k - 1)
           back == SubSeq(s, k + 1, Len(s))
<1>1. /\ front \in Seq(S)
      /\ Len(front) = k - 1
      /\ \A i \in 1 .. k - 1 : front[i] = s[i]
  BY SubSeqProperties, ElementOfSeq
<1>2. /\ back \in Seq(S)
      /\ Len(back) = Len(s) - k
      /\ \A i \in 1 .. Len(s) - k : back[i] = s[k + i]
  BY SubSeqProperties, ElementOfSeq
<1>3. RemoveAt(s, k) = front \o back
  BY DEF RemoveAt
<1> HIDE DEF front, back
<1> DEFINE t == front \o back
<1>4. /\ t \in Seq(S)
      /\ Len(t) = Len(s) - 1
      /\ \A i \in 1 .. Len(s) - 1 :
            t[i] = IF i <= k - 1 THEN front[i] ELSE back[i - (k - 1)]
  <2>1. Len(front) + Len(back) = Len(s) - 1
    BY <1>1, <1>2
  <2>2. /\ t \in Seq(S)
        /\ Len(t) = Len(front) + Len(back)
        /\ \A i \in 1 .. Len(front) + Len(back) :
              t[i] = IF i <= Len(front)
                     THEN front[i] ELSE back[i - Len(front)]
    BY <1>1, <1>2, ConcatProperties
  <2>3. QED
    BY <1>1, <2>1, <2>2
<1> HIDE DEF t
<1>5. t = RemoveAt(s, k)
  BY <1>3 DEF t
<1>6. \A i \in k .. Len(s) - 1 : t[i] = s[i + 1]
  <2> TAKE i \in k .. Len(s) - 1
  <2>1. t[i] = back[i - (k - 1)]
    BY <1>4
  <2>2. i - (k - 1) \in 1 .. Len(s) - k
    OBVIOUS
  <2>3. QED
    BY <1>2, <2>1, <2>2
<1>7. \A i \in 1 .. k - 1 : t[i] = s[i]
  BY <1>1, <1>4
<1>8. QED
  BY <1>4, <1>5, <1>6, <1>7

-----------------------------------------------------------------------------
(***************************************************************************)
(* Chains of frames.                                                       *)
(***************************************************************************)

\* The fields of a frame are natural numbers.
LEMMA FrameAt ==
    ASSUME NEW s \in Seq(Frames), NEW i \in 1 .. Len(s)
    PROVE  /\ s[i] \in Frames
           /\ s[i].addr \in Nat
           /\ s[i].size \in Nat
<1>1. s[i] \in Frames
  BY ElementOfSeq
<1>2. QED
  BY <1>1, AddrsAssumption DEF Frames

InOrder(s) == \A i, j \in DOMAIN s : i < j => s[i].addr <= s[j].addr

\* A frame entered where __add_sync_ext_node enters it keeps the order, and
\* the chain has the frames it had and the new one.
LEMMA EnteredChain ==
    ASSUME NEW s \in Seq(Frames), InOrder(s),
           NEW e \in Frames, NEW k \in 1 .. Len(s) + 1,
           \A j \in 1 .. k - 1 : s[j].addr <= e.addr,
           k <= Len(s) => e.addr < s[k].addr
    PROVE  LET t == InsertAt(s, k, e)
           IN  /\ t \in Seq(Frames)
               /\ InOrder(t)
               /\ \A i \in DOMAIN s : \E j \in DOMAIN t : t[j] = s[i]
               /\ \E j \in DOMAIN t : t[j] = e
               /\ \A j \in DOMAIN t : t[j] = e \/ \E i \in DOMAIN s : t[j] = s[i]
<1> DEFINE t == InsertAt(s, k, e)
<1>1. /\ t \in Seq(Frames)
      /\ Len(t) = Len(s) + 1
      /\ \A i \in 1 .. k - 1 : t[i] = s[i]
      /\ t[k] = e
      /\ \A i \in k + 1 .. Len(s) + 1 : t[i] = s[i - 1]
  BY InsertedAt
<1> HIDE DEF t
<1>2. DOMAIN s = 1 .. Len(s) /\ DOMAIN t = 1 .. Len(s) + 1
  BY <1>1
<1>3. \A i \in 1 .. Len(s) : s[i].addr \in Nat
  BY FrameAt
<1>4. e.addr \in Nat
  BY AddrsAssumption DEF Frames
<1>5. InOrder(t)
  <2> SUFFICES ASSUME NEW i \in 1 .. Len(s) + 1, NEW j \in 1 .. Len(s) + 1,
                      i < j
               PROVE  t[i].addr <= t[j].addr
    BY <1>2 DEF InOrder
  <2>1. CASE j < k
    BY <2>1, <1>1, <1>2 DEF InOrder
  <2>2. CASE j = k
    BY <2>2, <1>1
  <2>3. CASE j > k
    <3>1. t[j] = s[j - 1] /\ j - 1 \in k .. Len(s)
      BY <2>3, <1>1
    <3>2. e.addr < s[k].addr /\ k \in 1 .. Len(s)
      BY <3>1
    <3>3. s[k].addr <= s[j - 1].addr
      <4>1. CASE k = j - 1
        BY <4>1, <3>2, <1>3
      <4>2. CASE k < j - 1
        <5>1. k \in DOMAIN s /\ j - 1 \in DOMAIN s
          BY <3>1, <3>2, <1>2
        <5>2. QED
          BY <4>2, <5>1 DEF InOrder
      <4>3. QED
        BY <4>1, <4>2, <3>1
    <3>4. CASE i = k
      BY <3>1, <3>2, <3>3, <3>4, <1>1, <1>3, <1>4
    <3>5. CASE i < k
      BY <3>1, <3>5, <1>1, <1>2 DEF InOrder
    <3>6. CASE i > k
      <4>1. i - 1 \in DOMAIN s /\ j - 1 \in DOMAIN s /\ i - 1 < j - 1
        BY <3>1, <3>6, <1>2
      <4>2. s[i - 1].addr <= s[j - 1].addr
        BY <4>1 DEF InOrder
      <4>3. t[i] = s[i - 1]
        BY <3>6, <1>1
      <4>4. QED
        BY <3>1, <4>2, <4>3
    <3>7. QED
      BY <3>4, <3>5, <3>6
  <2>4. QED
    BY <2>1, <2>2, <2>3
<1>6. \A i \in DOMAIN s : \E j \in DOMAIN t : t[j] = s[i]
  <2> TAKE i \in DOMAIN s
  <2>1. CASE i < k
    <3>1. i \in DOMAIN t /\ t[i] = s[i]
      BY <2>1, <1>1, <1>2
    <3>2. QED
      BY <3>1
  <2>2. CASE i >= k
    <3>1. i + 1 \in DOMAIN t /\ t[i + 1] = s[i]
      BY <2>2, <1>1, <1>2
    <3>2. QED
      BY <3>1
  <2>3. QED
    BY <2>1, <2>2, <1>2
<1>7. \E j \in DOMAIN t : t[j] = e
  BY <1>1, <1>2
<1>8. \A j \in DOMAIN t : t[j] = e \/ \E i \in DOMAIN s : t[j] = s[i]
  <2> TAKE j \in DOMAIN t
  <2>1. CASE j < k
    BY <2>1, <1>1, <1>2
  <2>2. CASE j = k
    BY <2>2, <1>1
  <2>3. CASE j > k
    <3>1. j - 1 \in DOMAIN s /\ t[j] = s[j - 1]
      BY <2>3, <1>1, <1>2
    <3>2. QED
      BY <3>1
  <2>4. QED
    BY <2>1, <2>2, <2>3, <1>2
<1>9. QED
  BY <1>1, <1>5, <1>6, <1>7, <1>8 DEF t

\* Frames p and p + 1 become frame f, which starts where frame p does.
Joined(s, p, f) == RemoveAt([s EXCEPT ![p] = f], p + 1)

\* The chain keeps its order and its other frames.
LEMMA JoinedChain ==
    ASSUME NEW s \in Seq(Frames), InOrder(s), NEW p \in 1 .. Len(s) - 1,
           NEW f \in Frames, f.addr = s[p].addr
    PROVE  LET t == Joined(s, p, f)
           IN  /\ t \in Seq(Frames)
               /\ Len(t) = Len(s) - 1
               /\ InOrder(t)
               /\ \A i \in 1 .. p - 1 : t[i] = s[i]
               /\ t[p] = f
               /\ \A i \in p + 1 .. Len(s) - 1 : t[i] = s[i + 1]
<1> DEFINE r == [s EXCEPT ![p] = f]
           t == Joined(s, p, f)
<1>1. /\ r \in Seq(Frames)
      /\ Len(r) = Len(s)
      /\ \A i \in 1 .. Len(s) : r[i] = IF i = p THEN f ELSE s[i]
  BY ExceptSeq
<1> HIDE DEF r
<1>2. p + 1 \in 1 .. Len(r)
  BY <1>1
<1>3. /\ t \in Seq(Frames)
      /\ Len(t) = Len(s) - 1
      /\ \A i \in 1 .. p : t[i] = r[i]
      /\ \A i \in p + 1 .. Len(s) - 1 : t[i] = r[i + 1]
  <2>1. t = RemoveAt(r, p + 1)
    BY DEF Joined, r
  <2> DEFINE u == RemoveAt(r, p + 1)
  <2>2. /\ u \in Seq(Frames)
        /\ Len(u) = Len(r) - 1
        /\ \A i \in 1 .. p + 1 - 1 : u[i] = r[i]
        /\ \A i \in p + 1 .. Len(r) - 1 : u[i] = r[i + 1]
    BY <1>1, <1>2, RemovedAt
  <2>3. p + 1 - 1 = p
    OBVIOUS
  <2> HIDE DEF t, u
  <2>4. t = u
    BY <2>1 DEF u
  <2>5. QED
    BY <1>1, <2>2, <2>3, <2>4
<1> HIDE DEF t
<1>4. /\ \A i \in 1 .. p - 1 : t[i] = s[i]
      /\ t[p] = f
      /\ \A i \in p + 1 .. Len(s) - 1 : t[i] = s[i + 1]
  BY <1>1, <1>3
<1>5. DOMAIN s = 1 .. Len(s) /\ DOMAIN t = 1 .. Len(s) - 1
  BY <1>3
<1>6. \A i \in 1 .. Len(s) - 1 :
        t[i].addr = IF i <= p THEN s[i].addr ELSE s[i + 1].addr
  BY <1>4
<1>7. InOrder(t)
  <2> SUFFICES ASSUME NEW i \in 1 .. Len(s) - 1, NEW j \in 1 .. Len(s) - 1,
                      i < j
               PROVE  t[i].addr <= t[j].addr
    BY <1>5 DEF InOrder
  <2> DEFINE a == IF i <= p THEN i ELSE i + 1
             b == IF j <= p THEN j ELSE j + 1
  <2>1. a \in DOMAIN s /\ b \in DOMAIN s /\ a < b
    BY <1>5
  <2>2. t[i].addr = s[a].addr /\ t[j].addr = s[b].addr
    BY <1>6
  <2> HIDE DEF a, b
  <2>3. QED
    BY <2>1, <2>2 DEF InOrder
<1>8. QED
  BY <1>3, <1>4, <1>7 DEF t

\* If f covers the two frames it stands for, everything stays covered.
LEMMA JoinedCovers ==
    ASSUME NEW s \in Seq(Frames), InOrder(s), NEW p \in 1 .. Len(s) - 1,
           NEW f \in Frames, f.addr = s[p].addr,
           Covers(f, s[p]), Covers(f, s[p + 1]),
           NEW i \in DOMAIN s
    PROVE  \E j \in DOMAIN Joined(s, p, f) : Covers(Joined(s, p, f)[j], s[i])
<1> DEFINE t == Joined(s, p, f)
<1> SUFFICES \E j \in DOMAIN t : Covers(t[j], s[i])
  OBVIOUS
<1>1. /\ t \in Seq(Frames)
      /\ Len(t) = Len(s) - 1
      /\ \A j \in 1 .. p - 1 : t[j] = s[j]
      /\ t[p] = f
      /\ \A j \in p + 1 .. Len(s) - 1 : t[j] = s[j + 1]
  BY JoinedChain
<1> HIDE DEF t
<1>2. DOMAIN t = 1 .. Len(s) - 1 /\ i \in 1 .. Len(s)
  BY <1>1
<1>3. s[i].addr \in Nat /\ s[i].size \in Nat
  BY <1>2, FrameAt
<1>4. Covers(s[i], s[i])
  BY <1>3 DEF Covers, End
<1>5. CASE i < p
  BY <1>1, <1>2, <1>4, <1>5
<1>6. CASE i = p
  BY <1>1, <1>2, <1>6
<1>7. CASE i = p + 1
  BY <1>1, <1>2, <1>7
<1>8. CASE i > p + 1
  <2>1. i - 1 \in DOMAIN t /\ t[i - 1] = s[i]
    BY <1>1, <1>2, <1>8
  <2>2. QED
    BY <1>4, <2>1
<1>9. QED
  BY <1>2, <1>5, <1>6, <1>7, <1>8
-----------------------------------------------------------------------------
(***************************************************************************)
(* The inductive invariant.                                                *)
(***************************************************************************)

\* The ends of frames are those of variables.
InWord == \A i \in DOMAIN link : End(link[i]) < Word

\* The loop has done with the neighbours it has passed.
Separate(e, f) == End(e) < f.addr \/ End(f) - e.addr > MaxSize

JoinedSoFar ==
    \A i \in 1 .. at - 1 : i < Len(link) => Separate(link[i], link[i + 1])

IInv ==
    /\ TypeOK
    /\ Ordered
    /\ InWord
    /\ EveryVariableRead
    /\ NoStrayRegister
    /\ FramesFit
    /\ JoinedSoFar

\* A configuration gives each of its variables registers of its own.
LEMMA ConfigurationOf ==
    ASSUME NEW c \in Configurations
    PROVE  /\ DOMAIN c \subseteq Vars
           /\ \A v \in DOMAIN c : c[v] \in Registers
BY DEF Configurations

\* A 16-bit end below 2^16 is the end.
LEMMA SmallEnd ==
    ASSUME NEW a \in Nat, a < Word
    PROVE  a % Word = a
BY WordAssumption

\* A variable's registers are a frame, whose end is below 2^16.
LEMMA RegistersFrame ==
    ASSUME NoWrap, NEW e \in Registers
    PROVE  /\ e \in Frames
           /\ e.addr \in Nat /\ e.size \in Nat
           /\ End(e) < Word
           /\ Covers(e, e)
<1>1. e.addr \in Addrs /\ e.size \in Sizes /\ e \in Frames
  BY AddrsAssumption DEF Registers, Frames
<1>2. e.addr \in Nat /\ e.size \in Nat
  BY <1>1, AddrsAssumption
<1>3. End(e) < Word
  BY <1>1 DEF NoWrap, End
<1>4. Covers(e, e)
  BY <1>2 DEF Covers, End
<1>5. QED
  BY <1>1, <1>2, <1>3, <1>4

LEMMA InvInit ==
    ASSUME Init
    PROVE  IInv
<1>1. link = <<>> /\ Len(link) = 0 /\ DOMAIN link = {}
  BY DEF Init
<1>2. TypeOK
  BY EmptySeq, <1>1 DEF Init, TypeOK
<1>3. Ordered /\ InWord /\ NoStrayRegister /\ FramesFit
  BY <1>1 DEF Ordered, InWord, NoStrayRegister, FramesFit
<1>4. EveryVariableRead
  BY DEF Init, EveryVariableRead
<1>5. JoinedSoFar
  BY DEF Init, JoinedSoFar
<1>6. QED
  BY <1>2, <1>3, <1>4, <1>5 DEF IInv

\* Entering a variable.
LEMMA InvEnter ==
    ASSUME NoWrap, IInv, NEW v \in Vars, Enter(v)
    PROVE  IInv'
<1> DEFINE e == cfg[v]
<1>1. /\ v \in DOMAIN cfg
      /\ link \in Seq(Frames)
      /\ at = 0 /\ at' = 0 /\ cfg' = cfg /\ todo' = todo \ {v}
      /\ todo \subseteq DOMAIN cfg
      /\ cfg \in Configurations
  BY DEF IInv, TypeOK, Enter
<1>2. e \in Registers
  BY <1>1, ConfigurationOf
<1>3. /\ e \in Frames
      /\ e.addr \in Nat /\ e.size \in Nat
      /\ End(e) < Word
      /\ Covers(e, e)
  BY <1>2, RegistersFrame
<1> SUFFICES ASSUME /\ link' \in Seq(Frames)
                    /\ InOrder(link')
                    /\ \A i \in DOMAIN link : \E j \in DOMAIN link' :
                            link'[j] = link[i]
                    /\ \E j \in DOMAIN link' : link'[j] = e
                    /\ \A j \in DOMAIN link' :
                            \/ link'[j] = e
                            \/ \E i \in DOMAIN link : link'[j] = link[i]
             PROVE  IInv'
  <2>1. CASE Duplicate(e)
    <3>1. link' = link /\ \E j \in DOMAIN link : link[j] = e
      BY <2>1 DEF Enter, Duplicate
    <3>2. InOrder(link')
      BY <3>1 DEF IInv, Ordered, InOrder
    <3>3. QED
      BY <1>1, <3>1, <3>2
  <2>2. CASE ~Duplicate(e)
    <3>1. PICK k \in 1 .. Len(link) + 1 :
            FirstBeyond(k, e) /\ link' = InsertAt(link, k, e)
      BY <2>2 DEF Enter
    <3>2. /\ \A j \in 1 .. k - 1 : link[j].addr <= e.addr
          /\ k <= Len(link) => e.addr < link[k].addr
      BY <3>1 DEF FirstBeyond
    <3>3. InOrder(link)
      BY DEF IInv, Ordered, InOrder
    <3> HIDE DEF e
    <3>4. QED
      BY <1>1, <1>3, <3>1, <3>2, <3>3, EnteredChain
  <2>3. QED
    BY <2>1, <2>2
<1>4. TypeOK'
  BY <1>1 DEF TypeOK
<1>5. Ordered'
  BY DEF Ordered, InOrder
<1>6. InWord'
  BY <1>3 DEF IInv, InWord
<1>7. EveryVariableRead'
  <2> SUFFICES ASSUME NEW w \in DOMAIN cfg \ (todo \ {v})
               PROVE  \E j \in DOMAIN link' : Covers(link'[j], cfg[w])
    BY <1>1 DEF EveryVariableRead
  <2>1. CASE w = v
    BY <2>1, <1>3
  <2>2. CASE w # v
    <3>1. PICK i \in DOMAIN link : Covers(link[i], cfg[w])
      BY <2>2 DEF IInv, EveryVariableRead
    <3>2. QED
      BY <3>1
  <2>3. QED
    BY <2>1, <2>2
<1>8. NoStrayRegister'
  <2> SUFFICES ASSUME NEW j \in DOMAIN link',
                      NEW r \in link'[j].addr .. End(link'[j]) - 1
               PROVE  \E w \in DOMAIN cfg \ (todo \ {v}) :
                            cfg[w].addr <= r /\ r < End(cfg[w])
    BY <1>1 DEF NoStrayRegister
  <2>1. CASE link'[j] = e
    <3>1. e.addr <= r /\ r < End(e)
      BY <2>1, <1>3 DEF End
    <3>2. v \in DOMAIN cfg \ (todo \ {v})
      BY <1>1
    <3>3. QED
      BY <3>1, <3>2
  <2>2. CASE \E i \in DOMAIN link : link'[j] = link[i]
    BY <2>2 DEF IInv, NoStrayRegister
  <2>3. QED
    BY <2>1, <2>2
<1>9. FramesFit'
  <2> SUFFICES ASSUME NEW j \in DOMAIN link'
               PROVE  \/ link'[j].size <= MaxSize
                      \/ \E w \in DOMAIN cfg : link'[j] = cfg[w]
    BY <1>1 DEF FramesFit
  <2>1. CASE link'[j] = e
    BY <2>1, <1>1
  <2>2. CASE \E i \in DOMAIN link : link'[j] = link[i]
    BY <2>2 DEF IInv, FramesFit
  <2>3. QED
    BY <2>1, <2>2
<1>10. JoinedSoFar'
  BY <1>1 DEF JoinedSoFar
<1>11. QED
  BY <1>4, <1>5, <1>6, <1>7, <1>8, <1>9, <1>10 DEF IInv

\* Joining two frames, or dropping one inside another: frame f, which starts
\* where frame at does, covers both and asks for nothing else.
LEMMA InvJoined ==
    ASSUME IInv, Trimming, UNCHANGED <<cfg, todo, at>>,
           NEW f \in Frames, link' = Joined(link, at, f),
           f.addr = This.addr,
           Covers(f, This), Covers(f, Following),
           End(f) < Word,
           f.size <= MaxSize \/ f = This,
           End(f) <= End(This) \/ (Touch /\ End(f) <= End(Following))
    PROVE  IInv'
<1>1. /\ link \in Seq(Frames)
      /\ at \in 1 .. Len(link) - 1
      /\ InOrder(link)
      /\ DOMAIN link = 1 .. Len(link)
  BY DEF IInv, TypeOK, Trimming, Ordered, InOrder
<1>2. /\ link' \in Seq(Frames)
      /\ Len(link') = Len(link) - 1
      /\ InOrder(link')
      /\ \A i \in 1 .. at - 1 : link'[i] = link[i]
      /\ link'[at] = f
      /\ \A i \in at + 1 .. Len(link) - 1 : link'[i] = link[i + 1]
  BY <1>1, JoinedChain DEF This
<1>3. DOMAIN link' = 1 .. Len(link) - 1
  BY <1>2
<1>4. \A i \in DOMAIN link : \E j \in DOMAIN link' : Covers(link'[j], link[i])
  BY <1>1, JoinedCovers DEF This, Following
<1>5. /\ This.addr \in Nat /\ This.size \in Nat
      /\ Following.addr \in Nat /\ Following.size \in Nat
      /\ f.addr \in Nat /\ f.size \in Nat
  <2>1. at \in 1 .. Len(link) /\ at + 1 \in 1 .. Len(link)
    BY <1>1
  <2>2. f.addr \in Nat /\ f.size \in Nat
    BY AddrsAssumption DEF Frames
  <2>3. QED
    BY <1>1, <2>1, <2>2, FrameAt DEF This, Following
<1>6. ASSUME NEW j \in DOMAIN link', j # at
      PROVE  \E i \in DOMAIN link : link'[j] = link[i]
  <2>1. CASE j < at
    BY <2>1, <1>1, <1>2, <1>3
  <2>2. CASE j > at
    <3>1. j + 1 \in DOMAIN link /\ link'[j] = link[j + 1]
      BY <2>2, <1>1, <1>2, <1>3
    <3>2. QED
      BY <3>1
  <2>3. QED
    BY <2>1, <2>2, <1>6, <1>1, <1>3
<1>7. TypeOK'
  BY <1>2 DEF IInv, TypeOK
<1>8. Ordered'
  BY <1>2 DEF Ordered, InOrder
<1>9. InWord'
  <2> SUFFICES ASSUME NEW j \in DOMAIN link'
               PROVE  End(link'[j]) < Word
    BY DEF InWord
  <2>1. CASE j = at
    BY <2>1, <1>2
  <2>2. CASE j # at
    BY <2>2, <1>6 DEF IInv, InWord
  <2>3. QED
    BY <2>1, <2>2
<1>10. EveryVariableRead'
  <2> SUFFICES ASSUME NEW v \in DOMAIN cfg \ todo
               PROVE  \E j \in DOMAIN link' : Covers(link'[j], cfg[v])
    BY DEF EveryVariableRead
  <2>1. PICK i \in DOMAIN link : Covers(link[i], cfg[v])
    BY DEF IInv, EveryVariableRead
  <2>2. PICK j \in DOMAIN link' : Covers(link'[j], link[i])
    BY <1>4
  <2>3. /\ link[i].addr \in Nat /\ link[i].size \in Nat
        /\ link'[j].addr \in Nat /\ link'[j].size \in Nat
    BY <1>1, <1>2, <1>3, FrameAt
  <2>4. /\ cfg[v].addr \in Nat /\ cfg[v].size \in Nat
    BY ConfigurationOf, AddrsAssumption DEF IInv, TypeOK, Registers
  <2>5. Covers(link'[j], cfg[v])
    BY <2>1, <2>2, <2>3, <2>4 DEF Covers, End
  <2>6. QED
    BY <2>5
<1>11. NoStrayRegister'
  <2> SUFFICES ASSUME NEW j \in DOMAIN link',
                      NEW r \in link'[j].addr .. End(link'[j]) - 1
               PROVE  \E v \in DOMAIN cfg \ todo :
                            cfg[v].addr <= r /\ r < End(cfg[v])
    BY DEF NoStrayRegister
  <2>1. at \in DOMAIN link /\ at + 1 \in DOMAIN link
    BY <1>1
  <2>2. CASE j = at
    <3>1. r \in f.addr .. End(f) - 1
      BY <2>2, <1>2
    <3>2. \/ r \in This.addr .. End(This) - 1
          \/ r \in Following.addr .. End(Following) - 1
      BY <3>1, <1>5 DEF Touch, End
    <3>3. QED
      BY <3>2, <2>1 DEF IInv, NoStrayRegister, This, Following
  <2>3. CASE j # at
    BY <2>3, <1>6 DEF IInv, NoStrayRegister
  <2>4. QED
    BY <2>2, <2>3
<1>12. FramesFit'
  <2> SUFFICES ASSUME NEW j \in DOMAIN link'
               PROVE  \/ link'[j].size <= MaxSize
                      \/ \E v \in DOMAIN cfg : link'[j] = cfg[v]
    BY DEF FramesFit
  <2>1. CASE j = at
    <3>1. at \in DOMAIN link /\ link'[j] = f
      BY <2>1, <1>1, <1>2
    <3>2. QED
      BY <3>1 DEF IInv, FramesFit, This
  <2>2. CASE j # at
    BY <2>2, <1>6 DEF IInv, FramesFit
  <2>3. QED
    BY <2>1, <2>2
<1>13. JoinedSoFar'
  <2> SUFFICES ASSUME NEW i \in 1 .. at - 1
               PROVE  Separate(link'[i], link'[i + 1])
    BY DEF JoinedSoFar
  <2>1. Separate(link[i], link[i + 1]) /\ link'[i] = link[i]
    BY <1>1, <1>2 DEF IInv, JoinedSoFar
  <2>2. CASE i + 1 < at
    <3>1. i + 1 \in 1 .. at - 1
      BY <2>2, <1>1
    <3>2. QED
      BY <2>1, <3>1, <1>2
  <2>3. CASE i + 1 = at
    <3>1. link[i + 1] = This /\ link'[i + 1] = f
      BY <2>3, <1>2 DEF This
    <3>2. link[i].addr \in Nat /\ link[i].size \in Nat
      BY <1>1, FrameAt
    <3>3. f.addr = This.addr /\ End(This) <= End(f)
      BY DEF Covers
    <3>4. QED
      BY <2>1, <3>1, <3>2, <3>3, <1>5, MaxSizeAssumption DEF Separate, End
  <2>4. QED
    BY <2>2, <2>3, <1>1
<1>14. QED
  BY <1>7, <1>8, <1>9, <1>10, <1>11, <1>12, <1>13 DEF IInv

\* What the trimming loop sees: two frames in order, with true ends.
LEMMA TrimmedFrames ==
    ASSUME IInv, Trimming
    PROVE  /\ at \in 1 .. Len(link) - 1
           /\ link \in Seq(Frames)
           /\ This \in Frames /\ Following \in Frames
           /\ This.addr \in Nat /\ This.size \in Nat
           /\ Following.addr \in Nat /\ Following.size \in Nat
           /\ This.addr <= Following.addr
           /\ EndOfThis = End(This) /\ EndOfFollowing = End(Following)
<1>1. /\ at \in 1 .. Len(link) - 1
      /\ link \in Seq(Frames)
  BY DEF IInv, TypeOK, Trimming
<1>2. at \in 1 .. Len(link) /\ at + 1 \in 1 .. Len(link)
  BY <1>1
<1>3. /\ This \in Frames /\ Following \in Frames
      /\ This.addr \in Nat /\ This.size \in Nat
      /\ Following.addr \in Nat /\ Following.size \in Nat
  BY <1>1, <1>2, FrameAt DEF This, Following
<1>4. This.addr <= Following.addr
  BY <1>1, <1>2 DEF IInv, Ordered, This, Following
<1>5. /\ End(This) \in Nat /\ End(This) < Word
      /\ End(Following) \in Nat /\ End(Following) < Word
  <2>1. End(This) \in Nat /\ End(Following) \in Nat
    BY <1>3 DEF End
  <2>2. at \in DOMAIN link /\ at + 1 \in DOMAIN link
    BY <1>1, <1>2
  <2>3. QED
    BY <2>1, <2>2 DEF IInv, InWord, This, Following
<1>6. EndOfThis = End(This) /\ EndOfFollowing = End(Following)
  BY <1>5, SmallEnd DEF EndOfThis, EndOfFollowing
<1>7. QED
  BY <1>1, <1>3, <1>4, <1>6

LEMMA InvJoin ==
    ASSUME IInv, Join
    PROVE  IInv'
<1> DEFINE f == [This EXCEPT !.size = JointSize]
<1>1. /\ Trimming /\ Touch /\ EndOfThis < EndOfFollowing /\ FitsAFrame
      /\ UNCHANGED <<cfg, todo, at>>
      /\ link' = RemoveAt([link EXCEPT ![at].size = JointSize], at + 1)
  BY DEF Join
<1>2. /\ at \in 1 .. Len(link) - 1
      /\ link \in Seq(Frames)
      /\ This \in Frames /\ Following \in Frames
      /\ This.addr \in Nat /\ This.size \in Nat
      /\ Following.addr \in Nat /\ Following.size \in Nat
      /\ This.addr <= Following.addr
      /\ EndOfThis = End(This) /\ EndOfFollowing = End(Following)
  BY <1>1, TrimmedFrames
<1>3. JointSize = End(Following) - This.addr /\ JointSize \in Nat
  BY <1>2 DEF JointSize, End
<1>4. f \in Frames /\ f.addr = This.addr /\ f.size = JointSize
  BY <1>2, <1>3 DEF Frames
<1>5. link' = Joined(link, at, f)
  BY <1>1, <1>2 DEF Joined, This
<1> HIDE DEF f
<1>6. End(f) = End(Following)
  BY <1>2, <1>3, <1>4 DEF End
<1>7. Covers(f, This) /\ Covers(f, Following)
  BY <1>1, <1>2, <1>4, <1>6 DEF Covers, End
<1>8. End(f) < Word
  <2>1. at + 1 \in DOMAIN link
    BY <1>2
  <2>2. QED
    BY <1>6, <2>1 DEF IInv, InWord, Following
<1>9. f.size <= MaxSize
  BY <1>1, <1>4 DEF FitsAFrame
<1>10. Touch /\ End(f) <= End(Following)
  BY <1>1, <1>2, <1>6 DEF End
<1>11. QED
  BY <1>1, <1>4, <1>5, <1>7, <1>8, <1>9, <1>10, InvJoined

LEMMA InvSwallow ==
    ASSUME IInv, Swallow
    PROVE  IInv'
<1>1. /\ Trimming /\ Touch /\ EndOfThis >= EndOfFollowing
      /\ UNCHANGED <<cfg, todo, at>>
      /\ link' = RemoveAt(link, at + 1)
  BY DEF Swallow
<1>2. /\ at \in 1 .. Len(link) - 1
      /\ link \in Seq(Frames)
      /\ This \in Frames
      /\ This.addr \in Nat /\ This.size \in Nat
      /\ Following.addr \in Nat /\ Following.size \in Nat
      /\ This.addr <= Following.addr
      /\ EndOfThis = End(This) /\ EndOfFollowing = End(Following)
  BY <1>1, TrimmedFrames
<1>3. [link EXCEPT ![at] = This] = link
  BY <1>2 DEF This
<1>4. link' = Joined(link, at, This)
  BY <1>1, <1>3 DEF Joined
<1>5. Covers(This, This) /\ Covers(This, Following)
  BY <1>1, <1>2 DEF Covers, End
<1>6. End(This) < Word
  <2>1. at \in DOMAIN link
    BY <1>2
  <2>2. QED
    BY <2>1 DEF IInv, InWord, This
<1>7. End(This) <= End(This)
  BY <1>2 DEF End
<1>8. QED
  BY <1>1, <1>2, <1>4, <1>5, <1>6, <1>7, InvJoined

\* Stepping over a frame that is not joined with the following one.
LEMMA InvStepOver ==
    ASSUME IInv, Trimming, StepOver, Separate(This, Following)
    PROVE  IInv'
<1>1. /\ at \in Nat /\ at > 0 /\ at' = at + 1
      /\ UNCHANGED <<cfg, todo, link>>
  BY DEF IInv, TypeOK, Trimming, StepOver
<1>2. TypeOK'
  BY <1>1 DEF IInv, TypeOK
<1>3. (Ordered /\ InWord /\ EveryVariableRead /\ NoStrayRegister /\ FramesFit)'
  BY <1>1 DEF IInv, Ordered, InWord, EveryVariableRead, NoStrayRegister, FramesFit
<1>4. JoinedSoFar'
  <2> SUFFICES ASSUME NEW i \in 1 .. at, i < Len(link)
               PROVE  Separate(link[i], link[i + 1])
    BY <1>1 DEF JoinedSoFar
  <2>1. CASE i = at
    BY <2>1 DEF This, Following
  <2>2. CASE i \in 1 .. at - 1
    BY <2>2 DEF IInv, JoinedSoFar
  <2>3. QED
    BY <2>1, <2>2, <1>1
<1>5. QED
  BY <1>2, <1>3, <1>4 DEF IInv

\* A chain not begun yet: any configuration, no frame.
LEMMA InvFresh ==
    ASSUME cfg' \in Configurations, todo' = DOMAIN cfg', link' = <<>>, at' = 0
    PROVE  IInv'
<1>1. Len(link') = 0 /\ DOMAIN link' = {} /\ link' \in Seq(Frames)
  BY EmptySeq
<1>2. TypeOK'
  BY <1>1 DEF TypeOK
<1>3. (Ordered /\ InWord /\ NoStrayRegister /\ FramesFit)'
  BY <1>1 DEF Ordered, InWord, NoStrayRegister, FramesFit
<1>4. EveryVariableRead'
  BY DEF EveryVariableRead
<1>5. JoinedSoFar'
  BY DEF JoinedSoFar
<1>6. QED
  BY <1>2, <1>3, <1>4, <1>5 DEF IInv

LEMMA InvRebuild ==
    ASSUME IInv, NEW v \in Vars, Rebuild(v)
    PROVE  IInv'
<1>1. cfg \in Configurations
  BY DEF IInv, TypeOK
<1>2. DOMAIN cfg \subseteq Vars /\ \A w \in DOMAIN cfg : cfg[w] \in Registers
  BY <1>1, ConfigurationOf
<1>3. CASE cfg' = Restrict(cfg, DOMAIN cfg \ {v})
  <2>1. cfg' \in [DOMAIN cfg \ {v} -> Registers]
    BY <1>2, <1>3 DEF Restrict
  <2>2. DOMAIN cfg \ {v} \in SUBSET Vars
    BY <1>2
  <2>3. cfg' \in Configurations
    BY <2>1, <2>2 DEF Configurations
  <2>4. QED
    BY <2>3, InvFresh DEF Rebuild
<1>4. CASE \E e \in Registers :
            cfg' = [w \in DOMAIN cfg \cup {v} |-> IF w = v THEN e ELSE cfg[w]]
  <2>1. cfg' \in [DOMAIN cfg \cup {v} -> Registers]
    BY <1>2, <1>4
  <2>2. DOMAIN cfg \cup {v} \in SUBSET Vars
    BY <1>2
  <2>3. cfg' \in Configurations
    BY <2>1, <2>2 DEF Configurations
  <2>4. QED
    BY <2>3, InvFresh DEF Rebuild
<1>5. QED
  BY <1>3, <1>4 DEF Rebuild

\* The two loops keep the invariant, one step of one of them at a time.
LEMMA InvNext ==
    ASSUME NoWrap, IInv, [Next]_vars
    PROVE  IInv'
<1>1. CASE \E v \in Vars : Enter(v)
  BY <1>1, InvEnter
<1>2. CASE StartTrim
  <2>1. /\ at' = 1 /\ todo = {}
        /\ UNCHANGED <<cfg, todo, link>>
    BY <1>2 DEF StartTrim
  <2>2. TypeOK'
    BY <2>1 DEF IInv, TypeOK
  <2>3. (Ordered /\ InWord /\ EveryVariableRead /\ NoStrayRegister
            /\ FramesFit)'
    BY <2>1 DEF IInv, Ordered, InWord, EveryVariableRead, NoStrayRegister,
                FramesFit
  <2>4. JoinedSoFar'
    BY <2>1 DEF JoinedSoFar
  <2>5. QED
    BY <2>2, <2>3, <2>4 DEF IInv
<1>3. CASE Join
  BY <1>3, InvJoin
<1>4. CASE TooLong
  <2>1. Trimming /\ StepOver /\ ~FitsAFrame
    BY <1>4 DEF TooLong
  <2>2. End(Following) - This.addr > MaxSize
    BY <2>1, TrimmedFrames, MaxSizeAssumption DEF FitsAFrame, JointSize, End
  <2>3. QED
    BY <2>1, <2>2, InvStepOver DEF Separate
<1>5. CASE Swallow
  BY <1>5, InvSwallow
<1>6. CASE Apart
  <2>1. Trimming /\ StepOver /\ ~Touch
    BY <1>6 DEF Apart
  <2>2. End(This) < Following.addr
    BY <2>1, TrimmedFrames DEF Touch, End
  <2>3. QED
    BY <2>1, <2>2, InvStepOver DEF Separate
<1>7. CASE \E v \in Vars : Rebuild(v)
  BY <1>7, InvRebuild
<1>8. CASE UNCHANGED vars
  BY <1>8 DEF vars, IInv, TypeOK, Ordered, InWord, EveryVariableRead,
              NoStrayRegister, FramesFit, JoinedSoFar
<1>9. QED
  BY <1>1, <1>2, <1>3, <1>4, <1>5, <1>6, <1>7, <1>8 DEF Next

\* The invariant holds in every reachable state.
THEOREM ChainInvariant ==
    ASSUME NoWrap
    PROVE  Spec => []IInv
<1>1. Init => IInv
  BY InvInit
<1>2. IInv /\ [Next]_vars => IInv'
  BY InvNext
<1>3. QED
  BY <1>1, <1>2, PTL DEF Spec

-----------------------------------------------------------------------------

\* The chain and the loops' positions keep their types.
THEOREM SyncLinkTypeCorrect ==
    ASSUME NoWrap
    PROVE  Spec => []TypeOK
<1>1. IInv => TypeOK
  BY DEF IInv
<1>2. QED
  BY <1>1, ChainInvariant, PTL

\* Joining frames never loses a variable: each is read whole by one frame.
THEOREM NoVariableLost ==
    ASSUME NoWrap
    PROVE  Spec => []EveryVariableRead
<1>1. IInv => EveryVariableRead
  BY DEF IInv
<1>2. QED
  BY <1>1, ChainInvariant, PTL

\* No frame reads a register that no variable asked for.
THEOREM ReadsOnlyVariables ==
    ASSUME NoWrap
    PROVE  Spec => []NoStrayRegister
<1>1. IInv => NoStrayRegister
  BY DEF IInv
<1>2. QED
  BY <1>1, ChainInvariant, PTL

\* The frames stand in the order of their addresses.
THEOREM FramesInOrder ==
    ASSUME NoWrap
    PROVE  Spec => []Ordered
<1>1. IInv => Ordered
  BY DEF IInv
<1>2. QED
  BY <1>1, ChainInvariant, PTL

\* No frame joined from several variables is longer than an answer can be.
THEOREM JoinedFramesFit ==
    ASSUME NoWrap
    PROVE  Spec => []FramesFit
<1>1. IInv => FramesFit
  BY DEF IInv
<1>2. QED
  BY <1>1, ChainInvariant, PTL

\* The single pass of the loop joins all that can be joined.
THEOREM ChainIsJoined ==
    ASSUME NoWrap
    PROVE  Spec => []NothingLeftToJoin
<1>1. IInv => NothingLeftToJoin
  <2> SUFFICES ASSUME IInv, Done, NEW i \in 1 .. Len(link) - 1
               PROVE  Separate(link[i], link[i + 1])
    BY DEF NothingLeftToJoin, Separate
  <2>1. at \in Nat /\ link \in Seq(Frames)
    BY DEF IInv, TypeOK
  <2>2. at > 0 /\ ~(at \in 1 .. Len(link) - 1)
    BY DEF Done, Trimming
  <2>3. i \in 1 .. at - 1 /\ i < Len(link)
    BY <2>1, <2>2
  <2>4. QED
    BY <2>3 DEF IInv, JoinedSoFar
<1>2. QED
  BY <1>1, ChainInvariant, PTL
=============================================================================
