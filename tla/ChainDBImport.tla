---------------------------- MODULE ChainDBImport ----------------------------
(***************************************************************************)
(* The inductive invariant of the chain database, ChainInd, and that the   *)
(* writes of an import keep it.  ChainDBProofs has the rest of the steps   *)
(* and the theorems.                                                       *)
(*                                                                         *)
(* What the properties say is not inductive: between two writes of a       *)
(* reorganisation or of a rewind the heads, the numbers and the blocks     *)
(* disagree, and what saves them is in the writes that are still to come.  *)
(* ChainInd describes those.  The writes left (todo) are the rest of an    *)
(* import, of a SetHead, or only its reload.  In an import every canonical *)
(* hash and head write is of a block whose ancestors are stored, or will   *)
(* be by then, and the hashes go up block by block from the line of the    *)
(* head.  In a SetHead the turns go down the line of the first header, the *)
(* block head is never above a header that was moved, and the blocks       *)
(* deleted at the end are above both.  The numbers agree with the heads as *)
(* they will be after the head writes in front.                            *)
(***************************************************************************)
EXTENDS ChainDB, WellFoundedInduction, TLAPS

------------------------------------------------------------------------------
(* The tree of blocks.                                                     *)

\* A line holds its block, goes down to genesis, and is the least such set.
LEMMA LineBasics ==
  ASSUME NEW b \in Blocks
  PROVE  /\ Line[b] \subseteq Blocks /\ b \in Line[b] /\ HasParents(Line[b])
         /\ \A S \in SUBSET Blocks : b \in S /\ HasParents(S) => Line[b] \subseteq S
BY ChainAssumption DEF Line, HasParents

\* What the assumption on the constants says of numbers: only genesis has
\* number 0, and a block is one above its parent.
LEMMA NumFacts ==
  /\ \A b \in Blocks : Num(b) \in Nat /\ Num(b) \in Numbers
  /\ Numbers \subseteq Nat
  /\ \A b \in Blocks : Num(b) = 0 <=> b = GenesisBlock
  /\ GenesisBlock \in Blocks /\ None \notin Blocks
  /\ \A b \in Blocks \ {GenesisBlock} :
       ParentOf(b) \in Blocks /\ Num(b) = Num(ParentOf(b)) + 1 /\ Num(ParentOf(b)) \in Nat
BY ChainAssumption DEF Numbers

\* The line of an ancestor is part of the line.
LEMMA LineNested ==
  ASSUME NEW b \in Blocks, NEW a \in Line[b]
  PROVE  a \in Blocks /\ Line[a] \subseteq Line[b]
BY LineBasics

\* A line is its block and the line of the parent.
LEMMA LineParent ==
  ASSUME NEW b \in Blocks \ {GenesisBlock}
  PROVE  ParentOf(b) \in Line[b] /\ Line[b] = {b} \cup Line[ParentOf(b)]
<1>. DEFINE S == {b} \cup Line[ParentOf(b)]
<1>1. ParentOf(b) \in Blocks
  BY NumFacts
<1>2. ParentOf(b) \in Line[b]
  BY LineBasics DEF HasParents
<1>3. S \in SUBSET Blocks /\ b \in S
  BY <1>1, LineBasics
<1>4. HasParents(S)
  BY <1>1, LineBasics DEF HasParents
<1>5. Line[b] \subseteq S
  BY <1>3, <1>4, LineBasics
<1>6. S \subseteq Line[b]
  BY <1>2, LineNested, LineBasics
<1>. QED
  BY <1>2, <1>5, <1>6

\* Only the block itself is as high in its line.
LEMMA LineBelow ==
  ASSUME NEW b \in Blocks, NEW a \in Line[b]
  PROVE  Num(a) <= Num(b) /\ (Num(a) = Num(b) => a = b)
<1>. DEFINE S == {x \in Blocks : Num(x) <= Num(b) /\ (Num(x) = Num(b) => x = b)}
<1>1. S \in SUBSET Blocks /\ b \in S
  BY NumFacts
<1>2. HasParents(S)
  <2>. SUFFICES ASSUME NEW x \in S \ {GenesisBlock} PROVE ParentOf(x) \in S
    BY DEF HasParents
  <2>. QED
    BY NumFacts
<1>. QED
  BY <1>1, <1>2, LineBasics

\* Of two blocks of one line, one is an ancestor of the other.
LEMMA LineComparable ==
  ASSUME NEW b \in Blocks, NEW c \in Line[b]
  PROVE  \A a \in Line[b] : a \in Line[c] \/ c \in Line[a]
<1>. DEFINE S == {x \in Blocks : x \in Line[c] \/ c \in Line[x]}
<1>1. c \in Blocks
  BY LineNested
<1>2. S \in SUBSET Blocks /\ b \in S
  OBVIOUS
<1>3. HasParents(S)
  <2>. SUFFICES ASSUME NEW x \in S \ {GenesisBlock} PROVE ParentOf(x) \in S
    BY DEF HasParents
  <2>1. ParentOf(x) \in Blocks
    BY NumFacts
  <2>2. CASE x \in Line[c]
    BY <1>1, <2>1, <2>2, LineBasics DEF HasParents
  <2>3. CASE c \in Line[x] /\ x # c
    BY <2>1, <2>3, LineParent
  <2>. QED
    BY <1>1, <2>2, <2>3, LineBasics
<1>. QED
  BY <1>2, <1>3, LineBasics

\* In one line the lower block is an ancestor of the higher one.
LEMMA LineOrdered ==
  ASSUME NEW b \in Blocks, NEW c \in Line[b], NEW a \in Line[b], Num(a) <= Num(c)
  PROVE  a \in Line[c]
<1>1. a \in Blocks /\ c \in Blocks
  BY LineNested
<1>2. CASE c \in Line[a]
  <2>1. Num(c) <= Num(a) /\ (Num(c) = Num(a) => c = a)
    BY <1>1, <1>2, LineBelow
  <2>2. c = a
    BY <1>1, <2>1, NumFacts
  <2>. QED
    BY <1>1, <2>2, LineBasics
<1>. QED
  BY <1>2, LineComparable

\* A line has a block of every number up to its own.
LEMMA AncestorExists ==
  ASSUME NEW b \in Blocks, NEW n \in Nat, n <= Num(b)
  PROVE  \E a \in Line[b] : Num(a) = n
<1>. DEFINE S == {Num(x) : x \in {y \in Line[b] : Num(y) >= n}}
<1>0. Line[b] \subseteq Blocks /\ b \in Line[b]
  BY LineBasics
<1>1. S \subseteq Nat /\ S # {}
  BY <1>0, NumFacts
<1>2. PICK m \in S : \A k \in S : ~ <<k, m>> \in OpToRel(<, Nat)
  <2>. HIDE DEF S
  <2>. QED
    BY <1>1, NatLessThanWellFounded, WFMin
<1>3. PICK x \in Line[b] : Num(x) = m /\ m >= n
  OBVIOUS
<1>4. CASE m = n
  BY <1>3, <1>4
<1>5. CASE m # n
  <2>1. x \in Blocks \ {GenesisBlock}
    BY <1>0, <1>1, <1>3, <1>5, NumFacts
  <2>2. ParentOf(x) \in Line[b] /\ Num(ParentOf(x)) = m - 1 /\ m - 1 >= n
    BY <1>1, <1>3, <1>5, <2>1, NumFacts, LineBasics DEF HasParents
  <2>3. m - 1 \in S
    BY <2>2
  <2>4. <<m - 1, m>> \in OpToRel(<, Nat)
    BY <1>1, <2>3 DEF OpToRel
  <2>. QED
    BY <1>2, <2>3, <2>4
<1>. QED
  BY <1>4, <1>5

\* The ancestor at a number is in the line and has that number.
LEMMA AncestorIn ==
  ASSUME NEW b \in Blocks, NEW n \in Nat, n <= Num(b)
  PROVE  AncestorAt(b, n) \in Line[b] /\ Num(AncestorAt(b, n)) = n /\ AncestorAt(b, n) \in Blocks
<1>1. AncestorAt(b, n) \in Line[b] /\ Num(AncestorAt(b, n)) = n
  BY AncestorExists DEF AncestorAt
<1>. QED
  BY <1>1, LineNested

\* No other block of the line has the number.
LEMMA AncestorIs ==
  ASSUME NEW b \in Blocks, NEW a \in Line[b]
  PROVE  AncestorAt(b, Num(a)) = a
<1>. DEFINE x == AncestorAt(b, Num(a))
<1>1. a \in Blocks /\ Num(a) \in Nat /\ Num(a) <= Num(b)
  BY LineNested, LineBelow, NumFacts
<1>2. x \in Line[b] /\ Num(x) = Num(a) /\ x \in Blocks
  BY <1>1, AncestorIn
<1>3. x \in Line[a]
  BY <1>1, <1>2, LineOrdered
<1>. QED
  BY <1>1, <1>2, <1>3, LineBelow

\* The parent of an ancestor is the ancestor one lower.
LEMMA AncestorParent ==
  ASSUME NEW b \in Blocks, NEW n \in Nat, n + 1 <= Num(b)
  PROVE  /\ AncestorAt(b, n + 1) \in Blocks \ {GenesisBlock}
         /\ ParentOf(AncestorAt(b, n + 1)) = AncestorAt(b, n)
<1>. DEFINE x == AncestorAt(b, n + 1)
<1>1. x \in Line[b] /\ Num(x) = n + 1 /\ x \in Blocks
  BY AncestorIn
<1>2. x # GenesisBlock
  BY <1>1, NumFacts
<1>3. ParentOf(x) \in Line[b] /\ Num(ParentOf(x)) = n
  BY <1>1, <1>2, LineBasics, NumFacts DEF HasParents
<1>. QED
  BY <1>1, <1>2, <1>3, AncestorIs

\* Genesis is an ancestor of every block.
LEMMA GenesisInLine ==
  ASSUME NEW b \in Blocks
  PROVE  GenesisBlock \in Line[b]
<1>1. Num(b) \in Nat
  BY NumFacts
<1>2. AncestorAt(b, 0) \in Line[b] /\ Num(AncestorAt(b, 0)) = 0 /\ AncestorAt(b, 0) \in Blocks
  BY <1>1, AncestorIn
<1>. QED
  BY <1>2, NumFacts

\* A nonempty part of a line has a highest block.
LEMMA Highest ==
  ASSUME NEW b \in Blocks, NEW S \in SUBSET Line[b], S # {}
  PROVE  \E x \in S : \A y \in S : Num(y) <= Num(x) /\ y \in Line[x]
<1>. DEFINE D == {Num(b) - Num(x) : x \in S}
<1>0. \A x \in S : x \in Blocks /\ Num(x) \in Nat /\ Num(x) <= Num(b) /\ Num(b) \in Nat
  BY LineNested, LineBelow, NumFacts
<1>1. D \subseteq Nat /\ D # {}
  BY <1>0
<1>2. PICK m \in D : \A k \in D : ~ <<k, m>> \in OpToRel(<, Nat)
  <2>. HIDE DEF D
  <2>. QED
    BY <1>1, NatLessThanWellFounded, WFMin
<1>3. PICK x \in S : m = Num(b) - Num(x)
  OBVIOUS
<1>4. \A y \in S : Num(y) <= Num(x)
  <2>. SUFFICES ASSUME NEW y \in S, Num(y) > Num(x) PROVE FALSE
    BY <1>0
  <2>1. Num(b) - Num(y) \in D /\ Num(b) - Num(y) < m
    BY <1>0, <1>3
  <2>2. <<Num(b) - Num(y), m>> \in OpToRel(<, Nat)
    BY <1>1, <2>1 DEF OpToRel
  <2>. QED
    BY <1>2, <2>1, <2>2
<1>. QED
  BY <1>4, LineOrdered

\* Two blocks have a last common ancestor.
LEMMA ForkIs ==
  ASSUME NEW b \in Blocks, NEW c \in Blocks
  PROVE  Fork(b, c) \in Line[b] /\ Fork(b, c) \in Line[c] /\ Fork(b, c) \in Blocks
<1>. DEFINE S == Line[b] \cap Line[c]
<1>1. S \in SUBSET Line[b] /\ S # {}
  BY GenesisInLine
<1>2. PICK x \in S : \A y \in S : y \in Line[x]
  <2>. HIDE DEF S
  <2>. QED
    BY <1>1, Highest
<1>3. Line[x] = S
  BY <1>2, LineNested
<1>4. \E y \in S : Line[y] = S
  BY <1>3
<1>5. Fork(b, c) \in S
  BY <1>4 DEF Fork
<1>. QED
  BY <1>5, LineNested

------------------------------------------------------------------------------
(* The inductive invariant.                                                *)

OpNames ==
  {"vaultOf", "block", "vault", "state", "canon", "headBlock", "headHeader", "headFast", "cut",
   "rewind", "delete", "load"}
Ops == [op : OpNames, block : Blocks \cup {None} \cup SUBSET Blocks]

\* One of the two is an ancestor of the other, or they are the same.
Related(a, b) == a \in Line[b] \/ b \in Line[a]

\* The canonical numbers c hold the line of b; they hold of the line of b what
\* they hold at all.
CanonIn(c, b) == \A a \in Line[b] : c[Num(a)] = a
CutIn(c, b) == \A a \in Line[b] : c[Num(a)] \in {a, None}
Agree(c, b, h) == CanonIn(c, b) /\ CutIn(c, h) /\ Related(b, h)

\* x is in the line of b or next to it.
Follows(x, b) == x \in Line[b] \/ (x # GenesisBlock /\ ParentOf(x) \in Line[b])

\* The block of write i and its ancestors are stored, or will be by then.
Grounded(t, i, bs) ==
  /\ t[i].block \in Blocks
  /\ \A a \in Line[t[i].block] :
       a \in bs \/ \E j \in 1 .. i - 1 : t[j].op = "block" /\ t[j].block = a

\* The writes of an import.  The head writes that a canonical hash is followed
\* by come next.
ImportTodo(t, bs) ==
  \A i \in DOMAIN t :
    /\ t[i].op \notin {"rewind", "delete", "load"}
    /\ t[i].op = "block" => t[i].block \in Blocks
    /\ t[i].op \in {"canon", "headBlock", "headHeader"} => Grounded(t, i, bs)
    /\ t[i].op = "headBlock" => i = 1
    /\ t[i].op = "headHeader" => i = 1 \/ (i = 2 /\ t[1].op = "headBlock")

\* The heads once the head writes in front are done.
FutureHead(t, b) == IF t # <<>> /\ t[1].op = "headBlock" THEN t[1].block ELSE b
FutureHeader(t, h) ==
  IF t # <<>> /\ t[1].op = "headHeader" THEN t[1].block
  ELSE IF Len(t) >= 2 /\ t[2].op = "headHeader" THEN t[2].block ELSE h

FirstCanon(t, j) == t[j].op = "canon" /\ \A i \in 1 .. j - 1 : t[i].op # "canon"
NextCanon(t, i, j) ==
  /\ i < j /\ t[i].op = "canon" /\ t[j].op = "canon"
  /\ \A k \in i + 1 .. j - 1 : t[k].op # "canon"

\* The canonical hashes still to be written go up from the line of b, block by
\* block.
CanonChain(t, b) ==
  /\ \A j \in DOMAIN t : FirstCanon(t, j) => Follows(t[j].block, b)
  /\ \A i, j \in DOMAIN t : NextCanon(t, i, j) =>
       t[j].block # GenesisBlock /\ ParentOf(t[j].block) = t[i].block

ImportCanon(t, d) ==
  /\ Agree(d.canon, FutureHead(t, d.headBlock), FutureHeader(t, d.headHeader))
  /\ CanonChain(t, FutureHead(t, d.headBlock))

\* The blocks of the line of top that SetHead(n) deletes.
Rewound(top, n) == {b \in Line[top] : Num(b) > n}

\* SetHead(n) from header top: k head writes, the turns down from number m, the
\* deletion and the reload are still to be made.
RewindTodo(t, d, top, n, m, k) ==
  /\ n < Num(top) /\ n <= m /\ m <= Num(top)
  /\ Line[top] \subseteq d.blocks
  /\ Len(t) = k + (m - n) + 2
  /\ \A i \in 1 .. m - n : t[k + i] = Op("rewind", AncestorAt(top, m + 1 - i))
  /\ t[k + (m - n) + 1] = [op |-> "delete", block |-> Rewound(top, n)]
  /\ t[k + (m - n) + 2] = Op("load", None)

\* Before a turn the header is at m, and no head is above once a turn is made.
BetweenTurns(d, top, m) ==
  /\ d.headHeader = AncestorAt(top, m)
  /\ m < Num(top) => Num(d.headBlock) <= m

\* Within a turn the header is moved last, from m + 1 to m.
WithinTurn(t, d, top, m, k) ==
  /\ m < Num(top) /\ d.headHeader = AncestorAt(top, m + 1)
  /\ t[k] = Op("headHeader", AncestorAt(top, m))
  /\ \A i \in 1 .. k - 1 : t[i].op = "headFast" \/ (t[i].op = "headBlock" /\ i = 1)
  /\ IF t[1].op = "headBlock" THEN t[1].block \in {AncestorAt(top, m), GenesisBlock}
     ELSE Num(d.headBlock) <= m

Rewinding(t, d) ==
  \E top \in Blocks, n \in Nat, m \in Nat, k \in Nat :
    /\ RewindTodo(t, d, top, n, m, k)
    /\ k = 0 => BetweenTurns(d, top, m)
    /\ k > 0 => WithinTurn(t, d, top, m, k)

RewindCanon(t, d) ==
  /\ Agree(d.canon, d.headBlock, d.headHeader)
  /\ t[1].op = "headBlock" => t[1].block \in Line[d.headBlock]

Loading(t) == Len(t) = 1 /\ t[1] = Op("load", None)

TodoOf(t, d) ==
  \/ ImportTodo(t, d.blocks) /\ (d.crashes = 0 => ImportCanon(t, d))
  \/ Rewinding(t, d) /\ (d.crashes = 0 => RewindCanon(t, d))
  \/ Loading(t) /\ (d.crashes = 0 => Agree(d.canon, d.headBlock, d.headHeader))

DiskType(d) ==
  /\ DOMAIN d = {"blocks", "canon", "headBlock", "headHeader", "headFast", "states",
                 "vaultOf", "vaults", "crashes"}
  /\ d.blocks \subseteq Blocks /\ d.headBlock \in Blocks /\ d.headHeader \in Blocks
  /\ d.canon \in [Numbers -> Blocks \cup {None}] /\ d.crashes \in Nat
  /\ Root(GenesisBlock) \in d.states

MemOf(m, d, t) ==
  /\ DOMAIN m = {"up", "cur", "header", "fast", "gc", "vaults"} /\ m.up \in BOOLEAN
  /\ IF m.up THEN m.cur = d.headBlock /\ m.header = d.headHeader ELSE t = <<>>

HeadsStored(d) == Line[d.headBlock] \subseteq d.blocks /\ Line[d.headHeader] \subseteq d.blocks

ChainOf(d, m, t, im) ==
  /\ DiskType(d) /\ MemOf(m, d, t) /\ t \in Seq(Ops) /\ im \in Seq(Blocks \ {GenesisBlock})
  /\ HeadsStored(d) /\ TodoOf(t, d)

ChainInd == ChainOf(disk, mem, todo, importing)

------------------------------------------------------------------------------
(* Sequences of writes.                                                    *)

\* The fields of a write.
LEMMA OpIs ==
  /\ \A x \in OpNames, b \in Blocks \cup {None} :
       Op(x, b) \in Ops /\ Op(x, b).op = x /\ Op(x, b).block = b
  /\ \A S \in SUBSET Blocks : [op |-> "delete", block |-> S] \in Ops
BY DEF Op, Ops, OpNames

\* The sequence without its first write.
LEMMA TailIs ==
  ASSUME NEW S, NEW t \in Seq(S), t # <<>>
  PROVE  /\ Head(t) = t[1] /\ Tail(t) \in Seq(S) /\ Len(t) \in Nat /\ Len(t) >= 1
         /\ Len(Tail(t)) = Len(t) - 1 /\ DOMAIN t = 1 .. Len(t)
         /\ DOMAIN Tail(t) = 1 .. Len(t) - 1 /\ t[1] \in S
         /\ \A i \in 1 .. Len(t) - 1 : Tail(t)[i] = t[i + 1]
OBVIOUS

\* Two sequences joined, element by element.
LEMMA JoinIs ==
  ASSUME NEW S, NEW s \in Seq(S), NEW t \in Seq(S)
  PROVE  /\ s \o t \in Seq(S) /\ Len(s) \in Nat /\ Len(t) \in Nat
         /\ Len(s \o t) = Len(s) + Len(t) /\ DOMAIN (s \o t) = 1 .. Len(s) + Len(t)
         /\ DOMAIN s = 1 .. Len(s) /\ DOMAIN t = 1 .. Len(t)
         /\ \A i \in 1 .. Len(s) : (s \o t)[i] = s[i]
         /\ \A i \in 1 .. Len(t) : (s \o t)[Len(s) + i] = t[i]
         /\ \A i \in Len(s) + 1 .. Len(s) + Len(t) : (s \o t)[i] = t[i - Len(s)]
OBVIOUS

\* The first write is done, and its block stored if that is what it did.
LEMMA TailImport ==
  ASSUME NEW t \in Seq(Ops), t # <<>>, NEW bs, NEW bs2, ImportTodo(t, bs), bs \subseteq bs2,
         t[1].op = "block" => t[1].block \in bs2
  PROVE  /\ ImportTodo(Tail(t), bs2)
         /\ \A i \in DOMAIN Tail(t) :
              Tail(t)[i].op # "headBlock" /\ (Tail(t)[i].op = "headHeader" => i = 1 /\ t[1].op = "headBlock")
<1>. DEFINE s == Tail(t)
<1>1. /\ Len(t) \in Nat /\ Len(t) >= 1 /\ DOMAIN s = 1 .. Len(t) - 1 /\ DOMAIN t = 1 .. Len(t)
      /\ \A i \in 1 .. Len(t) - 1 : s[i] = t[i + 1]
  BY TailIs
<1>. HIDE DEF s
<1>2. ASSUME NEW i \in DOMAIN s
      PROVE  /\ s[i].op \notin {"rewind", "delete", "load"}
             /\ s[i].op = "block" => s[i].block \in Blocks
             /\ s[i].op # "headBlock"
             /\ s[i].op = "headHeader" => i = 1 /\ t[1].op = "headBlock"
  <2>1. i + 1 \in DOMAIN t /\ s[i] = t[i + 1]
    BY <1>1
  <2>. QED
    BY <2>1, <1>1 DEF ImportTodo
<1>3. ASSUME NEW i \in DOMAIN s, s[i].op \in {"canon", "headBlock", "headHeader"}
      PROVE  Grounded(s, i, bs2)
  <2>1. i + 1 \in DOMAIN t /\ s[i] = t[i + 1] /\ i \in Nat
    BY <1>1
  <2>2. Grounded(t, i + 1, bs)
    BY <1>3, <2>1 DEF ImportTodo
  <2>3. ASSUME NEW a \in Line[s[i].block], NEW j \in 1 .. i, t[j].op = "block" /\ t[j].block = a
        PROVE  a \in bs2 \/ \E k \in 1 .. i - 1 : s[k].op = "block" /\ s[k].block = a
    <3>1. CASE j = 1
      BY <2>3, <3>1
    <3>2. CASE j # 1
      <4>1. j - 1 \in 1 .. i - 1 /\ s[j - 1] = t[j]
        BY <1>1, <2>1, <3>2
      <4>. QED
        BY <2>3, <4>1
    <3>. QED
      BY <3>1, <3>2
  <2>4. (i + 1) - 1 = i
    BY <2>1
  <2>. QED
    BY <2>1, <2>2, <2>3, <2>4 DEF Grounded
<1>4. ImportTodo(s, bs2)
  BY <1>2, <1>3 DEF ImportTodo
<1>. QED
  BY <1>2, <1>4 DEF s

\* Once a write that is no canonical hash is done, the hashes that are left go
\* up from the same line.
LEMMA TailChain ==
  ASSUME NEW t \in Seq(Ops), t # <<>>, NEW b, CanonChain(t, b), t[1].op # "canon"
  PROVE  CanonChain(Tail(t), b)
<1>. DEFINE s == Tail(t)
<1>1. /\ Len(t) \in Nat /\ Len(t) >= 1 /\ DOMAIN s = 1 .. Len(t) - 1 /\ DOMAIN t = 1 .. Len(t)
      /\ \A i \in 1 .. Len(t) - 1 : s[i] = t[i + 1]
  BY TailIs
<1>. HIDE DEF s
<1>2. ASSUME NEW j \in DOMAIN s, FirstCanon(s, j)
      PROVE  Follows(s[j].block, b)
  <2>1. j + 1 \in DOMAIN t /\ s[j] = t[j + 1] /\ j \in Nat
    BY <1>1
  <2>2. \A i \in 1 .. j : t[i].op # "canon"
    <3>. TAKE i \in 1 .. j
    <3>1. CASE i # 1
      <4>1. i - 1 \in 1 .. j - 1 /\ s[i - 1] = t[i]
        BY <1>1, <2>1, <3>1
      <4>. QED
        BY <1>2, <4>1 DEF FirstCanon
    <3>. QED
      BY <3>1
  <2>3. (j + 1) - 1 = j
    BY <2>1
  <2>. QED
    BY <1>2, <2>1, <2>2, <2>3 DEF FirstCanon, CanonChain
<1>3. ASSUME NEW i \in DOMAIN s, NEW j \in DOMAIN s, NextCanon(s, i, j)
      PROVE  s[j].block # GenesisBlock /\ ParentOf(s[j].block) = s[i].block
  <2>1. /\ i + 1 \in DOMAIN t /\ s[i] = t[i + 1] /\ i \in Nat
        /\ j + 1 \in DOMAIN t /\ s[j] = t[j + 1] /\ j \in Nat
    BY <1>1
  <2>2. ASSUME NEW k \in (i + 1) + 1 .. (j + 1) - 1 PROVE t[k].op # "canon"
    <3>1. k - 1 \in i + 1 .. j - 1 /\ s[k - 1] = t[k]
      BY <1>1, <2>1
    <3>. QED
      BY <1>3, <3>1 DEF NextCanon
  <2>3. NextCanon(t, i + 1, j + 1)
    BY <1>3, <2>1, <2>2 DEF NextCanon
  <2>. QED
    BY <2>1, <2>3 DEF CanonChain
<1>. QED
  BY <1>2, <1>3 DEF CanonChain, s

\* The canonical hashes and cuts of a reorganisation onto b.
SwitchTodo(s, b, cur, bs) ==
  /\ s \in Seq(Ops) /\ CanonChain(s, cur)
  /\ \A i \in DOMAIN s :
       /\ s[i].op \in {"canon", "cut"}
       /\ s[i].op = "canon" => s[i].block \in Blocks /\ Line[s[i].block] \subseteq bs \cup {b}

\* The writes of reorg, then the hash of b: the numbers go up from the last
\* common ancestor.
LEMMA ReorgChain ==
  ASSUME NEW cur \in Blocks, NEW b \in Blocks \ {GenesisBlock}, NEW bs \in SUBSET Blocks,
         Line[b] \subseteq bs \cup {b}
  PROVE  SwitchTodo(reorg(cur, b) \o Insert(b), b, cur, bs)
<1>. DEFINE fork == Fork(cur, b)
            nf == Num(fork)
            L == Num(b) - nf
            K == IF L = 0 THEN 0 ELSE L - 1
            A(i) == AncestorAt(b, nf + i)
            branch == Above(b, nf)
            r == [i \in 1 .. Len(branch) - 1 |-> Op("canon", branch[i])]
            s == reorg(cur, b) \o Insert(b)
<1>1. fork \in Line[cur] /\ fork \in Line[b] /\ fork \in Blocks
  BY ForkIs
<1>2. nf \in Nat /\ Num(b) \in Nat /\ L \in Nat /\ K \in Nat /\ nf <= Num(b)
  BY <1>1, NumFacts, LineBelow
<1>3. Len(branch) = L /\ \A i \in 1 .. L : branch[i] = A(i)
  BY <1>2 DEF Above
<1>4. \A i \in 1 .. L : A(i) \in Blocks /\ A(i) \in Line[b]
  <2>. TAKE i \in 1 .. L
  <2>1. nf + i \in Nat /\ nf + i <= Num(b)
    BY <1>2
  <2>. QED
    BY <2>1, AncestorIn
<1>5. /\ r \in Seq(Ops) /\ Len(r) = K
      /\ \A i \in 1 .. K : r[i] = Op("canon", A(i))
  <2>1. Len(branch) - 1 = L - 1
    BY <1>2, <1>3
  <2>2. r = [i \in 1 .. L - 1 |-> Op("canon", branch[i])]
    BY <2>1
  <2>3. \A i \in 1 .. L - 1 : Op("canon", branch[i]) \in Ops
    <3>. TAKE i \in 1 .. L - 1
    <3>1. branch[i] \in Blocks
      BY <1>2, <1>3, <1>4
    <3>. QED
      BY <3>1, OpIs DEF OpNames
  <2>4. 1 .. L - 1 = 1 .. K
    BY <1>2
  <2>. HIDE DEF r, K, L, branch
  <2>5. r = [i \in 1 .. K |-> Op("canon", branch[i])] /\ \A i \in 1 .. K : Op("canon", branch[i]) \in Ops
    BY <2>2, <2>3, <2>4, Zenon
  <2>6. \A i \in 1 .. K : i \in 1 .. L
    BY <1>2 DEF K
  <2>. QED
    BY <1>2, <1>3, <2>5, <2>6
<1>6. /\ s \in Seq(Ops) /\ Len(s) = K + 2 /\ DOMAIN s = 1 .. K + 2
      /\ \A i \in 1 .. K : s[i] = Op("canon", A(i))
      /\ s[K + 1] = Op("cut", None) /\ s[K + 2] = Op("canon", b)
  <2>1. s = (r \o <<Op("cut", None)>>) \o <<Op("canon", b)>>
    BY DEF reorg, Insert
  <2>2. Op("cut", None) \in Ops /\ Op("canon", b) \in Ops
    BY OpIs DEF OpNames
  <2>. HIDE DEF r, s, K
  <2>. QED
    BY <1>2, <1>5, <2>1, <2>2
<1>7. /\ \A i \in 1 .. K : s[i].op = "canon" /\ s[i].block = A(i)
      /\ s[K + 1].op = "cut" /\ s[K + 2].op = "canon" /\ s[K + 2].block = b
  <2>. HIDE DEF s, A, K
  <2>1. \A i \in 1 .. K : A(i) \in Blocks
    BY <1>2, <1>4 DEF K
  <2>. QED
    BY <1>6, <2>1, OpIs DEF OpNames
<1>8. A(0) = fork
  BY <1>1, <1>2, AncestorIs
<1>9. \A i \in 0 .. L - 1 : A(i + 1) # GenesisBlock /\ ParentOf(A(i + 1)) = A(i)
  <2>. TAKE i \in 0 .. L - 1
  <2>1. nf + i \in Nat /\ (nf + i) + 1 <= Num(b) /\ (nf + i) + 1 = nf + (i + 1)
    BY <1>2
  <2>. QED
    BY <2>1, AncestorParent
<1>10. A(L) = b
  <2>1. nf + L = Num(b)
    BY <1>2
  <2>. QED
    BY <2>1, AncestorIs, LineBasics
<1>. HIDE DEF s, A, K, nf, fork, L
<1>12. L = K + 1 \/ (L = 0 /\ K = 0)
  BY <1>2 DEF K
<1>11. \A i \in DOMAIN s :
         /\ s[i].op \in {"canon", "cut"}
         /\ s[i].op = "canon" => s[i].block \in Blocks /\ Line[s[i].block] \subseteq bs \cup {b}
  <2>. TAKE i \in DOMAIN s
  <2>1. i \in 1 .. K \/ i = K + 1 \/ i = K + 2
    BY <1>2, <1>6
  <2>2. CASE i \in 1 .. K
    <3>1. A(i) \in Line[b] /\ A(i) \in Blocks
      BY <1>2, <1>4, <1>12, <2>2
    <3>. QED
      BY <1>7, <2>2, <3>1, LineNested
  <2>. QED
    BY <1>7, <2>1, <2>2
<1>13. ASSUME NEW j \in DOMAIN s, FirstCanon(s, j)
       PROVE  Follows(s[j].block, cur)
  <2>1. CASE K >= 1
    <3>1. j = 1
      BY <1>2, <1>6, <1>7, <1>13, <2>1 DEF FirstCanon
    <3>2. A(1) # GenesisBlock /\ ParentOf(A(0 + 1)) = A(0) /\ 0 + 1 = 1
      BY <1>2, <1>9, <1>12, <2>1
    <3>. QED
      BY <1>1, <1>2, <1>7, <1>8, <2>1, <3>1, <3>2 DEF Follows
  <2>2. CASE K = 0
    <3>1. j = 2 /\ s[j].block = b
      BY <1>6, <1>7, <1>13, <2>2 DEF FirstCanon
    <3>2. CASE L = 0
      BY <1>1, <1>8, <1>10, <3>1, <3>2 DEF Follows
    <3>3. CASE L = 1
      <4>1. ParentOf(A(0 + 1)) = A(0) /\ 0 + 1 = 1
        BY <1>9, <3>3
      <4>. QED
        BY <1>1, <1>8, <1>10, <3>1, <3>3, <4>1 DEF Follows
    <3>. QED
      BY <1>12, <2>2, <3>2, <3>3
  <2>. QED
    BY <1>2, <2>1, <2>2
<1>14. ASSUME NEW i \in DOMAIN s, NEW j \in DOMAIN s, NextCanon(s, i, j)
       PROVE  s[j].block # GenesisBlock /\ ParentOf(s[j].block) = s[i].block
  <2>1. i \in 1 .. K + 2 /\ j \in 1 .. K + 2 /\ i < j /\ i # K + 1 /\ j # K + 1
    BY <1>6, <1>7, <1>14 DEF NextCanon
  <2>2. CASE j \in 1 .. K
    <3>1. j - 1 \in 1 .. K /\ (j - 1 \in i + 1 .. j - 1 \/ i = j - 1)
      BY <1>2, <2>1, <2>2
    <3>2. i = j - 1
      BY <1>7, <1>14, <3>1 DEF NextCanon
    <3>3. (j - 1) \in 0 .. L - 1 /\ (j - 1) + 1 = j
      BY <1>2, <1>12, <2>1, <2>2
    <3>. QED
      BY <1>7, <1>9, <2>2, <3>1, <3>2, <3>3
  <2>3. CASE j = K + 2
    <3>1. K >= 1 /\ K \in 1 .. K /\ (K \in i + 1 .. j - 1 \/ i = K)
      BY <1>2, <2>1, <2>3
    <3>2. i = K
      BY <1>7, <1>14, <3>1 DEF NextCanon
    <3>3. K \in 0 .. L - 1 /\ K + 1 = L
      BY <1>2, <1>12, <3>1
    <3>. QED
      BY <1>7, <1>9, <1>10, <2>3, <3>1, <3>2, <3>3
  <2>. QED
    BY <1>2, <2>1, <2>2, <2>3
<1>15. CanonChain(s, cur)
  BY <1>13, <1>14 DEF CanonChain
<1>. QED
  BY <1>6, <1>11, <1>15 DEF SwitchTodo, s

\* Switch goes up from the current block, over blocks that are stored or b.
LEMMA SwitchChain ==
  ASSUME NEW b \in Blocks \ {GenesisBlock}, mem.cur \in Blocks, disk.blocks \subseteq Blocks,
         Line[mem.cur] \subseteq disk.blocks
  PROVE  SwitchTodo(Switch(b), b, mem.cur, disk.blocks)
<1>1. CASE ParentOf(b) = mem.cur
  <2>. DEFINE s == <<Op("canon", b)>>
  <2>1. Switch(b) = s
    BY <1>1 DEF Switch, Insert
  <2>2. s \in Seq(Ops) /\ DOMAIN s = {1} /\ s[1].op = "canon" /\ s[1].block = b
    <3>1. Op("canon", b) \in Ops /\ Op("canon", b).op = "canon" /\ Op("canon", b).block = b
      BY OpIs DEF OpNames
    <3>. QED
      BY <3>1
  <2>3. Line[b] \subseteq disk.blocks \cup {b}
    BY <1>1, LineParent
  <2>4. Follows(b, mem.cur)
    BY <1>1, LineBasics DEF Follows
  <2>. HIDE DEF s
  <2>5. CanonChain(s, mem.cur)
    BY <2>2, <2>4 DEF CanonChain, NextCanon
  <2>. QED
    BY <2>1, <2>2, <2>3, <2>5 DEF SwitchTodo
<1>2. CASE ParentOf(b) # mem.cur /\ ReorgFails(mem.cur, b)
  <2>1. Switch(b) = <<>>
    BY <1>2 DEF Switch
  <2>. QED
    BY <2>1 DEF SwitchTodo, CanonChain
<1>3. CASE ParentOf(b) # mem.cur /\ ~ReorgFails(mem.cur, b)
  <2>1. Switch(b) = reorg(mem.cur, b) \o Insert(b)
    BY <1>3 DEF Switch
  <2>2. Line[b] \subseteq disk.blocks \cup {b}
    <3>1. Line[Fork(mem.cur, b)] \subseteq disk.blocks
      BY ForkIs, LineNested, Zenon
    <3>. QED
      BY <1>3, <3>1 DEF ReorgFails
  <2>. QED
    BY <2>1, <2>2, ReorgChain
<1>. QED
  BY <1>1, <1>2, <1>3

\* What an operation starts with when it imports: no head is written first.
NewImport(t, cur, bs) ==
  /\ t \in Seq(Ops) /\ ImportTodo(t, bs) /\ CanonChain(t, cur)
  /\ \A i \in DOMAIN t : t[i].op \notin {"headBlock", "headHeader"}

\* Writes of b alone, b itself among them, may come before a switch to b.
LEMMA PrefixChain ==
  ASSUME NEW p \in Seq(Ops), NEW s, NEW b \in Blocks, NEW cur, NEW bs,
         SwitchTodo(s, b, cur, bs),
         \A i \in 1 .. Len(p) : p[i].op \in {"vaultOf", "block", "vault", "state"} /\ p[i].block = b,
         b \in bs \/ \E i \in 1 .. Len(p) : p[i].op = "block"
  PROVE  NewImport(p \o s, cur, bs)
<1>. DEFINE t == p \o s
            N == Len(p)
<1>0. s \in Seq(Ops)
  BY DEF SwitchTodo
<1>1. /\ t \in Seq(Ops) /\ N \in Nat /\ Len(s) \in Nat /\ DOMAIN t = 1 .. N + Len(s)
      /\ DOMAIN s = 1 .. Len(s)
      /\ \A i \in 1 .. N : t[i] = p[i]
      /\ \A i \in N + 1 .. N + Len(s) : t[i] = s[i - N]
  BY <1>0, JoinIs
<1>. HIDE DEF t
<1>2. \A i \in DOMAIN t : i \in 1 .. N \/ (i > N /\ i \in Nat /\ i - N \in DOMAIN s /\ t[i] = s[i - N])
  <2>. HIDE DEF N
  <2>. QED
    BY <1>1
<1>3. \A i \in 1 .. N : t[i].op \in {"vaultOf", "block", "vault", "state"} /\ t[i].block = b
  BY <1>1
<1>4. ASSUME NEW i \in DOMAIN t, t[i].op = "canon"
      PROVE  i > N /\ i \in Nat /\ i - N \in DOMAIN s /\ t[i] = s[i - N]
  BY <1>2, <1>3, <1>4
<1>. HIDE DEF N
<1>5. \A i \in DOMAIN t :
        /\ t[i].op \in {"vaultOf", "block", "vault", "state", "canon", "cut"}
        /\ t[i].op = "block" => t[i].block \in Blocks
  BY <1>2, <1>3 DEF SwitchTodo
<1>6. ASSUME NEW i \in DOMAIN t, t[i].op = "canon"
      PROVE  Grounded(t, i, bs)
  <2>1. i > N /\ i \in Nat /\ i - N \in DOMAIN s /\ t[i] = s[i - N]
    BY <1>4, <1>6
  <2>2. t[i].block \in Blocks /\ Line[t[i].block] \subseteq bs \cup {b}
    BY <1>6, <2>1 DEF SwitchTodo
  <2>3. b \in bs \/ \E j \in 1 .. i - 1 : t[j].op = "block" /\ t[j].block = b
    <3>1. 1 .. N \subseteq 1 .. i - 1
      BY <1>1, <2>1
    <3>. QED
      BY <1>1, <1>3, <3>1 DEF N
  <2>. QED
    BY <2>2, <2>3 DEF Grounded
<1>7. ImportTodo(t, bs)
  BY <1>5, <1>6 DEF ImportTodo
<1>8. ASSUME NEW j \in DOMAIN t, FirstCanon(t, j)
      PROVE  Follows(t[j].block, cur)
  <2>1. j > N /\ j \in Nat /\ j - N \in DOMAIN s /\ t[j] = s[j - N]
    BY <1>4, <1>8 DEF FirstCanon
  <2>2. ASSUME NEW i \in 1 .. (j - N) - 1 PROVE s[i].op # "canon"
    <3>1. i + N \in 1 .. j - 1 /\ i + N \in N + 1 .. N + Len(s) /\ (i + N) - N = i
      BY <1>1, <2>1
    <3>. QED
      BY <1>1, <1>8, <3>1 DEF FirstCanon
  <2>3. FirstCanon(s, j - N)
    BY <1>8, <2>1, <2>2 DEF FirstCanon
  <2>. QED
    BY <2>1, <2>3 DEF SwitchTodo, CanonChain
<1>9. ASSUME NEW i \in DOMAIN t, NEW j \in DOMAIN t, NextCanon(t, i, j)
      PROVE  t[j].block # GenesisBlock /\ ParentOf(t[j].block) = t[i].block
  <2>1. /\ i > N /\ i \in Nat /\ i - N \in DOMAIN s /\ t[i] = s[i - N]
        /\ j > N /\ j \in Nat /\ j - N \in DOMAIN s /\ t[j] = s[j - N]
    BY <1>4, <1>9 DEF NextCanon
  <2>2. ASSUME NEW k \in (i - N) + 1 .. (j - N) - 1 PROVE s[k].op # "canon"
    <3>1. k + N \in i + 1 .. j - 1 /\ k + N \in N + 1 .. N + Len(s) /\ (k + N) - N = k
      BY <1>1, <2>1
    <3>. QED
      BY <1>1, <1>9, <3>1, Zenon DEF NextCanon
  <2>3. i - N < j - N
    BY <1>1, <1>9, <2>1 DEF NextCanon
  <2>4. NextCanon(s, i - N, j - N)
    BY <1>9, <2>1, <2>2, <2>3 DEF NextCanon
  <2>. QED
    BY <2>1, <2>4 DEF SwitchTodo, CanonChain
<1>10. CanonChain(t, cur)
  BY <1>8, <1>9 DEF CanonChain
<1>. QED
  BY <1>1, <1>5, <1>7, <1>10, Zenon DEF NewImport, t

\* A block that does not take over has no head to switch.
LEMMA NoSwitch ==
  ASSUME NEW b, NEW cur, NEW bs
  PROVE  SwitchTodo(<<>>, b, cur, bs)
BY DEF SwitchTodo, CanonChain

\* To have nothing to write is an import that is over.
LEMMA NewEmpty ==
  ASSUME NEW cur, NEW bs
  PROVE  NewImport(<<>>, cur, bs)
BY DEF NewImport, ImportTodo, CanonChain

\* What WriteBlockWithState writes before it looks at the head.
BlockWrites(b, fromPeer) ==
  <<Op("vaultOf", b), Op("block", b)>>
    \o (IF fromPeer THEN <<Op("vault", b)>> ELSE <<>>) \o <<Op("state", b)>>

\* They are writes of b, and one of them stores it.
LEMMA BlockWritesAre ==
  ASSUME NEW b \in Blocks, NEW fromPeer \in BOOLEAN, NEW p, p = BlockWrites(b, fromPeer)
  PROVE  /\ p \in Seq(Ops)
         /\ \A i \in 1 .. Len(p) : p[i].op \in {"vaultOf", "block", "vault", "state"} /\ p[i].block = b
         /\ \E i \in 1 .. Len(p) : p[i].op = "block"
<1>. DEFINE T == {x \in Ops : x.op \in {"vaultOf", "block", "vault", "state"} /\ x.block = b}
            p1 == <<Op("vaultOf", b), Op("block", b)>>
            p2 == IF fromPeer THEN <<Op("vault", b)>> ELSE <<>>
            p3 == <<Op("state", b)>>
<1>1. /\ Op("vaultOf", b) \in T /\ Op("block", b) \in T /\ Op("block", b).op = "block"
      /\ Op("vault", b) \in T /\ Op("state", b) \in T
  BY OpIs DEF OpNames
<1>2. T \subseteq Ops /\ \A x \in T : x.op \in {"vaultOf", "block", "vault", "state"} /\ x.block = b
  OBVIOUS
<1>. HIDE DEF T
<1>3. p1 \in Seq(T) /\ Len(p1) = 2 /\ p1[2] = Op("block", b)
  BY <1>1
<1>4. p2 \in Seq(T) /\ p3 \in Seq(T)
  BY <1>1
<1>5. p = (p1 \o p2) \o p3
  BY DEF BlockWrites
<1>. HIDE DEF p1, p2, p3
<1>6. /\ p1 \o p2 \in Seq(T) /\ Len(p1 \o p2) = Len(p1) + Len(p2) /\ Len(p2) \in Nat
      /\ \A i \in 1 .. Len(p1) : (p1 \o p2)[i] = p1[i]
  <2>1. p1 \in Seq(T) /\ p2 \in Seq(T)
    BY <1>3, <1>4
  <2>. QED
    BY ONLY <2>1, JoinIs
<1>. DEFINE q == p1 \o p2
<1>7. q \in Seq(T) /\ Len(q) \in Nat /\ Len(q) >= 2 /\ q[2] = Op("block", b)
  BY <1>3, <1>6
<1>8. p = q \o p3
  BY <1>5
<1>. HIDE DEF q
<1>9. p \in Seq(T) /\ Len(p) = Len(q) + Len(p3) /\ Len(p3) \in Nat /\ \A i \in 1 .. Len(q) : p[i] = q[i]
  BY <1>4, <1>7, <1>8, JoinIs
<1>10. Len(p) \in Nat /\ Len(p) >= 2 /\ p[2] = Op("block", b)
  BY <1>7, <1>9
<1>11. \A i \in 1 .. Len(p) : p[i] \in T
  BY <1>9
<1>12. p \in Seq(Ops)
  <2>1. p = [i \in 1 .. Len(p) |-> p[i]] /\ \A i \in 1 .. Len(p) : p[i] \in Ops
    BY <1>2, <1>9, <1>11
  <2>. QED
    BY <1>10, <2>1
<1>. QED
  BY <1>1, <1>2, <1>10, <1>11, <1>12

\* The writes of one block.
LEMMA WriteTodo ==
  ASSUME NEW b \in Blocks \ {GenesisBlock}, mem.cur \in Blocks, disk.blocks \subseteq Blocks,
         Line[mem.cur] \subseteq disk.blocks, NEW better, NEW fromPeer \in BOOLEAN
  PROVE  NewImport(WriteBlockWithState(b, better, fromPeer), mem.cur, disk.blocks)
<1>. DEFINE p == BlockWrites(b, fromPeer)
<1>1. PICK s : /\ s \in {Switch(b), <<>>}
               /\ WriteBlockWithState(b, better, fromPeer) = p \o s
  BY Zenon DEF WriteBlockWithState, BlockWrites
<1>2. SwitchTodo(s, b, mem.cur, disk.blocks)
  BY <1>1, SwitchChain, NoSwitch
<1>3. /\ p \in Seq(Ops)
      /\ \A i \in 1 .. Len(p) : p[i].op \in {"vaultOf", "block", "vault", "state"} /\ p[i].block = b
      /\ \E i \in 1 .. Len(p) : p[i].op = "block"
  BY BlockWritesAre
<1>. HIDE DEF p
<1>. QED
  BY <1>1, <1>2, <1>3, PrefixChain

------------------------------------------------------------------------------
(* The steps.                                                              *)

\* A rewind is never out of writes: the reload is its last one.
LEMMA RewindingFirst ==
  ASSUME NEW t \in Seq(Ops), NEW d, Rewinding(t, d)
  PROVE  t # <<>> /\ t[1].op \in {"headBlock", "headHeader", "headFast", "rewind", "delete"}
<1>1. PICK top \in Blocks, n \in Nat, m \in Nat, k \in Nat :
        /\ RewindTodo(t, d, top, n, m, k)
        /\ k > 0 => WithinTurn(t, d, top, m, k)
  BY DEF Rewinding
<1>2. t # <<>>
  BY <1>1 DEF RewindTodo
<1>3. CASE k = 0 /\ m = n
  <2>1. t[1] = [op |-> "delete", block |-> Rewound(top, n)]
    BY <1>1, <1>3 DEF RewindTodo
  <2>. QED
    BY <1>2, <2>1
<1>4. CASE k = 0 /\ m # n
  <2>1. t[0 + 1] = Op("rewind", AncestorAt(top, m + 1 - 1)) /\ 0 + 1 = 1
    BY <1>1, <1>4 DEF RewindTodo
  <2>. QED
    BY <1>2, <2>1 DEF Op
<1>5. CASE k > 0
  <2>1. t[k] = Op("headHeader", AncestorAt(top, m))
    BY <1>1, <1>5 DEF WithinTurn
  <2>2. k # 1 => t[1].op = "headFast" \/ t[1].op = "headBlock"
    BY <1>1, <1>5 DEF WithinTurn
  <2>3. t[k].op = "headHeader"
    BY <2>1 DEF Op
  <2>. QED
    BY <1>2, <2>2, <2>3
<1>. QED
  BY <1>3, <1>4, <1>5

\* Which operation a write belongs to.
LEMMA Modes ==
  ASSUME NEW t \in Seq(Ops), t # <<>>, NEW d, TodoOf(t, d)
  PROVE  /\ t[1].op \in {"vaultOf", "block", "vault", "state", "canon", "cut"} =>
              ImportTodo(t, d.blocks) /\ (d.crashes = 0 => ImportCanon(t, d))
         /\ t[1].op \in {"rewind", "delete"} =>
              Rewinding(t, d) /\ (d.crashes = 0 => RewindCanon(t, d))
         /\ t[1].op \in {"headBlock", "headHeader", "headFast"} =>
              \/ ImportTodo(t, d.blocks) /\ (d.crashes = 0 => ImportCanon(t, d))
              \/ Rewinding(t, d) /\ (d.crashes = 0 => RewindCanon(t, d))
         /\ t[1].op = "load" => Loading(t) /\ (d.crashes = 0 => Agree(d.canon, d.headBlock, d.headHeader))
<1>1. Loading(t) => t[1].op = "load"
  BY DEF Loading, Op
<1>2. 1 \in DOMAIN t
  BY TailIs
<1>3. ImportTodo(t, d.blocks) => t[1].op \notin {"rewind", "delete", "load"}
  BY <1>2 DEF ImportTodo
<1>. QED
  BY <1>1, <1>3, RewindingFirst DEF TodoOf

\* The heads to be, and the hashes to be written, once a write that is not a
\* canonical hash is done.
LEMMA Popped ==
  ASSUME NEW t \in Seq(Ops), t # <<>>, NEW bs, ImportTodo(t, bs), t[1].op # "canon",
         NEW d, NEW d2,
         d2.headBlock = IF t[1].op = "headBlock" THEN t[1].block ELSE d.headBlock,
         d2.headHeader = IF t[1].op = "headHeader" THEN t[1].block ELSE d.headHeader
  PROVE  /\ FutureHead(Tail(t), d2.headBlock) = FutureHead(t, d.headBlock)
         /\ FutureHeader(Tail(t), d2.headHeader) = FutureHeader(t, d.headHeader)
         /\ CanonChain(t, FutureHead(t, d.headBlock)) =>
              CanonChain(Tail(t), FutureHead(Tail(t), d2.headBlock))
<1>. DEFINE s == Tail(t)
<1>1. /\ Len(t) \in Nat /\ Len(t) >= 1 /\ DOMAIN s = 1 .. Len(t) - 1 /\ DOMAIN t = 1 .. Len(t)
      /\ Len(s) = Len(t) - 1 /\ s \in Seq(Ops)
      /\ \A i \in 1 .. Len(t) - 1 : s[i] = t[i + 1]
  BY TailIs
<1>2. \A i \in DOMAIN s : s[i].op # "headBlock" /\ (s[i].op = "headHeader" => i = 1 /\ t[1].op = "headBlock")
  <2>. DEFINE bs2 == bs \cup {t[1].block}
  <2>1. bs \subseteq bs2 /\ t[1].block \in bs2
    OBVIOUS
  <2>. HIDE DEF bs2
  <2>. QED
    BY <2>1, TailImport, Zenon
<1>. HIDE DEF s
<1>3. s # <<>> => 1 \in DOMAIN s /\ s[1] = t[2] /\ Len(t) >= 2
  BY <1>1
<1>4. FutureHead(s, d2.headBlock) = FutureHead(t, d.headBlock)
  BY <1>2, <1>3 DEF FutureHead
<1>5. FutureHeader(s, d2.headHeader) = FutureHeader(t, d.headHeader)
  <2>1. Len(s) >= 2 => s[2].op # "headHeader"
    BY <1>1, <1>2
  <2>2. Len(t) >= 2 => s # <<>>
    BY <1>1
  <2>3. Len(t) >= 2 /\ t[2].op = "headHeader" => t[1].op = "headBlock"
    BY <1>2, <1>3, <2>2
  <2>. QED
    BY <1>2, <1>3, <2>1, <2>2, <2>3 DEF FutureHeader
<1>. QED
  BY <1>4, <1>5, TailChain DEF s

\* One write of an import is done: the heads are stored with their ancestors
\* still, and what is left is again the rest of an import.
LEMMA ImportPop ==
  ASSUME NEW t \in Seq(Ops), t # <<>>, NEW d, NEW d2, HeadsStored(d),
         ImportTodo(t, d.blocks), d.crashes = 0 => ImportCanon(t, d), t[1].op # "canon",
         d.blocks \subseteq d2.blocks, t[1].op = "block" => t[1].block \in d2.blocks,
         d2.headBlock = IF t[1].op = "headBlock" THEN t[1].block ELSE d.headBlock,
         d2.headHeader = IF t[1].op = "headHeader" THEN t[1].block ELSE d.headHeader,
         d2.crashes = d.crashes,
         Agree(d.canon, FutureHead(t, d.headBlock), FutureHeader(t, d.headHeader)) =>
           Agree(d2.canon, FutureHead(t, d.headBlock), FutureHeader(t, d.headHeader))
  PROVE  HeadsStored(d2) /\ TodoOf(Tail(t), d2)
<1>1. 1 \in DOMAIN t
  BY TailIs
<1>2. t[1].op \in {"headBlock", "headHeader"} => Line[t[1].block] \subseteq d.blocks
  BY <1>1 DEF ImportTodo, Grounded
<1>3. HeadsStored(d2)
  BY <1>2 DEF HeadsStored
<1>4. ImportTodo(Tail(t), d2.blocks)
  BY TailImport
<1>5. ASSUME d.crashes = 0 PROVE ImportCanon(Tail(t), d2)
  <2>1. ImportCanon(t, d)
    BY <1>5
  <2>2. /\ FutureHead(Tail(t), d2.headBlock) = FutureHead(t, d.headBlock)
        /\ FutureHeader(Tail(t), d2.headHeader) = FutureHeader(t, d.headHeader)
        /\ CanonChain(t, FutureHead(t, d.headBlock)) =>
             CanonChain(Tail(t), FutureHead(Tail(t), d2.headBlock))
    BY Popped
  <2>. QED
    BY <2>1, <2>2 DEF ImportCanon
<1>. QED
  BY <1>3, <1>4, <1>5 DEF TodoOf

\* What is known when the first write is done.
LEMMA DoingIs ==
  ASSUME ChainInd, NEW x, Doing(x)
  PROVE  /\ mem.up /\ todo \in Seq(Ops) /\ todo # <<>> /\ todo[1].op = x /\ It = todo[1].block
         /\ Tail(todo) \in Seq(Ops) /\ importing' = importing
         /\ mem.cur = disk.headBlock /\ mem.header = disk.headHeader
         /\ DiskType(disk) /\ HeadsStored(disk) /\ TodoOf(todo, disk)
         /\ importing \in Seq(Blocks \ {GenesisBlock})
         /\ DOMAIN mem = {"up", "cur", "header", "fast", "gc", "vaults"}
<1>1. todo \in Seq(Ops) /\ todo # <<>>
  BY DEF ChainInd, ChainOf, Doing
<1>2. Head(todo) = todo[1] /\ Tail(todo) \in Seq(Ops)
  BY <1>1, TailIs
<1>. QED
  BY <1>1, <1>2 DEF ChainInd, ChainOf, MemOf, Doing, It

\* WriteVaultRoot touches neither blocks, numbers nor heads.
LEMMA VaultRootStep ==
  ASSUME ChainInd, WriteVaultRoot
  PROVE  ChainOf(disk', mem', todo', importing')
<1>1. Doing("vaultOf") /\ todo' = Tail(todo)
  BY DEF WriteVaultRoot
<1>. DEFINE t == todo
<1>2. /\ mem.up /\ t \in Seq(Ops) /\ t # <<>> /\ t[1].op = "vaultOf"
      /\ Tail(t) \in Seq(Ops) /\ importing' = importing
      /\ mem.cur = disk.headBlock /\ mem.header = disk.headHeader
      /\ DiskType(disk) /\ HeadsStored(disk) /\ TodoOf(t, disk)
      /\ importing \in Seq(Blocks \ {GenesisBlock})
      /\ DOMAIN mem = {"up", "cur", "header", "fast", "gc", "vaults"}
  BY <1>1, DoingIs
<1>3. /\ DiskType(disk') /\ disk'.blocks = disk.blocks /\ disk'.canon = disk.canon
      /\ disk'.headBlock = disk.headBlock /\ disk'.headHeader = disk.headHeader
      /\ disk'.crashes = disk.crashes
  BY <1>2 DEF WriteVaultRoot, DiskType
<1>4. MemOf(mem', disk', todo')
  BY <1>2, <1>3, Zenon DEF WriteVaultRoot, MemOf
<1>5. ImportTodo(t, disk.blocks) /\ (disk.crashes = 0 => ImportCanon(t, disk))
  BY <1>2, Modes
<1>6. HeadsStored(disk') /\ TodoOf(Tail(t), disk')
  BY <1>2, <1>3, <1>5, ImportPop
<1>. QED
  BY <1>1, <1>2, <1>3, <1>4, <1>6 DEF ChainOf

\* WriteBlock only adds a block.
LEMMA BlockStep ==
  ASSUME ChainInd, WriteBlock
  PROVE  ChainOf(disk', mem', todo', importing')
<1>1. Doing("block") /\ todo' = Tail(todo) /\ mem' = mem
  BY DEF WriteBlock
<1>. DEFINE t == todo
<1>2. /\ mem.up /\ t \in Seq(Ops) /\ t # <<>> /\ t[1].op = "block" /\ It = t[1].block
      /\ Tail(t) \in Seq(Ops) /\ importing' = importing
      /\ mem.cur = disk.headBlock /\ mem.header = disk.headHeader
      /\ DiskType(disk) /\ HeadsStored(disk) /\ TodoOf(t, disk)
      /\ importing \in Seq(Blocks \ {GenesisBlock})
      /\ DOMAIN mem = {"up", "cur", "header", "fast", "gc", "vaults"}
  BY <1>1, DoingIs
<1>3. ImportTodo(t, disk.blocks) /\ (disk.crashes = 0 => ImportCanon(t, disk))
  BY <1>2, Modes
<1>4. t[1].block \in Blocks
  <2>1. 1 \in DOMAIN t
    BY <1>2, TailIs
  <2>. QED
    BY <1>2, <1>3, <2>1 DEF ImportTodo
<1>5. /\ DiskType(disk') /\ disk'.blocks = disk.blocks \cup {t[1].block} /\ disk'.canon = disk.canon
      /\ disk'.headBlock = disk.headBlock /\ disk'.headHeader = disk.headHeader
      /\ disk'.crashes = disk.crashes
  BY <1>2, <1>4 DEF WriteBlock, DiskType
<1>6. MemOf(mem', disk', todo')
  BY <1>1, <1>2, <1>5 DEF MemOf
<1>7. HeadsStored(disk') /\ TodoOf(Tail(t), disk')
  BY <1>2, <1>3, <1>5, ImportPop
<1>. QED
  BY <1>1, <1>2, <1>5, <1>6, <1>7 DEF ChainOf

\* WriteVault touches neither blocks, numbers nor heads.
LEMMA VaultStep ==
  ASSUME ChainInd, WriteVault
  PROVE  ChainOf(disk', mem', todo', importing')
<1>1. Doing("vault") /\ todo' = Tail(todo) /\ mem' = mem
  BY DEF WriteVault
<1>. DEFINE t == todo
<1>2. /\ mem.up /\ t \in Seq(Ops) /\ t # <<>> /\ t[1].op = "vault"
      /\ Tail(t) \in Seq(Ops) /\ importing' = importing
      /\ mem.cur = disk.headBlock /\ mem.header = disk.headHeader
      /\ DiskType(disk) /\ HeadsStored(disk) /\ TodoOf(t, disk)
      /\ importing \in Seq(Blocks \ {GenesisBlock})
      /\ DOMAIN mem = {"up", "cur", "header", "fast", "gc", "vaults"}
  BY <1>1, DoingIs
<1>3. ImportTodo(t, disk.blocks) /\ (disk.crashes = 0 => ImportCanon(t, disk))
  BY <1>2, Modes
<1>5. /\ DiskType(disk') /\ disk'.blocks = disk.blocks /\ disk'.canon = disk.canon
      /\ disk'.headBlock = disk.headBlock /\ disk'.headHeader = disk.headHeader
      /\ disk'.crashes = disk.crashes
  BY <1>2 DEF WriteVault, DiskType
<1>6. MemOf(mem', disk', todo')
  BY <1>1, <1>2, <1>5 DEF MemOf
<1>7. HeadsStored(disk') /\ TodoOf(Tail(t), disk')
  BY <1>2, <1>3, <1>5, ImportPop
<1>. QED
  BY <1>1, <1>2, <1>5, <1>6, <1>7 DEF ChainOf

\* WriteState flushes states and never drops one from disk.
LEMMA StateStep ==
  ASSUME ChainInd, WriteState
  PROVE  ChainOf(disk', mem', todo', importing')
<1>1. Doing("state") /\ todo' = Tail(todo)
  BY DEF WriteState
<1>. DEFINE t == todo
<1>2. /\ mem.up /\ t \in Seq(Ops) /\ t # <<>> /\ t[1].op = "state"
      /\ Tail(t) \in Seq(Ops) /\ importing' = importing
      /\ mem.cur = disk.headBlock /\ mem.header = disk.headHeader
      /\ DiskType(disk) /\ HeadsStored(disk) /\ TodoOf(t, disk)
      /\ importing \in Seq(Blocks \ {GenesisBlock})
      /\ DOMAIN mem = {"up", "cur", "header", "fast", "gc", "vaults"}
  BY <1>1, DoingIs
<1>3. ImportTodo(t, disk.blocks) /\ (disk.crashes = 0 => ImportCanon(t, disk))
  BY <1>2, Modes
<1>4. PICK flush : disk' = [disk EXCEPT !.states = @ \cup flush]
  BY Zenon DEF WriteState
<1>5. /\ DiskType(disk') /\ disk'.blocks = disk.blocks /\ disk'.canon = disk.canon
      /\ disk'.headBlock = disk.headBlock /\ disk'.headHeader = disk.headHeader
      /\ disk'.crashes = disk.crashes
  BY <1>2, <1>4 DEF DiskType
<1>6. MemOf(mem', disk', todo')
  BY <1>2, <1>5, Zenon DEF WriteState, MemOf
<1>7. HeadsStored(disk') /\ TodoOf(Tail(t), disk')
  BY <1>2, <1>3, <1>5, ImportPop
<1>. QED
  BY <1>1, <1>2, <1>5, <1>6, <1>7 DEF ChainOf

\* The numbers above the current block are cleared, those of its line stay.
LEMMA CutStep ==
  ASSUME ChainInd, CutCanonical
  PROVE  ChainOf(disk', mem', todo', importing')
<1>1. Doing("cut") /\ todo' = Tail(todo) /\ mem' = mem
  BY DEF CutCanonical
<1>. DEFINE t == todo
<1>2. /\ mem.up /\ t \in Seq(Ops) /\ t # <<>> /\ t[1].op = "cut"
      /\ Tail(t) \in Seq(Ops) /\ importing' = importing
      /\ mem.cur = disk.headBlock /\ mem.header = disk.headHeader
      /\ DiskType(disk) /\ HeadsStored(disk) /\ TodoOf(t, disk)
      /\ importing \in Seq(Blocks \ {GenesisBlock})
      /\ DOMAIN mem = {"up", "cur", "header", "fast", "gc", "vaults"}
  BY <1>1, DoingIs
<1>3. ImportTodo(t, disk.blocks) /\ (disk.crashes = 0 => ImportCanon(t, disk))
  BY <1>2, Modes
<1>4. /\ DOMAIN disk' = DOMAIN disk /\ disk'.blocks = disk.blocks
      /\ disk'.headBlock = disk.headBlock /\ disk'.headHeader = disk.headHeader
      /\ disk'.crashes = disk.crashes /\ disk'.states = disk.states
      /\ disk'.canon \in [Numbers -> Blocks \cup {None}]
      /\ \A n \in Numbers : disk'.canon[n] \in {disk.canon[n], None}
      /\ \A n \in Numbers : n <= Num(mem.cur) => disk'.canon[n] = disk.canon[n]
  <2>. DEFINE Cut(n) == n > Num(mem.cur) /\ \A m \in Num(mem.cur) + 1 .. n : disk.canon[m] # None
              c2 == [n \in Numbers |-> IF Cut(n) THEN None ELSE disk.canon[n]]
  <2>1. disk' = [disk EXCEPT !.canon = c2]
    BY DEF CutCanonical
  <2>0. mem.cur \in Blocks
    BY <1>2 DEF DiskType
  <2>2. Num(mem.cur) \in Nat /\ Numbers \subseteq Nat
    BY <2>0, NumFacts
  <2>4. \A n \in Numbers : n <= Num(mem.cur) => ~Cut(n)
    <3>1. \A n \in Numbers : n <= Num(mem.cur) => ~(n > Num(mem.cur))
      BY ONLY <2>2
    <3>. QED
      BY ONLY <3>1 DEF Cut
  <2>5. disk.canon \in [Numbers -> Blocks \cup {None}]
    BY <1>2 DEF DiskType
  <2>. HIDE DEF Cut
  <2>3. /\ c2 \in [Numbers -> Blocks \cup {None}]
        /\ \A n \in Numbers : c2[n] \in {disk.canon[n], None}
        /\ \A n \in Numbers : n <= Num(mem.cur) => c2[n] = disk.canon[n]
    BY <2>4, <2>5
  <2>. HIDE DEF c2
  <2>. QED
    BY <1>2, <2>1, <2>3 DEF DiskType
<1>5. DiskType(disk')
  BY <1>2, <1>4 DEF DiskType
<1>6. MemOf(mem', disk', todo')
  BY <1>1, <1>2, <1>4 DEF MemOf
<1>7. FutureHead(t, disk.headBlock) = mem.cur /\ FutureHeader(t, disk.headHeader) = mem.header
  <2>1. Len(t) >= 2 => 2 \in DOMAIN t
    BY <1>2
  <2>. QED
    BY <1>2, <1>3, <2>1 DEF FutureHead, FutureHeader, ImportTodo
<1>8. Agree(disk.canon, mem.cur, mem.header) => Agree(disk'.canon, mem.cur, mem.header)
  <2>0. mem.cur \in Blocks /\ mem.header \in Blocks
    BY <1>2 DEF DiskType
  <2>1. \A a \in Line[mem.cur] : Num(a) \in Numbers /\ Num(a) <= Num(mem.cur)
    BY <2>0, LineBelow, LineNested, NumFacts
  <2>2. \A a \in Line[mem.header] : Num(a) \in Numbers
    BY <2>0, LineNested, NumFacts
  <2>3. CanonIn(disk.canon, mem.cur) => CanonIn(disk'.canon, mem.cur)
    BY <1>4, <2>1 DEF CanonIn
  <2>4. CutIn(disk.canon, mem.header) => CutIn(disk'.canon, mem.header)
    BY <1>4, <2>2 DEF CutIn
  <2>. QED
    BY <2>3, <2>4 DEF Agree
<1>9. HeadsStored(disk') /\ TodoOf(Tail(t), disk')
  BY <1>2, <1>3, <1>4, <1>7, <1>8, ImportPop
<1>. QED
  BY <1>1, <1>2, <1>5, <1>6, <1>9 DEF ChainOf

\* A canonical hash next to the line of the head: the new block's line is
\* canonical, and if it was already, the header stays on one line with it.
LEMMA CanonAgree ==
  ASSUME NEW c \in [Numbers -> Blocks \cup {None}], NEW cur \in Blocks, NEW h \in Blocks,
         NEW x \in Blocks, Agree(c, cur, h), Follows(x, cur),
         NEW c2, c2 = [c EXCEPT ![Num(x)] = x]
  PROVE  Agree(c2, x, x) /\ (c[Num(x)] = x => Agree(c2, x, h))
<1>0. Num(x) \in Numbers /\ Num(x) \in Nat /\ Num(cur) \in Nat /\ Num(h) \in Nat
  BY NumFacts
<1>1. \A a \in Line[x] : a # x => a \in Line[cur]
  <2>1. CASE x \in Line[cur]
    BY <2>1, LineNested
  <2>2. CASE x # GenesisBlock /\ ParentOf(x) \in Line[cur]
    BY <2>2, LineNested, LineParent
  <2>. QED
    BY <2>1, <2>2 DEF Follows
<1>2. \A a \in Line[x] : Num(a) \in Numbers /\ (a # x => Num(a) # Num(x))
  BY LineNested, LineBelow, NumFacts
<1>3. CanonIn(c2, x)
  <2>. SUFFICES ASSUME NEW a \in Line[x] PROVE c2[Num(a)] = a
    BY DEF CanonIn
  <2>1. CASE a = x
    BY <1>0, <2>1
  <2>2. CASE a # x
    <3>1. c[Num(a)] = a
      BY <1>1, <2>2 DEF Agree, CanonIn
    <3>. QED
      BY <1>0, <1>2, <2>2, <3>1
  <2>. QED
    BY <2>1, <2>2
<1>4. Agree(c2, x, x)
  BY <1>3, LineBasics DEF Agree, CanonIn, CutIn, Related
<1>5. ASSUME c[Num(x)] = x PROVE Agree(c2, x, h)
  <2>1. c2 = c
    BY <1>0, <1>5
  <2>2. CASE x \in Line[cur]
    <3>1. cur \in Line[h] => x \in Line[h]
      BY <2>2, LineNested
    <3>2. h \in Line[cur] => x \in Line[h] \/ h \in Line[x]
      BY <2>2, LineComparable
    <3>3. Related(x, h)
      BY <3>1, <3>2 DEF Agree, Related
    <3>. QED
      BY <1>3, <2>1, <3>3 DEF Agree
  <2>3. CASE x \notin Line[cur]
    <3>1. x # GenesisBlock /\ ParentOf(x) \in Line[cur]
      BY <2>3 DEF Follows
    <3>2. ~(Num(x) <= Num(cur))
      <4>. SUFFICES ASSUME Num(x) <= Num(cur) PROVE FALSE
        OBVIOUS
      <4>1. AncestorAt(cur, Num(x)) \in Line[cur] /\ Num(AncestorAt(cur, Num(x))) = Num(x)
        BY <1>0, AncestorIn
      <4>2. c[Num(x)] = AncestorAt(cur, Num(x))
        BY <4>1 DEF Agree, CanonIn
      <4>. QED
        BY <1>5, <2>3, <4>1, <4>2
    <3>3. ParentOf(x) = cur /\ Num(x) = Num(cur) + 1
      <4>1. Num(ParentOf(x)) <= Num(cur) /\ (Num(ParentOf(x)) = Num(cur) => ParentOf(x) = cur)
        BY <3>1, LineBelow
      <4>2. Num(x) = Num(ParentOf(x)) + 1 /\ Num(ParentOf(x)) \in Nat
        BY <3>1, NumFacts
      <4>3. Num(ParentOf(x)) = Num(cur)
        BY <1>0, <3>2, <4>1, <4>2
      <4>. QED
        BY <4>1, <4>2, <4>3
    <3>4. h \in Line[cur] => h \in Line[x]
      BY <3>1, <3>3, LineParent
    <3>5. ASSUME cur \in Line[h], h # cur PROVE x \in Line[h]
      <4>1. Num(cur) <= Num(h) /\ Num(cur) # Num(h)
        BY <3>5, LineBelow
      <4>2. Num(x) <= Num(h)
        BY <1>0, <3>3, <4>1
      <4>3. AncestorAt(h, Num(x)) \in Line[h] /\ Num(AncestorAt(h, Num(x))) = Num(x)
        BY <1>0, <4>2, AncestorIn
      <4>4. c[Num(x)] \in {AncestorAt(h, Num(x)), None}
        BY <4>3 DEF Agree, CutIn
      <4>5. x # None
        BY NumFacts
      <4>. QED
        BY <1>5, <4>3, <4>4, <4>5
    <3>6. Related(x, h)
      <4>1. h = cur => h \in Line[cur]
        BY LineBasics
      <4>. QED
        BY <3>4, <3>5, <4>1 DEF Agree, Related
    <3>. QED
      BY <1>3, <2>1, <3>6 DEF Agree
  <2>. QED
    BY <2>2, <2>3
<1>. QED
  BY <1>4, <1>5

\* JoinIs for writes, with the joined sequence under a name of its own.
LEMMA JoinOps ==
  ASSUME NEW s \in Seq(Ops), NEW t \in Seq(Ops), NEW u, u = s \o t
  PROVE  /\ u \in Seq(Ops) /\ Len(s) \in Nat /\ Len(t) \in Nat
         /\ Len(u) = Len(s) + Len(t) /\ DOMAIN u = 1 .. Len(s) + Len(t)
         /\ DOMAIN s = 1 .. Len(s) /\ DOMAIN t = 1 .. Len(t)
         /\ \A i \in 1 .. Len(s) : u[i] = s[i]
         /\ \A i \in 1 .. Len(t) : u[Len(s) + i] = t[i]
         /\ \A i \in Len(s) + 1 .. Len(s) + Len(t) : u[i] = t[i - Len(s)]
BY JoinIs

\* The head writes that follow a canonical hash.
\* The head writes that follow a canonical hash.
HeadWrites(x, forced) ==
  <<Op("headBlock", x)>> \o (IF forced THEN <<Op("headHeader", x), Op("headFast", x)>> ELSE <<>>)

\* What is left to do after a canonical hash.
\* They replace it at the front.
CanonWrites(t, forced) == HeadWrites(t[1].block, forced) \o Tail(t)

\* The block head is moved first; header and fast head only if they are forced.
LEMMA HeadWritesAre ==
  ASSUME NEW x \in Blocks, NEW forced \in BOOLEAN, NEW p, p = HeadWrites(x, forced)
  PROVE  /\ p \in Seq(Ops) /\ Len(p) \in {1, 3} /\ (Len(p) = 3 <=> forced)
         /\ p[1].op = "headBlock" /\ p[1].block = x
         /\ forced => p[2].op = "headHeader" /\ p[2].block = x /\ p[3].op = "headFast"
<1>1. /\ Op("headBlock", x) \in Ops /\ Op("headBlock", x).op = "headBlock" /\ Op("headBlock", x).block = x
      /\ Op("headHeader", x) \in Ops /\ Op("headHeader", x).op = "headHeader" /\ Op("headHeader", x).block = x
      /\ Op("headFast", x) \in Ops /\ Op("headFast", x).op = "headFast"
  BY OpIs DEF OpNames
<1>. DEFINE p1 == <<Op("headBlock", x)>>
            p2 == <<Op("headHeader", x), Op("headFast", x)>>
<1>2. p1 \in Seq(Ops) /\ Len(p1) = 1 /\ p1[1] = Op("headBlock", x)
  BY <1>1
<1>3. p2 \in Seq(Ops) /\ Len(p2) = 2 /\ p2[1] = Op("headHeader", x) /\ p2[2] = Op("headFast", x)
  BY <1>1
<1>4. CASE forced
  <2>1. p = p1 \o p2
    BY <1>4 DEF HeadWrites
  <2>. HIDE DEF p1, p2
  <2>2. /\ p \in Seq(Ops) /\ Len(p) = Len(p1) + Len(p2)
        /\ \A i \in 1 .. Len(p1) : p[i] = p1[i]
        /\ \A i \in 1 .. Len(p2) : p[Len(p1) + i] = p2[i]
    <3>1. p1 \in Seq(Ops) /\ p2 \in Seq(Ops)
      BY <1>2, <1>3
    <3>. QED
      BY ONLY <2>1, <3>1, JoinOps
  <2>3. p[1] = p1[1] /\ p[2] = p2[1] /\ p[3] = p2[2] /\ Len(p) = 3
    <3>1. 1 \in 1 .. 1 /\ 1 \in 1 .. 2 /\ 2 \in 1 .. 2 /\ 1 + 1 = 2 /\ 1 + 2 = 3
      OBVIOUS
    <3>. QED
      BY <1>2, <1>3, <2>2, <3>1
  <2>. QED
    BY <1>1, <1>2, <1>3, <1>4, <2>2, <2>3, Zenon
<1>5. CASE ~forced
  <2>1. p = p1 \o <<>>
    BY <1>5 DEF HeadWrites
  <2>. HIDE DEF p1
  <2>2. p \in Seq(Ops) /\ Len(p) = 1 /\ p[1] = p1[1]
    BY <1>2, <2>1
  <2>. QED
    BY <1>1, <1>2, <1>5, <2>2
<1>. QED
  BY <1>4, <1>5

\* An index behind a joined prefix of length N, counted from the new front.
LEMMA Shifted ==
  ASSUME NEW N \in Nat, NEW i \in Nat, NEW j \in Nat, i > N, j > N,
         NEW k \in ((i - N) + 1) + 1 .. ((j - N) + 1) - 1
  PROVE  /\ (k - 1) + N \in 1 .. j /\ (k - 1) + N > N /\ (((k - 1) + N) - N) + 1 = k
         /\ (k - 1) + N \in i + 1 .. j - 1
OBVIOUS

\* A canonical hash is replaced by the head writes that go with it: both heads
\* will be its block, and the hashes left go up from there.
LEMMA CanonTodo ==
  ASSUME NEW t \in Seq(Ops), t # <<>>, NEW bs, ImportTodo(t, bs), t[1].op = "canon",
         NEW forced \in BOOLEAN, NEW u, u = CanonWrites(t, forced)
  PROVE  /\ u \in Seq(Ops) /\ ImportTodo(u, bs)
         /\ \A b : FutureHead(u, b) = t[1].block
         /\ \A h : FutureHeader(u, h) = IF forced THEN t[1].block ELSE h
         /\ \A b : CanonChain(t, b) => CanonChain(u, t[1].block)
<1>. DEFINE s == Tail(t)
            x == t[1].block
            p == HeadWrites(x, forced)
            N == Len(p)
<1>1. /\ Len(t) \in Nat /\ Len(t) >= 1 /\ DOMAIN s = 1 .. Len(t) - 1 /\ DOMAIN t = 1 .. Len(t)
      /\ s \in Seq(Ops) /\ Len(s) = Len(t) - 1
      /\ \A i \in 1 .. Len(t) - 1 : s[i] = t[i + 1]
  BY TailIs
<1>2. x \in Blocks /\ Line[x] \subseteq bs
  <2>1. 1 \in DOMAIN t
    BY <1>1
  <2>2. Grounded(t, 1, bs)
    BY <2>1 DEF ImportTodo
  <2>. QED
    BY <2>2 DEF Grounded
<1>3. /\ p \in Seq(Ops) /\ N \in {1, 3} /\ (N = 3 <=> forced)
      /\ p[1].op = "headBlock" /\ p[1].block = x
      /\ forced => p[2].op = "headHeader" /\ p[2].block = x /\ p[3].op = "headFast"
  <2>. HIDE DEF x
  <2>. QED
    BY <1>2, HeadWritesAre
<1>4. ImportTodo(s, bs) /\ \A i \in DOMAIN s : s[i].op \notin {"headBlock", "headHeader"}
  BY TailImport
<1>5. u = p \o s
  BY DEF CanonWrites
<1>. HIDE DEF s, p, x, N
<1>6. /\ u \in Seq(Ops) /\ DOMAIN u = 1 .. N + Len(s) /\ Len(u) = N + Len(s)
      /\ Len(s) \in Nat /\ N \in Nat /\ N >= 1 /\ DOMAIN s = 1 .. Len(s)
      /\ \A i \in 1 .. N : u[i] = p[i]
      /\ \A i \in N + 1 .. N + Len(s) : u[i] = s[i - N]
  <2>1. p \in Seq(Ops) /\ s \in Seq(Ops)
    BY <1>1, <1>3
  <2>2. N \in Nat /\ N >= 1
    BY <1>3
  <2>. QED
    BY ONLY <1>5, <2>1, <2>2, JoinOps DEF N
<1>7. \A i \in DOMAIN u :
        i \in 1 .. N \/ (i > N /\ i \in Nat /\ i - N \in DOMAIN s /\ u[i] = s[i - N])
  BY ONLY <1>6
<1>8. /\ u[1].op = "headBlock" /\ u[1].block = x
      /\ forced => u[2].op = "headHeader" /\ u[2].block = x /\ u[3].op = "headFast"
  <2>1. 1 \in 1 .. N /\ (forced => 2 \in 1 .. N /\ 3 \in 1 .. N)
    BY <1>3
  <2>2. u[1] = p[1] /\ (forced => u[2] = p[2] /\ u[3] = p[3])
    BY <1>6, <2>1
  <2>. QED
    BY <1>3, <2>2
<1>9. \A i \in 1 .. N : i = 1 \/ (forced /\ i \in {2, 3})
  BY <1>3
<1>10. ASSUME NEW i \in DOMAIN u, i > N, i \in Nat, i - N \in DOMAIN s, u[i] = s[i - N],
              u[i].op = "canon"
       PROVE  Grounded(u, i, bs)
  <2>1. Grounded(s, i - N, bs)
    BY <1>4, <1>10 DEF ImportTodo
  <2>2. ASSUME NEW a, NEW j \in 1 .. (i - N) - 1, s[j].op = "block" /\ s[j].block = a
        PROVE  \E k \in 1 .. i - 1 : u[k].op = "block" /\ u[k].block = a
    <3>1. j + N \in 1 .. i - 1 /\ j + N \in N + 1 .. N + Len(s) /\ (j + N) - N = j
      BY <1>6, <1>10
    <3>2. u[j + N] = s[j]
      BY <1>6, <3>1
    <3>. QED
      BY <2>2, <3>1, <3>2
  <2>. QED
    BY <1>10, <2>1, <2>2 DEF Grounded
<1>11. ASSUME NEW i \in DOMAIN u
       PROVE  /\ u[i].op \notin {"rewind", "delete", "load"}
              /\ u[i].op = "block" => u[i].block \in Blocks
              /\ u[i].op \in {"canon", "headBlock", "headHeader"} => Grounded(u, i, bs)
              /\ u[i].op = "headBlock" => i = 1
              /\ u[i].op = "headHeader" => i = 1 \/ (i = 2 /\ u[1].op = "headBlock")
  <2>1. CASE i \in 1 .. N
    <3>1. u[i].block = x => Grounded(u, i, bs)
      BY <1>2 DEF Grounded
    <3>. QED
      BY <1>8, <1>9, <2>1, <3>1
  <2>2. CASE i > N /\ i \in Nat /\ i - N \in DOMAIN s /\ u[i] = s[i - N]
    BY <1>4, <1>10, <2>2 DEF ImportTodo
  <2>. QED
    BY <1>7, <2>1, <2>2
<1>12. ImportTodo(u, bs)
  BY <1>11 DEF ImportTodo
<1>13. \A b : FutureHead(u, b) = x
  <2>1. u # <<>>
    BY <1>1, <1>3, <1>6
  <2>. QED
    BY <1>8, <2>1 DEF FutureHead
<1>14. \A h : FutureHeader(u, h) = IF forced THEN x ELSE h
  <2>1. forced => Len(u) >= 2
    <3>1. forced => N >= 2
      BY <1>3
    <3>. QED
      BY ONLY <1>6, <3>1
  <2>2. ~forced /\ Len(u) >= 2 => 2 - N \in DOMAIN s /\ u[2] = s[2 - N]
    <3>1. ~forced => N = 1
      BY <1>3
    <3>. QED
      BY ONLY <1>6, <3>1
  <2>. QED
    BY <1>4, <1>8, <2>1, <2>2 DEF FutureHeader
<1>15. ASSUME NEW i \in DOMAIN u, u[i].op = "canon"
       PROVE  i > N /\ i \in Nat /\ (i - N) + 1 \in DOMAIN t /\ u[i] = t[(i - N) + 1]
  <2>1. i \notin 1 .. N
    BY <1>8, <1>9, <1>15
  <2>. QED
    BY <1>1, <1>6, <1>7, <2>1
<1>16. \A i \in DOMAIN u : i > N => u[i] = t[(i - N) + 1]
  <2>1. \A i \in DOMAIN u : i > N => u[i] = s[i - N] /\ i - N \in 1 .. Len(t) - 1
    BY ONLY <1>1, <1>6, <1>7
  <2>. QED
    BY ONLY <1>1, <2>1
<1>17. ASSUME NEW b, CanonChain(t, b), NEW j \in DOMAIN u, FirstCanon(u, j)
       PROVE  Follows(u[j].block, x)
  <2>1. j > N /\ j \in Nat /\ (j - N) + 1 \in DOMAIN t /\ u[j] = t[(j - N) + 1] /\ u[j].op = "canon"
    BY <1>15, <1>17 DEF FirstCanon
  <2>2. ASSUME NEW k \in 2 .. j - N PROVE t[k].op # "canon"
    <3>1. (k - 1) + N \in DOMAIN u /\ (k - 1) + N > N /\ (((k - 1) + N) - N) + 1 = k
          /\ (k - 1) + N \in 1 .. j - 1
      BY ONLY <1>1, <1>6, <2>1, <2>2
    <3>. QED
      BY <1>16, <1>17, <3>1 DEF FirstCanon
  <2>3. ((j - N) + 1) - 1 = j - N /\ 1 + 1 = 2 /\ 1 < (j - N) + 1
    BY <1>6, <2>1
  <2>4. NextCanon(t, 1, (j - N) + 1)
    BY <2>1, <2>2, <2>3 DEF NextCanon
  <2>5. u[j].block # GenesisBlock /\ ParentOf(u[j].block) = x
    <3>1. 1 \in DOMAIN t
      BY <1>1
    <3>2. t[(j - N) + 1].block # GenesisBlock /\ ParentOf(t[(j - N) + 1].block) = t[1].block
      BY <1>17, <2>1, <2>4, <3>1 DEF CanonChain
    <3>. QED
      BY <2>1, <3>2 DEF x
  <2>. QED
    BY <1>2, <2>5, LineBasics DEF Follows
<1>18. ASSUME NEW b, CanonChain(t, b), NEW i \in DOMAIN u, NEW j \in DOMAIN u, NextCanon(u, i, j)
       PROVE  u[j].block # GenesisBlock /\ ParentOf(u[j].block) = u[i].block
  <2>1. /\ i > N /\ i \in Nat /\ (i - N) + 1 \in DOMAIN t /\ u[i] = t[(i - N) + 1] /\ u[i].op = "canon"
        /\ j > N /\ j \in Nat /\ (j - N) + 1 \in DOMAIN t /\ u[j] = t[(j - N) + 1] /\ u[j].op = "canon"
        /\ i < j
    BY <1>15, <1>18 DEF NextCanon
  <2>2. ASSUME NEW k \in ((i - N) + 1) + 1 .. ((j - N) + 1) - 1 PROVE t[k].op # "canon"
    <3>0. N \in Nat /\ j <= N + Len(s) /\ Len(s) \in Nat /\ DOMAIN u = 1 .. N + Len(s)
      BY <1>6
    <3>1. (k - 1) + N \in DOMAIN u /\ (k - 1) + N > N /\ (((k - 1) + N) - N) + 1 = k
          /\ (k - 1) + N \in i + 1 .. j - 1
      <4>1. (k - 1) + N \in 1 .. j /\ (k - 1) + N > N /\ (((k - 1) + N) - N) + 1 = k
            /\ (k - 1) + N \in i + 1 .. j - 1
        BY <2>1, <3>0, Shifted, Zenon
      <4>. QED
        BY ONLY <2>1, <3>0, <4>1
    <3>. QED
      BY <1>16, <1>18, <3>1 DEF NextCanon
  <2>3. (i - N) + 1 < (j - N) + 1
    BY <1>6, <2>1
  <2>4. NextCanon(t, (i - N) + 1, (j - N) + 1)
    BY <2>1, <2>2, <2>3 DEF NextCanon
  <2>. QED
    BY <1>18, <2>1, <2>4 DEF CanonChain
<1>19. \A b : CanonChain(t, b) => CanonChain(u, x)
  BY <1>17, <1>18, Zenon DEF CanonChain
<1>. QED
  BY <1>6, <1>12, <1>13, <1>14, <1>19 DEF x

\* WriteCanonicalHash: the number that is written follows the line of the head
\* that is about to be left.
LEMMA CanonStep ==
  ASSUME ChainInd, WriteCanonicalHash
  PROVE  ChainOf(disk', mem', todo', importing')
<1>1. Doing("canon") /\ mem' = mem
  BY DEF WriteCanonicalHash
<1>. DEFINE t == todo
            x == t[1].block
            forced == disk.canon[Num(x)] # x
<1>2. /\ mem.up /\ t \in Seq(Ops) /\ t # <<>> /\ t[1].op = "canon" /\ It = x
      /\ Tail(t) \in Seq(Ops) /\ importing' = importing
      /\ mem.cur = disk.headBlock /\ mem.header = disk.headHeader
      /\ DiskType(disk) /\ HeadsStored(disk) /\ TodoOf(t, disk)
      /\ importing \in Seq(Blocks \ {GenesisBlock})
      /\ DOMAIN mem = {"up", "cur", "header", "fast", "gc", "vaults"}
  BY <1>1, DoingIs
<1>3. ImportTodo(t, disk.blocks) /\ (disk.crashes = 0 => ImportCanon(t, disk))
  BY <1>2, Modes
<1>4. 1 \in DOMAIN t /\ x \in Blocks
  <2>1. 1 \in DOMAIN t
    BY <1>2, TailIs
  <2>. QED
    BY <1>2, <1>3, <2>1 DEF ImportTodo, Grounded
<1>5. /\ DiskType(disk') /\ disk'.blocks = disk.blocks /\ disk'.canon = [disk.canon EXCEPT ![Num(x)] = x]
      /\ disk'.headBlock = disk.headBlock /\ disk'.headHeader = disk.headHeader
      /\ disk'.crashes = disk.crashes
  <2>1. disk' = [disk EXCEPT !.canon[Num(x)] = x]
    BY <1>2 DEF WriteCanonicalHash
  <2>2. [disk.canon EXCEPT ![Num(x)] = x] \in [Numbers -> Blocks \cup {None}]
    BY <1>2, <1>4, Zenon DEF DiskType
  <2>. HIDE DEF x
  <2>. QED
    BY <1>2, <2>1, <2>2 DEF DiskType
<1>6. todo' = CanonWrites(t, forced)
  BY <1>2, Zenon DEF WriteCanonicalHash, HeadWrites, CanonWrites
<1>7. /\ todo' \in Seq(Ops) /\ ImportTodo(todo', disk.blocks)
      /\ FutureHead(todo', disk.headBlock) = x
      /\ forced => FutureHeader(todo', disk.headHeader) = x
      /\ ~forced => FutureHeader(todo', disk.headHeader) = disk.headHeader
      /\ CanonChain(t, disk.headBlock) => CanonChain(todo', x)
  <2>1. forced \in BOOLEAN
    OBVIOUS
  <2>2. t \in Seq(Ops) /\ t # <<>> /\ t[1].op = "canon"
    BY <1>2
  <2>. HIDE DEF forced
  <2>. QED
    BY ONLY <1>3, <1>6, <2>1, <2>2, CanonTodo
<1>8. ASSUME disk.crashes = 0 PROVE ImportCanon(todo', disk')
  <2>1. FutureHead(t, disk.headBlock) = disk.headBlock /\ FutureHeader(t, disk.headHeader) = disk.headHeader
    <3>1. Len(t) >= 2 => 2 \in DOMAIN t
      BY <1>2
    <3>. QED
      BY <1>2, <1>3, <3>1 DEF FutureHead, FutureHeader, ImportTodo
  <2>2. Agree(disk.canon, disk.headBlock, disk.headHeader) /\ CanonChain(t, disk.headBlock)
    BY <1>3, <1>8, <2>1 DEF ImportCanon
  <2>3. Follows(x, disk.headBlock)
    <3>1. FirstCanon(t, 1)
      BY <1>2 DEF FirstCanon
    <3>. QED
      BY <1>4, <2>2, <3>1 DEF CanonChain
  <2>4. disk.canon \in [Numbers -> Blocks \cup {None}] /\ disk.headBlock \in Blocks /\ disk.headHeader \in Blocks
    BY <1>2 DEF DiskType
  <2>5. /\ Agree(disk'.canon, x, x)
        /\ disk.canon[Num(x)] = x => Agree(disk'.canon, x, disk.headHeader)
    <3>. HIDE DEF x
    <3>. QED
      BY <1>4, <1>5, <2>2, <2>3, <2>4, CanonAgree
  <2>. QED
    BY <1>5, <1>7, <2>2, <2>5 DEF ImportCanon
<1>9. TodoOf(todo', disk')
  BY <1>5, <1>7, <1>8 DEF TodoOf
<1>10. HeadsStored(disk') /\ MemOf(mem', disk', todo')
  BY <1>1, <1>2, <1>5 DEF HeadsStored, MemOf
<1>. QED
  BY <1>2, <1>5, <1>7, <1>9, <1>10 DEF ChainOf

\* A head write of SetHead: the turn it belongs to.
LEMMA TurnIs ==
  ASSUME NEW t \in Seq(Ops), NEW d, Rewinding(t, d),
         t[1].op \in {"headBlock", "headFast", "headHeader"}
  PROVE  \E top \in Blocks, n \in Nat, m \in Nat, k \in Nat :
           /\ RewindTodo(t, d, top, n, m, k) /\ WithinTurn(t, d, top, m, k) /\ k >= 1
           /\ t[1].op = "headHeader" => k = 1 /\ t[1].block = AncestorAt(top, m)
           /\ t[1].op # "headHeader" => k >= 2 /\ t[2].op # "headBlock"
<1>1. PICK top \in Blocks, n \in Nat, m \in Nat, k \in Nat :
        /\ RewindTodo(t, d, top, n, m, k)
        /\ k > 0 => WithinTurn(t, d, top, m, k)
  BY DEF Rewinding
<1>2. k # 0
  <2>. SUFFICES ASSUME k = 0 PROVE FALSE
    OBVIOUS
  <2>1. CASE m = n
    <3>1. t[1] = [op |-> "delete", block |-> Rewound(top, n)]
      BY <1>1, <2>1 DEF RewindTodo
    <3>. QED
      BY <3>1
  <2>2. CASE m # n
    <3>1. t[0 + 1] = Op("rewind", AncestorAt(top, m + 1 - 1)) /\ 0 + 1 = 1
      BY <1>1, <2>2 DEF RewindTodo
    <3>. QED
      BY <3>1 DEF Op
  <2>. QED
    BY <2>1, <2>2
<1>3. WithinTurn(t, d, top, m, k) /\ k >= 1
  BY <1>1, <1>2
<1>4. t[k].op = "headHeader" /\ t[k].block = AncestorAt(top, m)
  BY <1>3 DEF WithinTurn, Op
<1>5. \A i \in 1 .. k - 1 : t[i].op # "headHeader" /\ (t[i].op = "headBlock" => i = 1)
  BY <1>3 DEF WithinTurn
<1>6. t[1].op = "headHeader" => k = 1
  BY <1>3, <1>5
<1>7. t[1].op # "headHeader" => k >= 2 /\ t[2].op # "headBlock"
  <2>. SUFFICES ASSUME t[1].op # "headHeader" PROVE k >= 2 /\ t[2].op # "headBlock"
    OBVIOUS
  <2>1. k >= 2
    BY <1>3, <1>4
  <2>2. CASE k = 2
    BY <1>4, <2>1, <2>2
  <2>3. CASE k # 2
    BY <1>5, <2>1, <2>3
  <2>. QED
    BY <2>1, <2>2, <2>3
<1>. QED
  BY <1>1, <1>3, <1>4, <1>6, <1>7

\* One write of a turn is done.
LEMMA RewindPop ==
  ASSUME NEW t \in Seq(Ops), t # <<>>, NEW d, NEW d2, d2.blocks = d.blocks,
         NEW top \in Blocks, NEW n \in Nat, NEW m \in Nat, NEW k \in Nat, k >= 1,
         RewindTodo(t, d, top, n, m, k)
  PROVE  RewindTodo(Tail(t), d2, top, n, m, k - 1)
<1>. DEFINE s == Tail(t)
            N == m - n
<1>1. /\ Len(t) \in Nat /\ Len(s) = Len(t) - 1
      /\ \A i \in 1 .. Len(t) - 1 : s[i] = t[i + 1]
  BY TailIs
<1>2. n < Num(top) /\ n <= m /\ m <= Num(top) /\ Line[top] \subseteq d.blocks
  BY DEF RewindTodo
<1>3. /\ N \in Nat /\ Len(t) = k + N + 2
      /\ \A i \in 1 .. N : t[k + i] = Op("rewind", AncestorAt(top, m + 1 - i))
      /\ t[k + N + 1] = [op |-> "delete", block |-> Rewound(top, n)]
      /\ t[k + N + 2] = Op("load", None)
  BY <1>2 DEF RewindTodo
<1>. HIDE DEF s, N
<1>4. /\ \A i \in 1 .. N : s[(k - 1) + i] = t[k + i]
      /\ s[(k - 1) + N + 1] = t[k + N + 1] /\ s[(k - 1) + N + 2] = t[k + N + 2]
      /\ Len(s) = (k - 1) + N + 2
  <2>1. \A i \in 1 .. N + 2 : (k - 1) + i \in 1 .. Len(t) - 1 /\ ((k - 1) + i) + 1 = k + i
    BY <1>3
  <2>2. \A i \in 1 .. N + 2 : s[(k - 1) + i] = t[k + i]
    BY <1>1, <2>1
  <2>3. /\ N + 1 \in 1 .. N + 2 /\ N + 2 \in 1 .. N + 2 /\ \A i \in 1 .. N : i \in 1 .. N + 2
        /\ (k - 1) + N + 1 = (k - 1) + (N + 1) /\ (k - 1) + N + 2 = (k - 1) + (N + 2)
        /\ k + N + 1 = k + (N + 1) /\ k + N + 2 = k + (N + 2)
    BY <1>3
  <2>4. Len(s) = (k - 1) + N + 2
    BY <1>1, <1>3
  <2>5. \A i \in 1 .. N : s[(k - 1) + i] = t[k + i]
    BY ONLY <2>2, <2>3
  <2>6. s[(k - 1) + N + 1] = t[k + N + 1] /\ s[(k - 1) + N + 2] = t[k + N + 2]
    <3>1. s[(k - 1) + (N + 1)] = t[k + (N + 1)] /\ s[(k - 1) + (N + 2)] = t[k + (N + 2)]
      BY ONLY <2>2, <2>3
    <3>. QED
      BY ONLY <2>3, <3>1
  <2>. QED
    BY ONLY <2>4, <2>5, <2>6, Zenon
<1>5. RewindTodo(s, d2, top, n, m, k - 1)
  BY <1>2, <1>3, <1>4, Zenon DEF RewindTodo, N
<1>. QED
  BY <1>5 DEF s
=============================================================================
