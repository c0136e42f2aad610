---------------------------- MODULE ChainDBProofs ----------------------------
(***************************************************************************)
(* Theorems about the chain database: whatever write a crash cuts off, the *)
(* heads on disk are stored with all their ancestors; without a crash the  *)
(* canonical numbers of an idle node are the chain of its head; Stop       *)
(* flushes the state of the head.  ChainDBImport has the invariant they    *)
(* follow from; here are the steps of the heads, of a rewind and of the    *)
(* operations that start from an idle node, one lemma for each action.     *)
(***************************************************************************)
EXTENDS ChainDBImport

\* A head write of a turn is done, and it was not the last one.
LEMMA TurnGoesOn ==
  ASSUME NEW t \in Seq(Ops), t # <<>>, NEW d, NEW d2, d2.blocks = d.blocks,
         d2.headHeader = d.headHeader,
         NEW top \in Blocks, NEW n \in Nat, NEW m \in Nat, NEW k \in Nat, k >= 2,
         RewindTodo(t, d, top, n, m, k), WithinTurn(t, d, top, m, k),
         t[2].op # "headBlock", Num(d2.headBlock) <= m
  PROVE  Rewinding(Tail(t), d2) /\ Tail(t)[1].op # "headBlock"
<1>. DEFINE s == Tail(t)
<1>1. RewindTodo(s, d2, top, n, m, k - 1)
  BY RewindPop
<1>2. Len(t) \in Nat /\ Len(t) >= k + 1
  BY DEF RewindTodo
<1>3. \A i \in 1 .. Len(t) - 1 : s[i] = t[i + 1]
  BY TailIs
<1>. HIDE DEF s
<1>4. s[k - 1] = t[k] /\ s[1] = t[2] /\ \A i \in 1 .. (k - 1) - 1 : s[i] = t[i + 1]
  <2>1. /\ k - 1 \in 1 .. Len(t) - 1 /\ (k - 1) + 1 = k /\ 1 \in 1 .. Len(t) - 1 /\ 1 + 1 = 2
        /\ \A i \in 1 .. (k - 1) - 1 : i \in 1 .. Len(t) - 1
    BY <1>2
  <2>. QED
    BY <1>3, <2>1
<1>5. ASSUME NEW i \in 1 .. (k - 1) - 1
      PROVE  s[i].op = "headFast" \/ (s[i].op = "headBlock" /\ i = 1)
  <2>1. i + 1 \in 1 .. k - 1 /\ i + 1 # 1
    OBVIOUS
  <2>. QED
    BY <1>4, <2>1 DEF WithinTurn
<1>6. WithinTurn(s, d2, top, m, k - 1)
  BY <1>4, <1>5 DEF WithinTurn
<1>7. k - 1 \in Nat /\ k - 1 # 0
  OBVIOUS
<1>. QED
  BY <1>1, <1>4, <1>6, <1>7, Zenon DEF Rewinding, s

\* Between two turns the next write is a turn or the deletion.
LEMMA BetweenFirst ==
  ASSUME NEW t \in Seq(Ops), NEW d, NEW top \in Blocks, NEW n \in Nat, NEW m \in Nat,
         RewindTodo(t, d, top, n, m, 0)
  PROVE  /\ m = n => t[1].op = "delete" /\ t[1].block = Rewound(top, n)
                     /\ Len(t) = 2 /\ t[2] = Op("load", None)
         /\ m # n => t[1].op = "rewind" /\ t[1].block = AncestorAt(top, m)
<1>1. CASE m = n
  <2>1. t[1] = [op |-> "delete", block |-> Rewound(top, n)]
    BY <1>1 DEF RewindTodo
  <2>2. Len(t) = 2 /\ t[2] = Op("load", None)
    BY <1>1 DEF RewindTodo
  <2>. QED
    BY <1>1, <2>1, <2>2
<1>2. CASE m # n
  <2>1. t[0 + 1] = Op("rewind", AncestorAt(top, m + 1 - 1)) /\ 0 + 1 = 1 /\ m + 1 - 1 = m
    BY <1>2 DEF RewindTodo
  <2>. QED
    BY <1>2, <2>1 DEF Op
<1>. QED
  BY <1>1, <1>2

\* WriteHeadBlock, in an import or in a turn of SetHead.
LEMMA HeadBlockStep ==
  ASSUME ChainInd, WriteHeadBlock
  PROVE  ChainOf(disk', mem', todo', importing')
<1>1. Doing("headBlock") /\ todo' = Tail(todo)
  BY DEF WriteHeadBlock
<1>. DEFINE t == todo
            x == t[1].block
<1>2. /\ mem.up /\ t \in Seq(Ops) /\ t # <<>> /\ t[1].op = "headBlock" /\ It = x
      /\ Tail(t) \in Seq(Ops) /\ importing' = importing
      /\ mem.cur = disk.headBlock /\ mem.header = disk.headHeader
      /\ DiskType(disk) /\ HeadsStored(disk) /\ TodoOf(t, disk)
      /\ importing \in Seq(Blocks \ {GenesisBlock})
      /\ DOMAIN mem = {"up", "cur", "header", "fast", "gc", "vaults"}
  BY <1>1, DoingIs
<1>. HIDE DEF x
<1>3. /\ disk'.blocks = disk.blocks /\ disk'.canon = disk.canon
      /\ disk'.headBlock = x /\ disk'.headHeader = disk.headHeader
      /\ disk'.crashes = disk.crashes
      /\ x \in Blocks => DiskType(disk')
  BY <1>2 DEF WriteHeadBlock, DiskType
<1>4. MemOf(mem', disk', todo')
  BY <1>2, <1>3, Zenon DEF WriteHeadBlock, MemOf
<1>5. CASE ImportTodo(t, disk.blocks) /\ (disk.crashes = 0 => ImportCanon(t, disk))
  <2>1. x \in Blocks
    <3>1. 1 \in DOMAIN t
      BY <1>2, TailIs
    <3>. QED
      BY <1>2, <1>5, <3>1 DEF ImportTodo, Grounded, x
  <2>2. HeadsStored(disk') /\ TodoOf(Tail(t), disk')
    BY <1>2, <1>3, <1>5, ImportPop DEF x
  <2>. QED
    BY <1>1, <1>2, <1>3, <1>4, <2>1, <2>2 DEF ChainOf
<1>6. CASE Rewinding(t, disk) /\ (disk.crashes = 0 => RewindCanon(t, disk))
  <2>1. PICK top \in Blocks, n \in Nat, m \in Nat, k \in Nat :
          /\ RewindTodo(t, disk, top, n, m, k) /\ WithinTurn(t, disk, top, m, k)
          /\ k >= 2 /\ t[2].op # "headBlock"
    BY <1>2, <1>6, TurnIs
  <2>2. m < Num(top) /\ Line[top] \subseteq disk.blocks /\ Num(top) \in Nat
    BY <2>1, NumFacts DEF RewindTodo, WithinTurn
  <2>3. AncestorAt(top, m) \in Line[top] /\ Num(AncestorAt(top, m)) = m
    BY <2>2, AncestorIn
  <2>4. x \in {AncestorAt(top, m), GenesisBlock}
    BY <1>2, <2>1 DEF WithinTurn, x
  <2>5. x \in Line[top] /\ x \in Blocks /\ Num(x) <= m
    BY <2>3, <2>4, GenesisInLine, LineNested, NumFacts
  <2>6. Rewinding(Tail(t), disk') /\ Tail(t)[1].op # "headBlock"
    BY <1>2, <1>3, <2>1, <2>5, TurnGoesOn, Zenon
  <2>7. Line[x] \subseteq disk.blocks
    BY <2>2, <2>5, LineNested
  <2>8. HeadsStored(disk')
    BY <1>2, <1>3, <2>7 DEF HeadsStored
  <2>9. ASSUME disk.crashes = 0 PROVE RewindCanon(Tail(t), disk')
    <3>1. Agree(disk.canon, disk.headBlock, disk.headHeader) /\ x \in Line[disk.headBlock]
      BY <1>2, <1>6, <2>9 DEF RewindCanon, x
    <3>2. CanonIn(disk.canon, x)
      <4>1. disk.headBlock \in Blocks
        BY <1>2 DEF DiskType
      <4>. QED
        BY <3>1, <4>1, LineNested DEF Agree, CanonIn
    <3>3. Related(x, disk.headHeader)
      <4>1. disk.headHeader \in Line[top]
        <5>1. m + 1 \in Nat /\ m + 1 <= Num(top)
          BY <2>2
        <5>. QED
          BY <2>1, <5>1, AncestorIn DEF WithinTurn
      <4>. QED
        BY <2>5, <4>1, LineComparable DEF Related
    <3>4. Agree(disk'.canon, disk'.headBlock, disk'.headHeader)
      BY <1>3, <3>1, <3>2, <3>3 DEF Agree
    <3>. QED
      BY <2>6, <3>4, Zenon DEF RewindCanon
  <2>. QED
    BY <1>1, <1>2, <1>3, <1>4, <2>5, <2>6, <2>8, <2>9 DEF ChainOf, TodoOf
<1>. QED
  BY <1>2, <1>5, <1>6, Modes

\* WriteHeadFast, in an import or in a turn of SetHead.
LEMMA HeadFastStep ==
  ASSUME ChainInd, WriteHeadFast
  PROVE  ChainOf(disk', mem', todo', importing')
<1>1. Doing("headFast") /\ todo' = Tail(todo)
  BY DEF WriteHeadFast
<1>. DEFINE t == todo
<1>2. /\ mem.up /\ t \in Seq(Ops) /\ t # <<>> /\ t[1].op = "headFast"
      /\ Tail(t) \in Seq(Ops) /\ importing' = importing
      /\ mem.cur = disk.headBlock /\ mem.header = disk.headHeader
      /\ DiskType(disk) /\ HeadsStored(disk) /\ TodoOf(t, disk)
      /\ importing \in Seq(Blocks \ {GenesisBlock})
      /\ DOMAIN mem = {"up", "cur", "header", "fast", "gc", "vaults"}
  BY <1>1, DoingIs
<1>3. /\ disk'.blocks = disk.blocks /\ disk'.canon = disk.canon
      /\ disk'.headBlock = disk.headBlock /\ disk'.headHeader = disk.headHeader
      /\ disk'.crashes = disk.crashes /\ DiskType(disk')
  BY <1>2 DEF WriteHeadFast, DiskType
<1>4. MemOf(mem', disk', todo')
  BY <1>2, <1>3, Zenon DEF WriteHeadFast, MemOf
<1>5. CASE ImportTodo(t, disk.blocks) /\ (disk.crashes = 0 => ImportCanon(t, disk))
  <2>1. HeadsStored(disk') /\ TodoOf(Tail(t), disk')
    BY <1>2, <1>3, <1>5, ImportPop
  <2>. QED
    BY <1>1, <1>2, <1>3, <1>4, <2>1 DEF ChainOf
<1>6. CASE Rewinding(t, disk) /\ (disk.crashes = 0 => RewindCanon(t, disk))
  <2>1. PICK top \in Blocks, n \in Nat, m \in Nat, k \in Nat :
          /\ RewindTodo(t, disk, top, n, m, k) /\ WithinTurn(t, disk, top, m, k)
          /\ k >= 2 /\ t[2].op # "headBlock"
    BY <1>2, <1>6, TurnIs
  <2>2. Num(disk.headBlock) <= m
    BY <1>2, <2>1 DEF WithinTurn
  <2>3. Rewinding(Tail(t), disk') /\ Tail(t)[1].op # "headBlock"
    BY <1>2, <1>3, <2>1, <2>2, TurnGoesOn, Zenon
  <2>4. HeadsStored(disk')
    BY <1>2, <1>3 DEF HeadsStored
  <2>5. disk.crashes = 0 => RewindCanon(Tail(t), disk')
    BY <1>3, <1>6, <2>3, Zenon DEF RewindCanon
  <2>. QED
    BY <1>1, <1>2, <1>3, <1>4, <2>3, <2>4, <2>5 DEF ChainOf, TodoOf
<1>. QED
  BY <1>2, <1>5, <1>6, Modes

\* WriteHeadHeader: in a turn of SetHead it is the last write, and the next turn
\* starts one lower.
LEMMA HeadHeaderStep ==
  ASSUME ChainInd, WriteHeadHeader
  PROVE  ChainOf(disk', mem', todo', importing')
<1>1. Doing("headHeader") /\ todo' = Tail(todo)
  BY DEF WriteHeadHeader
<1>. DEFINE t == todo
            x == t[1].block
<1>2. /\ mem.up /\ t \in Seq(Ops) /\ t # <<>> /\ t[1].op = "headHeader" /\ It = x
      /\ Tail(t) \in Seq(Ops) /\ importing' = importing
      /\ mem.cur = disk.headBlock /\ mem.header = disk.headHeader
      /\ DiskType(disk) /\ HeadsStored(disk) /\ TodoOf(t, disk)
      /\ importing \in Seq(Blocks \ {GenesisBlock})
      /\ DOMAIN mem = {"up", "cur", "header", "fast", "gc", "vaults"}
  BY <1>1, DoingIs
<1>. HIDE DEF x
<1>3. /\ disk'.blocks = disk.blocks /\ disk'.canon = disk.canon
      /\ disk'.headBlock = disk.headBlock /\ disk'.headHeader = x
      /\ disk'.crashes = disk.crashes
      /\ x \in Blocks => DiskType(disk')
  BY <1>2 DEF WriteHeadHeader, DiskType
<1>4. MemOf(mem', disk', todo')
  BY <1>2, <1>3, Zenon DEF WriteHeadHeader, MemOf
<1>5. CASE ImportTodo(t, disk.blocks) /\ (disk.crashes = 0 => ImportCanon(t, disk))
  <2>1. x \in Blocks
    <3>1. 1 \in DOMAIN t
      BY <1>2, TailIs
    <3>. QED
      BY <1>2, <1>5, <3>1 DEF ImportTodo, Grounded, x
  <2>2. HeadsStored(disk') /\ TodoOf(Tail(t), disk')
    BY <1>2, <1>3, <1>5, ImportPop DEF x
  <2>. QED
    BY <1>1, <1>2, <1>3, <1>4, <2>1, <2>2 DEF ChainOf
<1>6. CASE Rewinding(t, disk) /\ (disk.crashes = 0 => RewindCanon(t, disk))
  <2>1. PICK top \in Blocks, n \in Nat, m \in Nat, k \in Nat :
          /\ RewindTodo(t, disk, top, n, m, k) /\ WithinTurn(t, disk, top, m, k)
          /\ k = 1 /\ x = AncestorAt(top, m)
    BY <1>2, <1>6, TurnIs DEF x
  <2>2. m < Num(top) /\ Line[top] \subseteq disk.blocks /\ Num(top) \in Nat
    BY <2>1, NumFacts DEF RewindTodo, WithinTurn
  <2>3. x \in Line[top] /\ Num(x) = m /\ x \in Blocks
    BY <2>1, <2>2, AncestorIn
  <2>4. RewindTodo(Tail(t), disk', top, n, m, 0)
    <3>1. RewindTodo(Tail(t), disk', top, n, m, k - 1) /\ k - 1 = 0
      BY <1>2, <1>3, <2>1, RewindPop
    <3>. QED
      BY <3>1
  <2>5. Num(disk.headBlock) <= m
    BY <1>2, <2>1 DEF WithinTurn
  <2>6. Rewinding(Tail(t), disk')
    BY <1>3, <2>1, <2>4, <2>5 DEF Rewinding, BetweenTurns
  <2>7. Line[x] \subseteq disk.blocks
    BY <2>2, <2>3, LineNested
  <2>8. HeadsStored(disk')
    BY <1>2, <1>3, <2>7 DEF HeadsStored
  <2>9. ASSUME disk.crashes = 0 PROVE RewindCanon(Tail(t), disk')
    <3>. DEFINE b == disk.headBlock
                h == disk.headHeader
    <3>1. Agree(disk.canon, b, h) /\ b \in Blocks /\ h \in Blocks
      BY <1>2, <1>6, <2>9 DEF RewindCanon, DiskType
    <3>2. h \in Line[top] /\ Num(h) = m + 1
      <4>1. m + 1 \in Nat /\ m + 1 <= Num(top)
        BY <2>2
      <4>. QED
        BY <2>1, <4>1, AncestorIn DEF WithinTurn
    <3>. HIDE DEF b, h
    <3>3. x \in Line[h]
      <4>1. Num(x) <= Num(h)
        BY <2>3, <3>2
      <4>. QED
        BY <2>3, <3>2, <4>1, LineOrdered
    <3>4. CutIn(disk.canon, x)
      BY <3>1, <3>3, LineNested DEF Agree, CutIn
    <3>5. Related(b, x)
      <4>1. h \notin Line[b]
        <5>. SUFFICES ASSUME h \in Line[b] PROVE FALSE
          OBVIOUS
        <5>1. Num(h) <= Num(b) /\ Num(b) <= m /\ Num(b) \in Nat
          BY <2>5, <3>1, LineBelow, NumFacts DEF b
        <5>. QED
          BY <3>2, <5>1
      <4>2. b \in Line[h]
        BY <3>1, <4>1 DEF Agree, Related
      <4>. QED
        BY <3>1, <3>3, <4>2, LineComparable DEF Related
    <3>6. Agree(disk'.canon, disk'.headBlock, disk'.headHeader)
      BY <1>3, <3>1, <3>4, <3>5 DEF Agree, b
    <3>7. Tail(t)[1].op # "headBlock"
      BY <1>2, <2>1, <2>4, BetweenFirst, Zenon
    <3>. QED
      BY <3>6, <3>7, Zenon DEF RewindCanon
  <2>. QED
    BY <1>1, <1>2, <1>3, <1>4, <2>3, <2>6, <2>8, <2>9 DEF ChainOf, TodoOf
<1>. QED
  BY <1>2, <1>5, <1>6, Modes

\* The head writes of one turn of SetHead: perhaps one of the block head,
\* perhaps one of the fast head, and one of the header.
TurnShape(q, q1, block, p) ==
  /\ q \in Seq(Ops) /\ Len(q) \in Nat /\ Len(q) >= 1 /\ q[Len(q)] = Op("headHeader", p)
  /\ \A i \in 1 .. Len(q) - 1 : q[i].op = "headFast" \/ (q[i].op = "headBlock" /\ i = 1)
  /\ q1 # <<>> => q[1].op = "headBlock" /\ q[1].block = block
  /\ q1 = <<>> => q[1].op # "headBlock"

\* The writes of RewindHeads have that shape.
LEMMA TurnWritesAre ==
  ASSUME NEW block \in Blocks, NEW fast \in Blocks, NEW p \in Blocks,
         NEW q1 \in {<<Op("headBlock", block)>>, <<>>}, NEW q2 \in {<<Op("headFast", fast)>>, <<>>},
         NEW q, q = (q1 \o q2) \o <<Op("headHeader", p)>>
  PROVE  TurnShape(q, q1, block, p)
<1>. DEFINE q3 == <<Op("headHeader", p)>>
            a == q1 \o q2
            moveBlock == q1 # <<>>
            moveFast == q2 # <<>>
<1>1. /\ Op("headBlock", block) \in Ops /\ Op("headBlock", block).op = "headBlock"
      /\ Op("headBlock", block).block = block
      /\ Op("headFast", fast) \in Ops /\ Op("headFast", fast).op = "headFast"
      /\ Op("headHeader", p) \in Ops /\ Op("headHeader", p).op = "headHeader"
  BY OpIs DEF OpNames
<1>2. /\ q1 \in Seq(Ops)
      /\ moveBlock => Len(q1) = 1 /\ q1[1] = Op("headBlock", block)
      /\ ~moveBlock => Len(q1) = 0
  <2>1. CASE q1 = <<Op("headBlock", block)>>
    BY <1>1, <2>1
  <2>2. CASE q1 = <<>>
    BY <2>2
  <2>. QED
    BY <2>1, <2>2
<1>3. /\ q2 \in Seq(Ops)
      /\ moveFast => Len(q2) = 1 /\ q2[1] = Op("headFast", fast)
      /\ ~moveFast => Len(q2) = 0
  <2>1. CASE q2 = <<Op("headFast", fast)>>
    BY <1>1, <2>1
  <2>2. CASE q2 = <<>>
    BY <2>2
  <2>. QED
    BY <2>1, <2>2
<1>4. q3 \in Seq(Ops) /\ Len(q3) = 1 /\ q3[1] = Op("headHeader", p)
  BY <1>1
<1>5. q = a \o q3
  OBVIOUS
<1>. HIDE DEF q3, moveBlock, moveFast
<1>6. /\ a \in Seq(Ops) /\ Len(a) = Len(q1) + Len(q2)
      /\ \A i \in 1 .. Len(q1) : a[i] = q1[i]
      /\ \A i \in 1 .. Len(q2) : a[Len(q1) + i] = q2[i]
  <2>1. q1 \in Seq(Ops) /\ q2 \in Seq(Ops)
    BY <1>2, <1>3
  <2>. QED
    BY ONLY <2>1, JoinOps
<1>. HIDE DEF a
<1>7. /\ q \in Seq(Ops) /\ Len(q) = Len(a) + Len(q3)
      /\ \A i \in 1 .. Len(a) : q[i] = a[i]
      /\ \A i \in 1 .. Len(q3) : q[Len(a) + i] = q3[i]
  <2>1. a \in Seq(Ops) /\ q3 \in Seq(Ops)
    BY <1>4, <1>6
  <2>. QED
    BY ONLY <1>5, <2>1, JoinOps
<1>8. Len(a) \in Nat /\ Len(q) = Len(a) + 1 /\ q[Len(a) + 1] = Op("headHeader", p)
  BY <1>4, <1>6, <1>7
<1>9. /\ moveBlock => Len(a) >= 1 /\ a[1] = Op("headBlock", block)
      /\ ~moveBlock => Len(a) \in {0, 1} /\ (Len(a) = 1 => a[1] = Op("headFast", fast))
      /\ moveBlock => Len(a) \in {1, 2} /\ (Len(a) = 2 => a[2] = Op("headFast", fast))
  <2>1. CASE moveBlock
    <3>1. Len(q1) = 1
      BY <1>2, <2>1
    <3>2. a[1] = q1[1] /\ Len(a) = 1 + Len(q2) /\ (Len(q2) = 1 => a[2] = q2[1])
      BY <1>6, <3>1
    <3>. QED
      BY <1>2, <1>3, <2>1, <3>2
  <2>2. CASE ~moveBlock
    <3>1. Len(q1) = 0
      BY <1>2, <2>2
    <3>2. Len(a) = Len(q2) /\ (Len(q2) = 1 => a[1] = q2[1])
      BY <1>3, <1>6, <3>1
    <3>. QED
      BY <1>3, <2>2, <3>2
  <2>. QED
    BY <2>1, <2>2
<1>10. \A i \in 1 .. Len(a) : a[i].op = "headFast" \/ (a[i].op = "headBlock" /\ i = 1)
  <2>1. CASE moveBlock
    BY <1>1, <1>9, <2>1
  <2>2. CASE ~moveBlock
    BY <1>1, <1>9, <2>2
  <2>. QED
    BY <2>1, <2>2
<1>11. \A i \in 1 .. Len(q) - 1 : q[i].op = "headFast" \/ (q[i].op = "headBlock" /\ i = 1)
  <2>1. 1 .. Len(q) - 1 = 1 .. Len(a)
    BY <1>8
  <2>. QED
    BY <1>7, <1>10, <2>1, Zenon
<1>12. moveBlock => q[1].op = "headBlock" /\ q[1].block = block
  <2>. SUFFICES ASSUME moveBlock PROVE q[1].op = "headBlock" /\ q[1].block = block
    OBVIOUS
  <2>1. 1 \in 1 .. Len(a) /\ a[1] = Op("headBlock", block)
    BY <1>8, <1>9
  <2>2. q[1] = a[1]
    BY <1>7, <2>1
  <2>. QED
    BY <1>1, <2>1, <2>2
<1>13. ~moveBlock => q[1].op # "headBlock"
  <2>. SUFFICES ASSUME ~moveBlock PROVE q[1].op # "headBlock"
    OBVIOUS
  <2>1. CASE Len(a) = 0
    BY <1>1, <1>8, <2>1
  <2>2. CASE Len(a) = 1
    BY <1>1, <1>7, <1>9, <2>2
  <2>. QED
    BY <1>9, <2>1, <2>2
<1>. QED
  BY <1>7, <1>8, <1>11, <1>12, <1>13 DEF TurnShape, moveBlock

\* Before a turn, and before the deletion, no head write is left.
LEMMA BetweenIs ==
  ASSUME NEW t \in Seq(Ops), NEW d, Rewinding(t, d), t[1].op \in {"rewind", "delete"}
  PROVE  \E top \in Blocks, n \in Nat, m \in Nat :
           RewindTodo(t, d, top, n, m, 0) /\ BetweenTurns(d, top, m)
<1>1. PICK top \in Blocks, n \in Nat, m \in Nat, k \in Nat :
        /\ RewindTodo(t, d, top, n, m, k)
        /\ k = 0 => BetweenTurns(d, top, m)
        /\ k > 0 => WithinTurn(t, d, top, m, k)
  BY DEF Rewinding
<1>2. k = 0
  <2>. SUFFICES ASSUME k > 0 PROVE FALSE
    OBVIOUS
  <2>1. t[k].op = "headHeader"
    BY <1>1 DEF WithinTurn, Op
  <2>2. k # 1 => t[1].op = "headFast" \/ t[1].op = "headBlock"
    BY <1>1 DEF WithinTurn
  <2>. QED
    BY <2>1, <2>2
<1>. QED
  BY <1>1, <1>2

\* The writes of a turn replace it at the front.
TurnPut(q, t) == q \o Tail(t)

\* A turn is put in front of those below it.
LEMMA TurnBegins ==
  ASSUME NEW t \in Seq(Ops), t # <<>>, NEW d, NEW top \in Blocks, NEW n \in Nat, NEW m \in Nat,
         RewindTodo(t, d, top, n, m, 0), m # n,
         NEW q \in Seq(Ops), NEW u, u = TurnPut(q, t), NEW m2, m2 = m - 1, NEW k, k = Len(q)
  PROVE  /\ u \in Seq(Ops) /\ RewindTodo(u, d, top, n, m2, k)
         /\ \A i \in 1 .. k : u[i] = q[i]
<1>. DEFINE s == Tail(t)
            K == Len(q)
            N == m - n
<1>1. /\ Len(t) \in Nat /\ Len(s) = Len(t) - 1 /\ s \in Seq(Ops)
      /\ \A i \in 1 .. Len(t) - 1 : s[i] = t[i + 1]
  BY TailIs
<1>2. n < Num(top) /\ n <= m /\ m <= Num(top) /\ Line[top] \subseteq d.blocks /\ Num(top) \in Nat
  BY NumFacts, Zenon DEF RewindTodo
<1>3. /\ N \in Nat /\ N >= 1 /\ Len(t) = N + 2
      /\ \A i \in 1 .. N : t[i] = Op("rewind", AncestorAt(top, m + 1 - i))
      /\ t[N + 1] = [op |-> "delete", block |-> Rewound(top, n)]
      /\ t[N + 2] = Op("load", None)
  BY <1>2 DEF RewindTodo
<1>4. u = q \o s
  BY DEF TurnPut
<1>. HIDE DEF s, K, N
<1>5. /\ u \in Seq(Ops) /\ K \in Nat /\ Len(u) = K + Len(s)
      /\ \A i \in 1 .. K : u[i] = q[i]
      /\ \A i \in 1 .. Len(s) : u[K + i] = s[i]
  <2>1. s \in Seq(Ops)
    BY <1>1
  <2>2. q \in Seq(Ops)
    OBVIOUS
  <2>. QED
    BY ONLY <1>4, <2>1, <2>2, JoinOps DEF K
<1>6. \A i \in 1 .. N + 1 : u[K + i] = t[i + 1]
  <2>1. \A i \in 1 .. N + 1 : i \in 1 .. Len(s) /\ i \in 1 .. Len(t) - 1
    BY ONLY <1>1, <1>3
  <2>. QED
    BY ONLY <1>1, <1>5, <2>1
<1>7. \A i \in 1 .. (m - 1) - n : u[K + i] = Op("rewind", AncestorAt(top, (m - 1) + 1 - i))
  <2>. TAKE i \in 1 .. (m - 1) - n
  <2>1. i \in 1 .. N + 1 /\ i + 1 \in 1 .. N /\ m + 1 - (i + 1) = (m - 1) + 1 - i
    BY <1>2, <1>3 DEF N
  <2>2. u[K + i] = t[i + 1]
    BY ONLY <1>6, <2>1
  <2>3. t[i + 1] = Op("rewind", AncestorAt(top, m + 1 - (i + 1)))
    BY ONLY <1>3, <2>1, Zenon
  <2>. QED
    BY <2>1, <2>2, <2>3
<1>8. /\ u[K + ((m - 1) - n) + 1] = [op |-> "delete", block |-> Rewound(top, n)]
      /\ u[K + ((m - 1) - n) + 2] = Op("load", None)
  <2>1. /\ N \in 1 .. N + 1 /\ N + 1 \in 1 .. N + 1
        /\ K + ((m - 1) - n) + 1 = K + N /\ K + ((m - 1) - n) + 2 = K + (N + 1)
        /\ (N + 1) + 1 = N + 2
    BY <1>2, <1>3, <1>5 DEF N
  <2>2. u[K + N] = t[N + 1] /\ u[K + (N + 1)] = t[N + 2]
    BY ONLY <1>6, <2>1
  <2>. QED
    BY <1>3, <2>1, <2>2, Zenon
<1>9. Len(u) = K + ((m - 1) - n) + 2
  <2>1. Len(s) = N + 1
    BY ONLY <1>1, <1>3
  <2>2. K + (N + 1) = K + ((m - 1) - n) + 2
    BY <1>2, <1>3, <1>5 DEF N
  <2>. QED
    BY <1>5, <2>1, <2>2
<1>10. n <= m - 1 /\ m - 1 <= Num(top) /\ m - 1 \in Nat
  BY <1>2
<1>11. RewindTodo(u, d, top, n, m - 1, K)
  BY <1>2, <1>7, <1>8, <1>9, <1>10 DEF RewindTodo
<1>. QED
  BY <1>5, <1>10, <1>11 DEF K

\* RewindHeads begins a turn: the block head goes to the parent or to genesis,
\* both in the line of the one it had.
LEMMA RewindStep ==
  ASSUME ChainInd, RewindHeads
  PROVE  ChainOf(disk', mem', todo', importing')
<1>1. Doing("rewind") /\ mem' = mem /\ disk' = disk
  BY DEF RewindHeads
<1>. DEFINE t == todo
<1>2. /\ mem.up /\ t \in Seq(Ops) /\ t # <<>> /\ t[1].op = "rewind" /\ It = t[1].block
      /\ importing' = importing
      /\ mem.cur = disk.headBlock /\ mem.header = disk.headHeader
      /\ DiskType(disk) /\ HeadsStored(disk) /\ TodoOf(t, disk)
      /\ importing \in Seq(Blocks \ {GenesisBlock})
      /\ DOMAIN mem = {"up", "cur", "header", "fast", "gc", "vaults"}
  BY <1>1, DoingIs
<1>3. Rewinding(t, disk) /\ (disk.crashes = 0 => RewindCanon(t, disk))
  BY <1>2, Modes
<1>4. PICK top \in Blocks, n \in Nat, m \in Nat :
        RewindTodo(t, disk, top, n, m, 0) /\ BetweenTurns(disk, top, m)
  BY <1>2, <1>3, BetweenIs
<1>5. m # n /\ It = AncestorAt(top, m)
  BY <1>2, <1>4, BetweenFirst
<1>6. n < m /\ m <= Num(top) /\ m - 1 \in Nat /\ Num(top) \in Nat
  BY <1>4, <1>5, NumFacts DEF RewindTodo
<1>. DEFINE p == ParentOf(It)
            block == IF HasBlockAndState(p) THEN p ELSE GenesisBlock
            fast == IF p \in disk.blocks THEN p ELSE GenesisBlock
<1>7. p = AncestorAt(top, m - 1) /\ p \in Line[top] /\ Num(p) = m - 1 /\ p \in Blocks
  <2>1. (m - 1) + 1 = m /\ m - 1 <= Num(top)
    BY <1>6
  <2>2. p = AncestorAt(top, m - 1)
    BY <1>5, <1>6, <2>1, AncestorParent
  <2>. QED
    BY <1>6, <2>1, <2>2, AncestorIn
<1>8. block \in Blocks /\ fast \in Blocks /\ block \in {p, GenesisBlock}
  BY <1>7, NumFacts
<1>9. PICK q1 \in {<<Op("headBlock", block)>>, <<>>}, q2 \in {<<Op("headFast", fast)>>, <<>>} :
        /\ todo' = ((q1 \o q2) \o <<Op("headHeader", p)>>) \o Tail(t)
        /\ q1 # <<>> => Num(p) < Num(mem.cur)
        /\ q1 = <<>> => ~(Num(p) < Num(mem.cur))
  <2>. DEFINE r1 == IF Num(p) < Num(mem.cur) THEN <<Op("headBlock", block)>> ELSE <<>>
              r2 == IF Num(p) < Num(mem.fast) THEN <<Op("headFast", fast)>> ELSE <<>>
  <2>1. todo' = ((r1 \o r2) \o <<Op("headHeader", p)>>) \o Tail(t)
    BY DEF RewindHeads
  <2>2. /\ r1 \in {<<Op("headBlock", block)>>, <<>>} /\ r2 \in {<<Op("headFast", fast)>>, <<>>}
        /\ r1 # <<>> => Num(p) < Num(mem.cur)
        /\ r1 = <<>> => ~(Num(p) < Num(mem.cur))
    OBVIOUS
  <2>. HIDE DEF r1, r2
  <2>. QED
    BY <2>1, <2>2, Zenon
<1>. DEFINE q == (q1 \o q2) \o <<Op("headHeader", p)>>
<1>. HIDE DEF block, fast, p
<1>10. TurnShape(q, q1, block, p)
  BY <1>7, <1>8, TurnWritesAre, Zenon
<1>20. todo' = TurnPut(q, t)
  BY <1>9 DEF TurnPut
<1>. HIDE DEF q
<1>11. Num(mem.cur) \in Nat /\ mem.cur \in Blocks
  BY <1>2, NumFacts DEF DiskType
<1>12. q1 = <<>> => Num(mem.cur) <= m - 1
  BY <1>6, <1>7, <1>9, <1>11
<1>13. /\ todo' \in Seq(Ops) /\ RewindTodo(todo', disk, top, n, m - 1, Len(q))
       /\ \A i \in 1 .. Len(q) : todo'[i] = q[i]
  <2>1. t \in Seq(Ops) /\ t # <<>> /\ q \in Seq(Ops) /\ m # n
    BY <1>2, <1>5, <1>10 DEF TurnShape
  <2>2. RewindTodo(t, disk, top, n, m, 0)
    BY <1>4
  <2>. DEFINE m2 == m - 1
              k == Len(q)
  <2>3. m2 = m - 1 /\ k = Len(q)
    OBVIOUS
  <2>. HIDE DEF m2, k
  <2>4. /\ todo' \in Seq(Ops) /\ RewindTodo(todo', disk, top, n, m2, k)
        /\ \A i \in 1 .. k : todo'[i] = q[i]
    BY ONLY <1>20, <2>1, <2>2, <2>3, top \in Blocks, n \in Nat, m \in Nat, TurnBegins
  <2>. QED
    BY <2>3, <2>4
<1>14. todo'[1] = q[1] /\ todo'[Len(q)] = q[Len(q)]
  BY <1>10, <1>13 DEF TurnShape
<1>15. WithinTurn(todo', disk, top, m - 1, Len(q))
  <2>1. m - 1 < Num(top) /\ (m - 1) + 1 = m
    BY <1>6
  <2>2. disk.headHeader = AncestorAt(top, (m - 1) + 1)
    BY <1>4, <2>1 DEF BetweenTurns
  <2>3. \A i \in 1 .. Len(q) - 1 :
          todo'[i].op = "headFast" \/ (todo'[i].op = "headBlock" /\ i = 1)
    <3>. TAKE i \in 1 .. Len(q) - 1
    <3>1. todo'[i] = q[i]
      BY <1>10, <1>13 DEF TurnShape
    <3>. QED
      BY <1>10, <3>1 DEF TurnShape
  <2>4. IF todo'[1].op = "headBlock" THEN todo'[1].block \in {AncestorAt(top, m - 1), GenesisBlock}
        ELSE Num(disk.headBlock) <= m - 1
    <3>1. CASE q1 # <<>>
      BY <1>7, <1>8, <1>10, <1>14, <3>1 DEF TurnShape
    <3>2. CASE q1 = <<>>
      BY <1>2, <1>10, <1>12, <1>14, <3>2 DEF TurnShape
    <3>. QED
      BY <3>1, <3>2
  <2>. QED
    BY <1>7, <1>10, <1>14, <2>1, <2>2, <2>3, <2>4 DEF WithinTurn, TurnShape
<1>16. Rewinding(todo', disk)
  <2>1. Len(q) \in Nat /\ Len(q) # 0
    BY <1>10 DEF TurnShape
  <2>. QED
    BY <1>6, <1>13, <1>15, <2>1, Zenon DEF Rewinding
<1>17. ASSUME disk.crashes = 0 PROVE RewindCanon(todo', disk)
  <2>1. Agree(disk.canon, disk.headBlock, disk.headHeader)
    BY <1>3, <1>17, Zenon DEF RewindCanon
  <2>2. ASSUME q1 # <<>> PROVE block \in Line[disk.headBlock]
    <3>. DEFINE b == disk.headBlock
                h == disk.headHeader
    <3>1. h \in Line[top] /\ h \in Blocks /\ Num(h) = m
      BY <1>4, <1>6, AncestorIn, Zenon DEF BetweenTurns
    <3>2. b \in Blocks /\ Num(b) \in Nat /\ m - 1 < Num(b)
      BY <1>2, <1>7, <1>9, <1>11, <2>2, Zenon
    <3>3. Related(b, h)
      BY <2>1, Zenon DEF Agree
    <3>. HIDE DEF b, h
    <3>4. p \in Line[h]
      <4>1. Num(p) <= Num(h)
        BY <1>6, <1>7, <3>1
      <4>. QED
        BY <1>7, <3>1, <4>1, LineOrdered, Zenon
    <3>5. h \in Line[b]
      <4>1. CASE b \in Line[h]
        <5>1. Num(b) <= Num(h) /\ (Num(b) = Num(h) => b = h)
          BY <3>1, <4>1, LineBelow, Zenon
        <5>2. b = h
          BY <1>6, <3>1, <3>2, <5>1
        <5>. QED
          BY <3>1, <5>2, LineBasics, Zenon
      <4>. QED
        BY <3>3, <4>1, Zenon DEF Related
    <3>6. p \in Line[b] /\ GenesisBlock \in Line[b]
      BY <3>2, <3>4, <3>5, LineNested, GenesisInLine, Zenon
    <3>. QED
      BY <1>8, <3>6, Zenon DEF b
  <2>3. todo'[1].op = "headBlock" => todo'[1].block \in Line[disk.headBlock]
    BY <1>10, <1>14, <2>2, Zenon DEF TurnShape
  <2>. QED
    BY <2>1, <2>3, Zenon DEF RewindCanon
<1>18. MemOf(mem', disk', todo')
  BY <1>1, <1>2, Zenon DEF MemOf
<1>. QED
  BY <1>1, <1>2, <1>13, <1>16, <1>17, <1>18, Zenon DEF ChainOf, TodoOf

\* No head is above the deleted blocks.
LEMMA DeleteStep ==
  ASSUME ChainInd, DeleteRewound
  PROVE  ChainOf(disk', mem', todo', importing')
<1>1. Doing("delete") /\ mem' = mem /\ todo' = Tail(todo)
  BY Zenon DEF DeleteRewound
<1>. DEFINE t == todo
            gone == t[1].block
<1>2. /\ mem.up /\ t \in Seq(Ops) /\ t # <<>> /\ t[1].op = "delete" /\ It = gone
      /\ importing' = importing /\ Tail(t) \in Seq(Ops)
      /\ mem.cur = disk.headBlock /\ mem.header = disk.headHeader
      /\ DiskType(disk) /\ HeadsStored(disk) /\ TodoOf(t, disk)
      /\ importing \in Seq(Blocks \ {GenesisBlock})
      /\ DOMAIN mem = {"up", "cur", "header", "fast", "gc", "vaults"}
  BY <1>1, DoingIs, Zenon
<1>3. Rewinding(t, disk) /\ (disk.crashes = 0 => RewindCanon(t, disk))
  BY <1>2, Modes, Zenon
<1>4. PICK top \in Blocks, n \in Nat, m \in Nat :
        RewindTodo(t, disk, top, n, m, 0) /\ BetweenTurns(disk, top, m)
  BY <1>2, <1>3, BetweenIs, Zenon
<1>5. /\ m = n /\ gone = Rewound(top, n) /\ Len(t) = 2
      /\ t[2] = Op("load", None)
  <2>. HIDE DEF gone
  <2>1. m = n => t[1].block = Rewound(top, n) /\ Len(t) = 2 /\ t[2] = Op("load", None)
    BY <1>2, <1>4, BetweenFirst
  <2>2. m = n
    BY <1>2, <1>4, BetweenFirst
  <2>. QED
    BY <2>1, <2>2, Zenon DEF gone
<1>. HIDE DEF gone
<1>6. Loading(todo')
  <2>1. Len(Tail(t)) = Len(t) - 1 /\ \A i \in 1 .. Len(t) - 1 : Tail(t)[i] = t[i + 1]
    BY <1>2, TailIs, Zenon
  <2>2. Len(Tail(t)) = 1 /\ Tail(t)[1] = t[2]
    BY <1>5, <2>1
  <2>. QED
    BY <1>1, <1>5, <2>2, Zenon DEF Loading
<1>. DEFINE c2 == [k \in Numbers |-> IF \E b \in gone : Num(b) = k THEN None ELSE disk.canon[k]]
<1>7. disk' = [disk EXCEPT !.blocks = @ \ gone, !.canon = c2]
  BY <1>2, Zenon DEF DeleteRewound
<1>8. /\ c2 \in [Numbers -> Blocks \cup {None}]
      /\ \A k \in Numbers : c2[k] \in {disk.canon[k], None}
      /\ \A k \in Numbers : k <= n => c2[k] = disk.canon[k]
  <2>1. disk.canon \in [Numbers -> Blocks \cup {None}]
    BY <1>2, Zenon DEF DiskType
  <2>2. \A k \in Numbers : k <= n => ~ \E b \in gone : Num(b) = k
    <3>1. \A b \in gone : b \in Blocks /\ Num(b) > n /\ Num(b) \in Nat
      BY <1>5, LineNested, NumFacts, Zenon DEF Rewound
    <3>. QED
      BY ONLY <3>1, n \in Nat
  <2>. DEFINE G(k) == \E b \in gone : Num(b) = k
  <2>3. /\ c2 = [k \in Numbers |-> IF G(k) THEN None ELSE disk.canon[k]]
        /\ \A k \in Numbers : k <= n => ~G(k)
    BY <2>2, Zenon
  <2>. HIDE DEF G, c2
  <2>. QED
    BY ONLY <2>1, <2>3, Zenon
<1>. HIDE DEF c2
<1>9. /\ disk'.blocks = disk.blocks \ gone /\ disk'.canon = c2
      /\ disk'.headBlock = disk.headBlock /\ disk'.headHeader = disk.headHeader
      /\ disk'.crashes = disk.crashes /\ DiskType(disk')
  BY <1>2, <1>7, <1>8, Zenon DEF DiskType
<1>10. /\ disk.headBlock \in Blocks /\ disk.headHeader \in Blocks
       /\ Num(disk.headBlock) <= n /\ Num(disk.headHeader) = n
  <2>1. n < Num(top) /\ n <= Num(top) /\ Num(top) \in Nat
    BY <1>4, NumFacts DEF RewindTodo
  <2>. QED
    BY <1>2, <1>4, <1>5, <2>1, AncestorIn, Zenon DEF BetweenTurns, DiskType
<1>11. \A x \in Line[disk.headBlock] \cup Line[disk.headHeader] : Num(x) \in Nat /\ Num(x) <= n /\ Num(x) \in Numbers
  <2>1. Num(disk.headBlock) \in Nat /\ Num(disk.headHeader) \in Nat
    BY <1>10, NumFacts, Zenon
  <2>2. \A x \in Line[disk.headBlock] : Num(x) \in Nat /\ Num(x) <= Num(disk.headBlock) /\ Num(x) \in Numbers
    BY <1>10, LineBelow, LineNested, NumFacts, Zenon
  <2>3. \A x \in Line[disk.headHeader] : Num(x) \in Nat /\ Num(x) <= Num(disk.headHeader) /\ Num(x) \in Numbers
    BY <1>10, LineBelow, LineNested, NumFacts, Zenon
  <2>. QED
    BY <1>10, <2>1, <2>2, <2>3
<1>12. HeadsStored(disk')
  <2>1. \A x \in gone : ~(Num(x) <= n)
    <3>1. \A b \in gone : Num(b) > n /\ Num(b) \in Nat
      BY <1>5, LineNested, NumFacts, Zenon DEF Rewound
    <3>. QED
      BY ONLY <3>1, n \in Nat
  <2>. QED
    BY <1>2, <1>9, <1>11, <2>1, Zenon DEF HeadsStored
<1>13. ASSUME disk.crashes = 0 PROVE Agree(disk'.canon, disk'.headBlock, disk'.headHeader)
  <2>1. Agree(disk.canon, disk.headBlock, disk.headHeader)
    BY <1>3, <1>13, Zenon DEF RewindCanon
  <2>2. CanonIn(c2, disk.headBlock) /\ CutIn(c2, disk.headHeader)
    BY <1>8, <1>11, <2>1, Zenon DEF Agree, CanonIn, CutIn
  <2>. QED
    BY <1>9, <2>1, <2>2, Zenon DEF Agree
<1>14. MemOf(mem', disk', todo')
  BY <1>1, <1>2, <1>9, Zenon DEF MemOf
<1>. QED
  BY <1>1, <1>2, <1>6, <1>9, <1>12, <1>13, <1>14, Zenon DEF ChainOf, TodoOf

\* repair ends on an ancestor: the state of genesis is never dropped.
LEMMA Repairs ==
  ASSUME NEW b \in Blocks, Root(GenesisBlock) \in disk.states
  PROVE  Repaired(b) \in Line[b] /\ Repaired(b) \in Blocks
<1>. DEFINE S == {a \in Line[b] : HasState(a)}
<1>1. GenesisBlock \in S
  BY GenesisInLine, Zenon DEF HasState, States
<1>2. PICK x \in S : \A y \in S : Num(y) <= Num(x)
  <2>1. S \in SUBSET Line[b] /\ S # {}
    BY <1>1, Zenon
  <2>. HIDE DEF S
  <2>. QED
    BY <2>1, Highest
<1>3. x \in Line[b] /\ HasState(x) /\ \A y \in Line[b] : HasState(y) => Num(y) <= Num(x)
  BY <1>2, Zenon
<1>4. Repaired(b) \in Line[b]
  BY <1>3, Zenon DEF Repaired
<1>. QED
  BY <1>4, LineNested, Zenon

\* The numbers that hold the line of the head hold the line of its ancestor.
LEMMA AgreeBelow ==
  ASSUME NEW c, NEW b \in Blocks, NEW h \in Blocks, NEW a \in Line[b], Agree(c, b, h)
  PROVE  Agree(c, a, h)
<1>1. CanonIn(c, a)
  BY LineNested, Zenon DEF Agree, CanonIn
<1>2. Related(a, h)
  <2>1. CASE b \in Line[h]
    BY <2>1, LineNested, Zenon DEF Related
  <2>2. CASE h \in Line[b]
    BY <2>2, LineComparable, Zenon DEF Related
  <2>. QED
    BY <2>1, <2>2, Zenon DEF Agree, Related
<1>. QED
  BY <1>1, <1>2, Zenon DEF Agree

\* What loadLastState leaves, when nothing is to be written after it.
LEMMA Loaded ==
  ASSUME DiskType(disk), HeadsStored(disk),
         disk.crashes = 0 => Agree(disk.canon, disk.headBlock, disk.headHeader),
         DOMAIN mem = {"up", "cur", "header", "fast", "gc", "vaults"},
         mem' = loadLastState(mem),
         disk' = [disk EXCEPT !.headBlock = mem'.cur, !.headHeader = mem'.header],
         todo' = <<>>, importing' \in Seq(Blocks \ {GenesisBlock})
  PROVE  ChainOf(disk', mem', todo', importing')
<1>. DEFINE b == disk.headBlock
            h == disk.headHeader
            cur == Repaired(b)
            fast == IF disk.headFast \in disk.blocks THEN disk.headFast ELSE cur
<1>1. b \in Blocks /\ h \in Blocks /\ Root(GenesisBlock) \in disk.states
  BY Zenon DEF DiskType
<1>2. cur \in Line[b] /\ cur \in Blocks
  BY <1>1, Repairs, Zenon
<1>3. h \in disk.blocks
  BY <1>1, LineBasics, Zenon DEF HeadsStored
<1>4. mem' = [mem EXCEPT !.cur = cur, !.up = TRUE, !.header = h, !.fast = fast]
  BY <1>3, Zenon DEF loadLastState
<1>. HIDE DEF cur, fast, b, h
<1>5. /\ DOMAIN mem' = {"up", "cur", "header", "fast", "gc", "vaults"}
      /\ mem'.up = TRUE /\ mem'.cur = cur /\ mem'.header = h
  BY <1>4, Zenon
<1>6. disk' = [disk EXCEPT !.headBlock = cur, !.headHeader = h]
  BY <1>5, Zenon
<1>7. /\ disk'.headBlock = cur /\ disk'.headHeader = h /\ disk'.blocks = disk.blocks
      /\ disk'.canon = disk.canon /\ disk'.crashes = disk.crashes /\ DiskType(disk')
  BY <1>1, <1>2, <1>6, Zenon DEF DiskType
<1>8. MemOf(mem', disk', todo')
  BY <1>5, <1>7, Zenon DEF MemOf
<1>9. HeadsStored(disk')
  BY <1>1, <1>2, <1>7, LineNested, Zenon DEF HeadsStored, b, h
<1>10. ASSUME disk.crashes = 0 PROVE Agree(disk.canon, cur, h)
  BY <1>1, <1>2, <1>10, AgreeBelow, Zenon DEF b, h
<1>11. NewImport(todo', cur, disk.blocks)
  BY NewEmpty, Zenon
<1>12. ImportCanon(todo', disk') <=> Agree(disk.canon, cur, h) /\ CanonChain(todo', cur)
  BY <1>7 DEF ImportCanon, FutureHead, FutureHeader
<1>13. TodoOf(todo', disk')
  BY <1>7, <1>10, <1>11, <1>12, Zenon DEF TodoOf, NewImport
<1>. QED
  BY <1>7, <1>8, <1>9, <1>11, <1>13, Zenon DEF ChainOf, NewImport

\* Nothing is left to be written: the numbers are those of the heads.
LEMMA IdleIs ==
  ASSUME ChainInd, todo = <<>>
  PROVE  disk.crashes = 0 => Agree(disk.canon, disk.headBlock, disk.headHeader)
<1>1. ~Rewinding(todo, disk) /\ ~Loading(todo)
  <2>1. todo \in Seq(Ops)
    BY Zenon DEF ChainInd, ChainOf
  <2>2. ~Rewinding(todo, disk)
    BY <2>1, RewindingFirst, Zenon
  <2>3. Len(todo) = 0
    BY Zenon
  <2>. QED
    BY <2>2, <2>3 DEF Loading
<1>2. FutureHead(todo, disk.headBlock) = disk.headBlock
  BY Zenon DEF FutureHead
<1>3. FutureHeader(todo, disk.headHeader) = disk.headHeader
  BY DEF FutureHeader
<1>. QED
  BY <1>1, <1>2, <1>3, Zenon DEF ChainInd, ChainOf, TodoOf, ImportCanon

\* Reload is the last write of SetHead.
LEMMA ReloadStep ==
  ASSUME ChainInd, Reload
  PROVE  ChainOf(disk', mem', todo', importing')
<1>1. /\ Doing("load") /\ todo' = Tail(todo) /\ mem' = loadLastState(mem)
      /\ disk' = [disk EXCEPT !.headBlock = mem'.cur, !.headHeader = mem'.header]
  BY Zenon DEF Reload
<1>2. /\ todo \in Seq(Ops) /\ todo # <<>> /\ todo[1].op = "load"
      /\ importing' = importing /\ importing \in Seq(Blocks \ {GenesisBlock})
      /\ DiskType(disk) /\ HeadsStored(disk) /\ TodoOf(todo, disk)
      /\ DOMAIN mem = {"up", "cur", "header", "fast", "gc", "vaults"}
  BY <1>1, DoingIs, Zenon
<1>3. Loading(todo) /\ (disk.crashes = 0 => Agree(disk.canon, disk.headBlock, disk.headHeader))
  BY <1>2, Modes, Zenon
<1>4. todo' = <<>>
  <2>1. Len(todo) = 1
    BY <1>3, Zenon DEF Loading
  <2>2. Tail(todo) \in Seq(Ops) /\ Len(Tail(todo)) = 0
    BY <1>2, <2>1, TailIs
  <2>. QED
    BY <1>1, <2>2
<1>. QED
  BY <1>1, <1>2, <1>3, <1>4, Loaded, Zenon

\* Restart loads what the last stop or crash left.
LEMMA RestartStep ==
  ASSUME ChainInd, Restart
  PROVE  ChainOf(disk', mem', todo', importing')
<1>1. /\ ~mem.up /\ mem' = loadLastState(mem) /\ todo' = todo /\ importing' = importing
      /\ disk' = [disk EXCEPT !.headBlock = mem'.cur, !.headHeader = mem'.header]
  BY Zenon DEF Restart
<1>2. /\ todo = <<>> /\ importing \in Seq(Blocks \ {GenesisBlock})
      /\ DiskType(disk) /\ HeadsStored(disk)
      /\ DOMAIN mem = {"up", "cur", "header", "fast", "gc", "vaults"}
  BY <1>1, Zenon DEF ChainInd, ChainOf, MemOf
<1>3. disk.crashes = 0 => Agree(disk.canon, disk.headBlock, disk.headHeader)
  BY <1>2, IdleIs, Zenon
<1>. QED
  BY <1>1, <1>2, <1>3, Loaded, Zenon

\* An operation that only has writes to make begins.
LEMMA ImportBegins ==
  ASSUME ChainInd, Idle, disk' = disk, mem' = mem, NewImport(todo', mem.cur, disk.blocks),
         importing' \in Seq(Blocks \ {GenesisBlock})
  PROVE  ChainOf(disk', mem', todo', importing')
<1>. DEFINE t == todo'
<1>1. /\ mem.cur = disk.headBlock /\ mem.up /\ DiskType(disk) /\ HeadsStored(disk)
      /\ MemOf(mem, disk, t)
  BY Zenon DEF Idle, ChainInd, ChainOf, MemOf
<1>2. disk.crashes = 0 => Agree(disk.canon, disk.headBlock, disk.headHeader)
  BY IdleIs, Zenon DEF Idle
<1>3. t \in Seq(Ops) /\ \A i \in DOMAIN t : t[i].op \notin {"headBlock", "headHeader"}
  BY Zenon DEF NewImport
<1>4. Len(t) \in Nat /\ DOMAIN t = 1 .. Len(t) /\ (t # <<>> => Len(t) >= 1)
  BY <1>3
<1>5. (t # <<>> => 1 \in DOMAIN t) /\ (Len(t) >= 2 => 2 \in DOMAIN t)
  BY <1>4
<1>. HIDE DEF t
<1>6. FutureHead(t, disk.headBlock) = disk.headBlock
  BY <1>3, <1>5, Zenon DEF FutureHead
<1>7. FutureHeader(t, disk.headHeader) = disk.headHeader
  BY <1>3, <1>5, Zenon DEF FutureHeader
<1>8. TodoOf(t, disk)
  BY <1>1, <1>2, <1>6, <1>7, Zenon DEF TodoOf, ImportCanon, NewImport, t
<1>. QED
  BY <1>1, <1>3, <1>8, Zenon DEF ChainOf, t

\* InsertOne only makes writes of an import.
LEMMA InsertTodo ==
  ASSUME ChainInd, Idle, NEW b \in Blocks \ {GenesisBlock}, NEW first, InsertOne(b, first)
  PROVE  disk' = disk /\ mem' = mem /\ NewImport(todo', mem.cur, disk.blocks)
<1>1. /\ mem.cur \in Blocks /\ disk.blocks \subseteq Blocks /\ Line[mem.cur] \subseteq disk.blocks
  BY Zenon DEF Idle, ChainInd, ChainOf, MemOf, DiskType, HeadsStored
<1>2. /\ disk' = disk /\ mem' = mem
      /\ \/ todo' = <<>>
         \/ todo' = Switch(b) /\ b \in disk.blocks
         \/ \E better \in Better(b) : todo' = WriteBlockWithState(b, better, TRUE)
  BY Zenon DEF InsertOne, HasBlockAndState
<1>3. CASE todo' = <<>>
  BY <1>2, <1>3, NewEmpty, Zenon
<1>4. CASE todo' = Switch(b) /\ b \in disk.blocks
  <2>1. SwitchTodo(todo', b, mem.cur, disk.blocks)
    BY <1>1, <1>4, SwitchChain, Zenon
  <2>. DEFINE t == todo'
  <2>2. t \in Seq(Ops) /\ CanonChain(t, mem.cur)
    BY <2>1, Zenon DEF SwitchTodo
  <2>3. \A i \in DOMAIN t :
          /\ t[i].op \in {"canon", "cut"}
          /\ t[i].op = "canon" => t[i].block \in Blocks /\ Line[t[i].block] \subseteq disk.blocks
    BY <1>4, <2>1, Zenon DEF SwitchTodo
  <2>. HIDE DEF t
  <2>4. ImportTodo(t, disk.blocks)
    BY <2>3, Zenon DEF ImportTodo, Grounded
  <2>5. NewImport(t, mem.cur, disk.blocks)
    BY <2>2, <2>3, <2>4, Zenon DEF NewImport
  <2>. QED
    BY <1>2, <2>5, Zenon DEF t
<1>5. ASSUME NEW better \in Better(b), todo' = WriteBlockWithState(b, better, TRUE)
      PROVE  NewImport(todo', mem.cur, disk.blocks)
  BY <1>1, <1>5, WriteTodo, Zenon
<1>. QED
  BY <1>2, <1>3, <1>4, <1>5, Zenon

\* ImportBlock begins an import.
LEMMA ImportBlockStep ==
  ASSUME ChainInd, ImportBlock
  PROVE  ChainOf(disk', mem', todo', importing')
<1>1. Idle /\ importing' = importing /\ importing \in Seq(Blocks \ {GenesisBlock})
  BY Zenon DEF ImportBlock, ChainInd, ChainOf
<1>2. PICK b \in Blocks \ {GenesisBlock} : InsertOne(b, TRUE)
  BY Zenon DEF ImportBlock
<1>. QED
  BY <1>1, <1>2, InsertTodo, ImportBegins, Zenon

\* ImportNext begins an import of the next block, or drops the side chain.
LEMMA ImportNextStep ==
  ASSUME ChainInd, ImportNext
  PROVE  ChainOf(disk', mem', todo', importing')
<1>. DEFINE S == Blocks \ {GenesisBlock}
<1>1. Idle /\ importing \in Seq(S) /\ importing # <<>>
  BY Zenon DEF ImportNext, ChainInd, ChainOf
<1>2. Head(importing) \in S /\ Tail(importing) \in Seq(S)
  <2>. HIDE DEF S
  <2>. QED
    BY <1>1, TailIs, Zenon
<1>3. CASE InsertOne(Head(importing), FALSE) /\ importing' = Tail(importing)
  <2>1. importing' \in Seq(S)
    BY <1>2, <1>3, Zenon
  <2>. QED
    BY <1>1, <1>2, <1>3, <2>1, InsertTodo, ImportBegins, Zenon
<1>4. CASE importing' = <<>> /\ UNCHANGED <<disk, mem, todo>>
  <2>1. importing' \in Seq(S) /\ todo' = <<>> /\ disk' = disk /\ mem' = mem
    BY <1>1, <1>4 DEF Idle
  <2>2. NewImport(todo', mem.cur, disk.blocks)
    BY <2>1, NewEmpty, Zenon
  <2>. QED
    BY <1>1, <2>1, <2>2, ImportBegins, Zenon
<1>. QED
  BY <1>3, <1>4, Zenon DEF ImportNext

\* MineBlock begins an import of a block of its own.
LEMMA MineStep ==
  ASSUME ChainInd, MineBlock
  PROVE  ChainOf(disk', mem', todo', importing')
<1>1. /\ Idle /\ importing' = importing /\ importing \in Seq(Blocks \ {GenesisBlock})
      /\ disk' = disk /\ mem' = mem
  BY Zenon DEF MineBlock, ChainInd, ChainOf
<1>2. /\ mem.cur \in Blocks /\ disk.blocks \subseteq Blocks /\ Line[mem.cur] \subseteq disk.blocks
  BY <1>1, Zenon DEF Idle, ChainInd, ChainOf, MemOf, DiskType, HeadsStored
<1>3. PICK b \in Blocks \ {GenesisBlock} :
        \E better \in Better(b) : todo' = WriteBlockWithState(b, better, FALSE)
  BY Zenon DEF MineBlock
<1>4. PICK better \in Better(b) : todo' = WriteBlockWithState(b, better, FALSE)
  BY <1>3, Zenon
<1>5. NewImport(todo', mem.cur, disk.blocks)
  BY <1>2, <1>4, WriteTodo, Zenon
<1>. QED
  BY <1>1, <1>5, ImportBegins, Zenon

\* Stateless gives blocks of the line of b above another.
LEMMA StatelessAre ==
  ASSUME NEW b \in Blocks, Root(GenesisBlock) \in disk.states
  PROVE  Stateless(b) \in Seq(Blocks \ {GenesisBlock})
<1>. DEFINE S == Blocks \ {GenesisBlock}
            base == {a \in Line[b] : HasState(a)}
            low == CHOOSE a \in base : \A x \in base : Num(x) <= Num(a)
            n == Num(low)
            L == Num(b) - n
            A(i) == AncestorAt(b, n + i)
<1>1. GenesisBlock \in base
  BY GenesisInLine DEF HasState, States
<1>2. low \in base
  <2>1. base \in SUBSET Line[b] /\ base # {}
    BY <1>1
  <2>. HIDE DEF base
  <2>2. \E x \in base : \A y \in base : Num(y) <= Num(x)
    BY <2>1, Highest
  <2>. QED
    BY <2>2, Zenon
<1>3. low \in Blocks /\ Num(b) \in Nat /\ n \in Nat /\ n <= Num(b) /\ L \in Nat
  <2>. HIDE DEF low
  <2>. QED
    BY <1>2, LineNested, LineBelow, NumFacts
<1>4. Stateless(b) \in {Above(b, n), <<>>}
  BY Zenon DEF Stateless
<1>. HIDE DEF low, n
<1>5. \A i \in 1 .. L : A(i) \in S
  <2>. TAKE i \in 1 .. L
  <2>1. n + (i - 1) \in Nat /\ (n + (i - 1)) + 1 <= Num(b) /\ (n + (i - 1)) + 1 = n + i
    BY <1>3
  <2>. QED
    BY <2>1, AncestorParent, Zenon
<1>6. Above(b, n) = [i \in 1 .. L |-> A(i)]
  BY Zenon DEF Above
<1>. HIDE DEF A, L, S
<1>7. Above(b, n) \in Seq(S)
  BY <1>3, <1>5, <1>6
<1>8. CASE Stateless(b) = <<>>
  BY <1>8 DEF S
<1>. QED
  BY <1>4, <1>7, <1>8, Zenon DEF S

\* The process dies: only what is on disk counts.
LEMMA GoesDown ==
  ASSUME ChainInd, mem' = Down, todo' = <<>>, importing' = <<>> \/ importing' = importing,
         DiskType(disk'), disk'.blocks = disk.blocks, disk'.headBlock = disk.headBlock,
         disk'.headHeader = disk.headHeader,
         disk'.crashes = 0 =>
           todo = <<>> /\ disk.crashes = 0 /\ disk'.canon = disk.canon
  PROVE  ChainOf(disk', mem', todo', importing')
<1>1. MemOf(mem', disk', todo')
  BY Zenon DEF Down, MemOf
<1>2. HeadsStored(disk')
  BY Zenon DEF ChainInd, ChainOf, HeadsStored
<1>3. importing' \in Seq(Blocks \ {GenesisBlock})
  <2>1. importing \in Seq(Blocks \ {GenesisBlock})
    BY Zenon DEF ChainInd, ChainOf
  <2>2. CASE importing' = <<>>
    BY <2>2
  <2>. QED
    BY <2>1, <2>2, Zenon
<1>4. NewImport(todo', disk'.headBlock, disk'.blocks)
  BY NewEmpty, Zenon
<1>5. disk'.crashes = 0 => Agree(disk'.canon, disk'.headBlock, disk'.headHeader)
  BY IdleIs, Zenon
<1>6. /\ FutureHead(todo', disk'.headBlock) = disk'.headBlock
      /\ FutureHeader(todo', disk'.headHeader) = disk'.headHeader
  BY DEF FutureHead, FutureHeader
<1>7. TodoOf(todo', disk')
  BY <1>4, <1>5, <1>6, Zenon DEF TodoOf, ImportCanon, NewImport
<1>. QED
  BY <1>1, <1>2, <1>3, <1>4, <1>7, Zenon DEF ChainOf, NewImport

\* insertSidechain stores a block that becomes no head, or the process dies.
LEMMA SidechainStep ==
  ASSUME ChainInd, insertSidechain
  PROVE  ChainOf(disk', mem', todo', importing')
<1>1. Idle /\ todo = <<>> /\ DiskType(disk) /\ Root(GenesisBlock) \in disk.states
  BY Zenon DEF insertSidechain, Idle, ChainInd, ChainOf, DiskType
<1>2. PICK b \in Blocks \ {GenesisBlock} :
        \/ mem' = Down /\ UNCHANGED <<disk, todo, importing>>
        \/ /\ todo' = <<Op("block", b)>>
           /\ importing' \in {<<>>, Stateless(b)}
           /\ UNCHANGED <<disk, mem>>
  BY Zenon DEF insertSidechain
<1>3. CASE mem' = Down /\ UNCHANGED <<disk, todo, importing>>
  BY <1>1, <1>3, GoesDown, Zenon
<1>4. CASE todo' = <<Op("block", b)>> /\ importing' \in {<<>>, Stateless(b)} /\ UNCHANGED <<disk, mem>>
  <2>1. importing' \in Seq(Blocks \ {GenesisBlock})
    <3>1. Stateless(b) \in Seq(Blocks \ {GenesisBlock})
      BY <1>1, StatelessAre, Zenon
    <3>2. CASE importing' = <<>>
      BY <3>2
    <3>. QED
      BY <1>4, <3>1, <3>2, Zenon
  <2>2. Op("block", b) \in Ops /\ Op("block", b).op = "block" /\ Op("block", b).block = b
    BY OpIs, Zenon DEF OpNames
  <2>. DEFINE t == todo'
  <2>3. t \in Seq(Ops) /\ DOMAIN t = {1} /\ t[1].op = "block" /\ t[1].block = b
    BY <1>4, <2>2
  <2>. HIDE DEF t
  <2>4. CanonChain(t, mem.cur)
    BY <2>3, Zenon DEF CanonChain, FirstCanon, NextCanon
  <2>5. ImportTodo(t, disk.blocks)
    BY <2>3, Zenon DEF ImportTodo
  <2>6. NewImport(t, mem.cur, disk.blocks)
    BY <2>3, <2>4, <2>5, Zenon DEF NewImport
  <2>. QED
    BY <1>1, <1>4, <2>1, <2>6, ImportBegins, Zenon DEF t
<1>. QED
  BY <1>2, <1>3, <1>4, Zenon

\* Stop only adds states.
LEMMA StopStep ==
  ASSUME ChainInd, Stop
  PROVE  ChainOf(disk', mem', todo', importing')
<1>1. Idle /\ mem' = Down /\ importing' = <<>> /\ todo' = todo /\ todo = <<>> /\ DiskType(disk)
  BY Zenon DEF Stop, Idle, ChainInd, ChainOf
<1>2. PICK flush : disk' = [disk EXCEPT !.states = @ \cup flush]
  BY Zenon DEF Stop
<1>3. /\ DiskType(disk') /\ disk'.blocks = disk.blocks /\ disk'.headBlock = disk.headBlock
      /\ disk'.headHeader = disk.headHeader /\ disk'.crashes = disk.crashes
      /\ disk'.canon = disk.canon
  BY <1>1, <1>2, Zenon DEF DiskType
<1>. QED
  BY <1>1, <1>3, GoesDown, Zenon

\* Crash loses the writes that are left: the canonical numbers may be half
\* written, the heads are stored.
LEMMA CrashStep ==
  ASSUME ChainInd, Crash
  PROVE  ChainOf(disk', mem', todo', importing')
<1>1. /\ mem' = Down /\ importing' = <<>> /\ todo' = <<>> /\ DiskType(disk)
      /\ disk' = [disk EXCEPT !.crashes = @ + 1]
  BY Zenon DEF Crash, ChainInd, ChainOf
<1>2. /\ DiskType(disk') /\ disk'.blocks = disk.blocks /\ disk'.headBlock = disk.headBlock
      /\ disk'.headHeader = disk.headHeader /\ disk'.crashes # 0
  BY <1>1 DEF DiskType
<1>. QED
  BY <1>1, <1>2, GoesDown, Zenon

\* SetHead begins with the header as it is.
LEMMA SetHeadStep ==
  ASSUME ChainInd, SetHead
  PROVE  ChainOf(disk', mem', todo', importing')
<1>. DEFINE top == mem.header
            M == Num(top)
<1>1. /\ Idle /\ disk' = disk /\ mem' = mem /\ importing' = importing
      /\ importing \in Seq(Blocks \ {GenesisBlock})
      /\ DiskType(disk) /\ HeadsStored(disk) /\ mem.header = disk.headHeader /\ mem.up
      /\ \A t : MemOf(mem, disk, t)
  BY Zenon DEF SetHead, Idle, ChainInd, ChainOf, MemOf
<1>2. disk.crashes = 0 => Agree(disk.canon, disk.headBlock, disk.headHeader)
  BY <1>1, IdleIs, Zenon DEF Idle
<1>3. top \in Blocks /\ M \in Nat /\ Line[top] \subseteq disk.blocks
  BY <1>1, NumFacts, Zenon DEF DiskType, HeadsStored
<1>4. PICK n \in Numbers :
        /\ M > n
        /\ todo' = [i \in 1 .. M - n |-> Op("rewind", AncestorAt(top, M + 1 - i))]
                     \o <<[op |-> "delete", block |-> {b \in Line[top] : Num(b) > n}],
                          Op("load", None)>>
  BY Zenon DEF SetHead
<1>5. n \in Nat /\ M - n \in Nat
  BY <1>3, <1>4, NumFacts
<1>. DEFINE L == M - n
            r == [i \in 1 .. L |-> Op("rewind", AncestorAt(top, M + 1 - i))]
            q == <<[op |-> "delete", block |-> Rewound(top, n)], Op("load", None)>>
<1>6. todo' = r \o q
  BY <1>4, Zenon DEF Rewound
<1>. HIDE DEF M
<1>7. \A i \in 1 .. L : Op("rewind", AncestorAt(top, M + 1 - i)) \in Ops
  <2>. TAKE i \in 1 .. L
  <2>1. M + 1 - i \in Nat /\ M + 1 - i <= M
    BY <1>3, <1>5
  <2>2. AncestorAt(top, M + 1 - i) \in Blocks
    BY <1>3, <2>1, AncestorIn, Zenon DEF M
  <2>. QED
    BY <2>2, OpIs, Zenon DEF OpNames
<1>8. L \in Nat /\ L = M - n
  BY <1>5, Zenon
<1>. HIDE DEF L
<1>9. /\ r \in Seq(Ops) /\ Len(r) = L
      /\ \A i \in 1 .. L : r[i] = Op("rewind", AncestorAt(top, M + 1 - i))
  BY <1>7, <1>8
<1>10. /\ [op |-> "delete", block |-> Rewound(top, n)] \in Ops /\ Op("load", None) \in Ops
  <2>1. Rewound(top, n) \in SUBSET Blocks
    BY <1>3, LineBasics, Zenon DEF Rewound
  <2>. QED
    BY <2>1, OpIs, Zenon DEF OpNames
<1>11. /\ q \in Seq(Ops) /\ Len(q) = 2 /\ q[1] = [op |-> "delete", block |-> Rewound(top, n)]
       /\ q[2] = Op("load", None)
  BY <1>10
<1>. HIDE DEF r, q
<1>. DEFINE t == todo'
<1>12. /\ t \in Seq(Ops) /\ Len(t) = Len(r) + Len(q)
       /\ \A i \in 1 .. Len(r) : t[i] = r[i]
       /\ \A i \in 1 .. Len(q) : t[Len(r) + i] = q[i]
  <2>1. r \in Seq(Ops) /\ q \in Seq(Ops)
    BY <1>9, <1>11, Zenon
  <2>. QED
    BY ONLY <1>6, <2>1, JoinOps
<1>. HIDE DEF t
<1>13. RewindTodo(t, disk, top, n, M, 0)
  <2>1. Len(t) = 0 + (M - n) + 2
    BY <1>8, <1>9, <1>11, <1>12
  <2>2. \A i \in 1 .. M - n : t[0 + i] = Op("rewind", AncestorAt(top, M + 1 - i))
    BY <1>8, <1>9, <1>12
  <2>3. /\ t[0 + (M - n) + 1] = [op |-> "delete", block |-> Rewound(top, n)]
        /\ t[0 + (M - n) + 2] = Op("load", None)
    <3>1. /\ 0 + (M - n) + 1 = Len(r) + 1 /\ 0 + (M - n) + 2 = Len(r) + 2
          /\ 1 \in 1 .. Len(q) /\ 2 \in 1 .. Len(q)
      BY <1>8, <1>9, <1>11
    <3>. QED
      BY <1>11, <1>12, <3>1, Zenon
  <2>4. n < Num(top) /\ n <= M /\ M <= Num(top)
    BY <1>3, <1>4, <1>5 DEF M
  <2>. QED
    BY <1>3, <2>1, <2>2, <2>3, <2>4, Zenon DEF RewindTodo
<1>14. BetweenTurns(disk, top, M)
  <2>1. AncestorAt(top, M) = top
    BY <1>3, LineBasics, AncestorIs, Zenon DEF M
  <2>. QED
    BY <1>1, <1>3, <2>1 DEF BetweenTurns, M
<1>15. Rewinding(t, disk)
  BY <1>3, <1>5, <1>13, <1>14 DEF Rewinding
<1>16. t[1].op # "headBlock"
  BY <1>3, <1>5, <1>12, <1>13, <1>15, BetweenFirst, Zenon
<1>17. TodoOf(t, disk)
  BY <1>2, <1>15, <1>16, Zenon DEF TodoOf, RewindCanon
<1>. QED
  BY <1>1, <1>12, <1>17, Zenon DEF ChainOf, t

\* The database of a new node.
LEMMA ChainStart ==
  ASSUME ChainDBInit
  PROVE  ChainInd
<1>. DEFINE c == [n \in Numbers |-> IF n = 0 THEN GenesisBlock ELSE None]
<1>1. /\ DOMAIN disk = {"blocks", "canon", "headBlock", "headHeader", "headFast", "states",
                        "vaultOf", "vaults", "crashes"}
      /\ disk.blocks = {GenesisBlock} /\ disk.canon = c /\ disk.headBlock = GenesisBlock
      /\ disk.headHeader = GenesisBlock /\ disk.states = {Root(GenesisBlock)} /\ disk.crashes = 0
      /\ mem = Down /\ todo = <<>> /\ importing = <<>>
  BY Zenon DEF ChainDBInit
<1>2. c \in [Numbers -> Blocks \cup {None}] /\ c[0] = GenesisBlock
  BY NumFacts, Zenon
<1>. HIDE DEF c
<1>3. DiskType(disk)
  BY <1>1, <1>2, NumFacts, Zenon DEF DiskType
<1>4. Line[GenesisBlock] = {GenesisBlock} /\ Num(GenesisBlock) = 0
  <2>1. GenesisBlock \in Blocks /\ HasParents({GenesisBlock})
    BY NumFacts, Zenon DEF HasParents
  <2>. QED
    BY <2>1, LineBasics, NumFacts
<1>5. HeadsStored(disk)
  BY <1>1, <1>4, Zenon DEF HeadsStored
<1>6. Agree(disk.canon, disk.headBlock, disk.headHeader)
  BY <1>1, <1>2, <1>4, Zenon DEF Agree, CanonIn, CutIn, Related
<1>7. NewImport(todo, disk.headBlock, disk.blocks)
  BY <1>1, NewEmpty, Zenon
<1>8. /\ FutureHead(todo, disk.headBlock) = disk.headBlock
      /\ FutureHeader(todo, disk.headHeader) = disk.headHeader
  BY <1>1 DEF FutureHead, FutureHeader
<1>9. TodoOf(todo, disk)
  BY <1>6, <1>7, <1>8, Zenon DEF TodoOf, ImportCanon, NewImport
<1>10. MemOf(mem, disk, todo)
  BY <1>1, Zenon DEF MemOf, Down
<1>11. importing \in Seq(Blocks \ {GenesisBlock})
  BY <1>1
<1>. QED
  BY <1>3, <1>5, <1>7, <1>9, <1>10, <1>11, Zenon DEF ChainInd, ChainOf, NewImport

\* Every step keeps the invariant, one lemma per action.
LEMMA ChainStep ==
  ASSUME ChainInd, [ChainDBNext]_chainVars
  PROVE  ChainInd'
<1>1. ChainOf(disk', mem', todo', importing') => ChainInd'
  BY Zenon DEF ChainInd
<1>2. CASE UNCHANGED chainVars
  BY <1>1, <1>2, Zenon DEF ChainInd, chainVars
<1>3. ASSUME ChainDBNext PROVE ChainOf(disk', mem', todo', importing')
  BY <1>3, ImportBlockStep, SidechainStep, ImportNextStep, MineStep, SetHeadStep, StopStep,
     CrashStep, RestartStep, VaultRootStep, BlockStep, VaultStep, StateStep, CanonStep,
     HeadBlockStep, HeadHeaderStep, HeadFastStep, CutStep, RewindStep, DeleteStep, ReloadStep,
     Zenon
  DEF ChainDBNext
<1>. QED
  BY <1>1, <1>2, <1>3, Zenon

------------------------------------------------------------------------------
(* The theorems.                                                           *)

\* Whatever write a crash cuts off, on any tree of blocks and for any number of
\* crashes: the heads on disk are stored with all their ancestors.
THEOREM HeadStaysUsable == ChainDBSpec => []HeadUsable
<1>1. ChainDBInit => ChainInd
  BY ChainStart, Zenon
<1>2. ChainInd /\ [ChainDBNext]_chainVars => ChainInd'
  BY ChainStep, Zenon
<1>3. ChainInd => HeadUsable
  BY Zenon DEF ChainInd, ChainOf, HeadsStored, HeadUsable
<1>. QED
  BY <1>1, <1>2, <1>3, PTL DEF ChainDBSpec

\* While nothing crashed and no operation runs, number by number the canonical
\* hashes are the ancestors of the head, whatever imports, reorganisations and
\* rewinds have been made.
THEOREM CanonicalIsHeadChain == ChainDBSpec => []CanonicalBelowHead
<1>1. ChainDBInit => ChainInd
  BY ChainStart
<1>2. ChainInd /\ [ChainDBNext]_chainVars => ChainInd'
  BY ChainStep
<1>3. ChainInd => CanonicalBelowHead
  <2>. SUFFICES ASSUME ChainInd, Idle, disk.crashes = 0, NEW n \in 0 .. Num(mem.cur)
                PROVE  disk.canon[n] = AncestorAt(mem.cur, n)
    BY Zenon DEF CanonicalBelowHead
  <2>1. mem.cur = disk.headBlock /\ mem.cur \in Blocks
    BY Zenon DEF Idle, ChainInd, ChainOf, MemOf, DiskType
  <2>2. CanonIn(disk.canon, mem.cur)
    BY <2>1, IdleIs, Zenon DEF Idle, Agree
  <2>3. n \in Nat /\ n <= Num(mem.cur)
    BY <2>1, NumFacts
  <2>4. AncestorAt(mem.cur, n) \in Line[mem.cur] /\ Num(AncestorAt(mem.cur, n)) = n
    BY <2>1, <2>3, AncestorIn, Zenon
  <2>. QED
    BY <2>2, <2>4, Zenon DEF CanonIn
<1>. QED
  BY <1>1, <1>2, <1>3, PTL DEF ChainDBSpec

\* What the step of StopKeepsHead may do.
StopKeeps ==
  Stop /\ disk.canon[Num(mem.cur)] = mem.cur /\ HasState(mem.cur)
    => Root(mem.cur) \in disk'.states /\ disk'.headBlock = mem.cur

\* Stop flushes the state of the head it leaves on disk, for every number of
\* states kept in memory; genesis, which it skips, is there already.
THEOREM StopLosesNothing == ChainDBSpec => StopKeepsHead
<1>1. ChainDBInit => ChainInd
  BY ChainStart
<1>2. ChainInd /\ [ChainDBNext]_chainVars => ChainInd'
  BY ChainStep
<1>3. ChainInd => StopKeeps
  <2>. SUFFICES ASSUME ChainInd, Stop, disk.canon[Num(mem.cur)] = mem.cur, HasState(mem.cur)
                PROVE  Root(mem.cur) \in disk'.states /\ disk'.headBlock = mem.cur
    BY Zenon DEF StopKeeps
  <2>1. mem.cur = disk.headBlock /\ mem.cur \in Blocks /\ DiskType(disk) /\ Num(mem.cur) \in Nat
    BY NumFacts, Zenon DEF Stop, Idle, ChainInd, ChainOf, MemOf, DiskType
  <2>. DEFINE J == {j \in {0, 1, TriesInMemory - 1} : Num(mem.cur) > j}
              kept == {disk.canon[Num(mem.cur) - i] : i \in J}
              flush == RootsOf(kept) \cap RootsOf(mem.gc)
  <2>2. disk' = [disk EXCEPT !.states = @ \cup flush]
    BY Zenon DEF Stop
  <2>3. Num(mem.cur) # 0 => mem.cur \in kept
    <3>. SUFFICES ASSUME Num(mem.cur) # 0 PROVE mem.cur \in kept
      BY Zenon
    <3>1. 0 \in J /\ Num(mem.cur) - 0 = Num(mem.cur)
      BY <2>1
    <3>. HIDE DEF J
    <3>. QED
      BY <3>1, Zenon
  <2>4. Num(mem.cur) # 0 => Root(mem.cur) \in disk.states \cup flush
    <3>. HIDE DEF kept
    <3>1. Num(mem.cur) # 0 => Root(mem.cur) \in RootsOf(kept)
      BY <2>1, <2>3, Zenon DEF RootsOf
    <3>2. Root(mem.cur) \in RootsOf(mem.gc) \cup disk.states
      BY Zenon DEF HasState, States
    <3>. QED
      BY <3>1, <3>2, Zenon
  <2>5. Num(mem.cur) = 0 => Root(mem.cur) \in disk.states
    BY <2>1, NumFacts, Zenon DEF DiskType
  <2>. HIDE DEF flush
  <2>6. disk'.states = disk.states \cup flush /\ disk'.headBlock = disk.headBlock
    BY <2>1, <2>2, Zenon DEF DiskType
  <2>. QED
    BY <2>1, <2>4, <2>5, <2>6, Zenon
<1>4. StopKeepsHead <=> [][StopKeeps]_chainVars
  BY Zenon DEF StopKeepsHead, StopKeeps
<1>. QED
  BY <1>1, <1>2, <1>3, <1>4, PTL DEF ChainDBSpec
=============================================================================
