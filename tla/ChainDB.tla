------------------------------- MODULE ChainDB -------------------------------
(***************************************************************************)
(* The chain database of one node (core/blockchain.go, headerchain.go,     *)
(* vault_utils.go): the import of blocks from peers, the writing of blocks *)
(* the node mined itself, reorganisations, side chains, the garbage        *)
(* collection of states, rewinding, and what is left of all this on disk   *)
(* when the process dies between two writes.                               *)
(*                                                                         *)
(* An operation that holds the chain lock computes the list of its         *)
(* database writes (todo); Write performs the next one, and Crash forgets  *)
(* the rest with everything that was only in memory.  Blocks form a fixed  *)
(* tree.  A block with no transaction has the state root of its parent,    *)
(* so states are known by their roots.                                     *)
(***************************************************************************)
EXTENDS Integers, FiniteSets, Sequences

CONSTANTS
  Blocks,          \* the blocks that exist, genesis among them
  GenesisBlock,
  ParentOf(_),     \* ParentHash
  Num(_),          \* Number
  Difficulty(_),
  Root(_),         \* public state root in the header
  VaultRoot(_),    \* root of the private state that executing the block yields
  NoVault,         \* the empty private state
  TriesInMemory,   \* states below the head that stay in memory
  MaxCrashes,      \* bound on crashes
  None             \* no block

VARIABLES
  disk,            \* the database (and, for the properties, how often the process died)
  mem,             \* the BlockChain object
  todo,            \* database writes the running operation has still to make
  importing        \* blocks a side chain import has still to process

chainVars == <<disk, mem, todo, importing>>

Td[b \in Blocks] == IF b = GenesisBlock THEN 0 ELSE Td[ParentOf(b)] + Difficulty(b)
Numbers == {Num(b) : b \in Blocks}
Roots == {Root(b) : b \in Blocks}

\* The block and its ancestors: the least set with b and its members' parents.
HasParents(S) == \A b \in S \ {GenesisBlock} : ParentOf(b) \in S
Line == [b \in Blocks |->
           {a \in Blocks : \A S \in SUBSET Blocks : b \in S /\ HasParents(S) => a \in S}]
AncestorAt(b, n) == CHOOSE a \in Line[b] : Num(a) = n

\* The ancestors of b above number n, and b, in ascending order.
Above(b, n) == [i \in 1 .. Num(b) - n |-> AncestorAt(b, n + i)]

\* Blocks with distinct private states have distinct public roots: a private
\* transaction raises its sender's public nonce.
ASSUME ChainAssumption ==
  /\ GenesisBlock \in Blocks /\ None \notin Blocks
  /\ \A b \in Blocks : Num(b) \in Nat
  /\ Num(GenesisBlock) = 0
  /\ \A b \in Blocks \ {GenesisBlock} :
       ParentOf(b) \in Blocks /\ Num(b) = Num(ParentOf(b)) + 1 /\ Difficulty(b) > 0
  /\ \A b, c \in Blocks : Root(b) = Root(c) => VaultRoot(b) = VaultRoot(c)
  /\ VaultRoot(GenesisBlock) = NoVault /\ TriesInMemory \in Nat \ {0}

\* A trie is readable from the cache or from the database.
RootsOf(bs) == {Root(b) : b \in bs \cap Blocks}
States == RootsOf(mem.gc) \cup disk.states
HasState(b) == Root(b) \in States
HasBlockAndState(b) == b \in disk.blocks /\ HasState(b)
HasVault(b) == disk.vaultOf[Root(b)] \in mem.vaults \cup disk.vaults \cup {NoVault}

\* A block is executed on both states of its parent.
Executable(b) == HasBlockAndState(ParentOf(b)) /\ HasVault(ParentOf(b))

------------------------------------------------------------------------------
(* The writes of an operation.                                             *)

Op(op, b) == [op |-> op, block |-> b]

\* insert, up to its canonical hash; the head writes follow it.
Insert(b) == <<Op("canon", b)>>

\* The last common ancestor.
Fork(b, c) == CHOOSE a \in Line[b] \cap Line[c] : Line[a] = Line[b] \cap Line[c]

\* reorg walks both chains down through the database.
ReorgFails(old, new) ==
  LET fork == Fork(old, new)
  IN ~((Line[new] \cup Line[old]) \ Line[fork]) \cup {fork} \subseteq disk.blocks \cup {new}

\* reorg: the new chain but its head is inserted, then the canonical numbers
\* above the block that is current by then are deleted.
reorg(old, new) ==
  LET branch == Above(new, Num(Fork(old, new)))
      inner == 1 .. Len(branch) - 1
  IN [i \in inner |-> Op("canon", branch[i])] \o <<Op("cut", None)>>

\* Plausible bug: the blocks below the new head keep their old numbers.
SwitchHeadOnly(b) ==
  IF b # GenesisBlock /\ ParentOf(b) # mem.cur /\ ReorgFails(mem.cur, b) THEN <<>> ELSE Insert(b)

\* Make b the head, reorganising if its parent is not: nothing if reorg fails.
Switch(b) ==
  IF b # GenesisBlock /\ ParentOf(b) = mem.cur THEN Insert(b)
  ELSE IF ReorgFails(mem.cur, b) THEN <<>> ELSE reorg(mem.cur, b) \o Insert(b)

\* WriteBlockWithState: better is whether b takes over on a tie.  Only a block
\* that came from a peer has its private state flushed.
WriteBlockWithState(b, better, fromPeer) ==
  <<Op("vaultOf", b), Op("block", b)>>
    \o (IF fromPeer THEN <<Op("vault", b)>> ELSE <<>>)
    \o <<Op("state", b)>>
    \o (IF Td[b] > Td[mem.cur] \/ (Td[b] = Td[mem.cur] /\ better) THEN Switch(b) ELSE <<>>)

\* On equal difficulty the lower block wins, and of two at one height either.
Better(b) ==
  IF Num(b) < Num(mem.cur) THEN {TRUE}
  ELSE IF Num(b) = Num(mem.cur) THEN BOOLEAN ELSE {FALSE}

\* Ancestors of b that have no state, up from one that has; none if a block is
\* missing on the way.
Stateless(b) ==
  LET base == {a \in Line[b] : HasState(a)}
      low == CHOOSE a \in base : \A x \in base : Num(x) <= Num(a)
  IN IF (Line[b] \ Line[low]) \cup {low} \subseteq disk.blocks \cup {b} THEN Above(b, Num(low)) ELSE <<>>

------------------------------------------------------------------------------
\* loadLastState: repair rewinds a head whose public state is not readable to
\* the nearest ancestor that has one.  The header and fast heads stay if they
\* are stored.  (A missing private state is found too, but the repair it calls
\* looks at the public one again and leaves the head alone.)
Repaired(b) ==
  CHOOSE a \in Line[b] : HasState(a) /\ \A x \in Line[b] : HasState(x) => Num(x) <= Num(a)

loadLastState(m) ==
  LET cur == Repaired(disk.headBlock)
  IN [m EXCEPT !.cur = cur, !.up = TRUE,
               !.header = IF disk.headHeader \in disk.blocks THEN disk.headHeader ELSE cur,
               !.fast = IF disk.headFast \in disk.blocks THEN disk.headFast ELSE cur]

Down == [up |-> FALSE, cur |-> None, header |-> None, fast |-> None, gc |-> {}, vaults |-> {}]

ChainDBInit ==
  /\ disk = [blocks |-> {GenesisBlock}, canon |-> [n \in Numbers |-> IF n = 0 THEN GenesisBlock ELSE None],
             headBlock |-> GenesisBlock, headHeader |-> GenesisBlock, headFast |-> GenesisBlock,
             states |-> {Root(GenesisBlock)}, vaultOf |-> [r \in Roots |-> NoVault],
             vaults |-> {}, crashes |-> 0]
  /\ mem = Down /\ todo = <<>> /\ importing = <<>>

Idle == mem.up /\ todo = <<>>

------------------------------------------------------------------------------
(* Operations.                                                             *)

\* insertChain on one block that is known or can be executed: the writes it
\* makes.  A known block becomes the head if its
\* difficulty is higher, or if it is not the first of its batch.
InsertOne(b, first) ==
  /\ \E better \in Better(b) :
       todo' = IF HasBlockAndState(b)
               THEN IF first /\ Td[mem.cur] >= Td[b] THEN <<>> ELSE Switch(b)
               ELSE WriteBlockWithState(b, better, TRUE)
  /\ UNCHANGED <<disk, mem>>

\* InsertChain from a peer.
ImportBlock ==
  /\ Idle /\ importing = <<>>
  /\ \E b \in Blocks \ {GenesisBlock} :
       /\ HasBlockAndState(b) \/ Executable(b)
       /\ InsertOne(b, TRUE)
  /\ UNCHANGED importing

\* insertSidechain: the parent is stored but its state is pruned.  A block of
\* the canonical chain is skipped, and the comparison of difficulties that
\* follows has nothing to compare: the process dies.  Another one is stored,
\* and if its chain is not lighter, all of it that lacks state is imported.
insertSidechain ==
  /\ Idle /\ importing = <<>>
  /\ \E b \in Blocks \ {GenesisBlock} :
       LET n == Num(b)
           canonical == IF Num(mem.cur) >= n THEN disk.canon[n] ELSE None
       IN /\ ~HasBlockAndState(b) /\ ~HasState(ParentOf(b)) /\ ParentOf(b) \in disk.blocks
          /\ IF canonical = b
             THEN mem' = Down /\ UNCHANGED <<disk, todo, importing>>
             ELSE /\ canonical = None \/ Root(canonical) # Root(b)
                  /\ todo' = <<Op("block", b)>>
                  /\ importing' = IF Td[mem.cur] > Td[b] THEN <<>>
                                  ELSE Stateless(b)
                  /\ UNCHANGED <<disk, mem>>

\* The next block of the side chain; an error drops the others.
ImportNext ==
  /\ Idle /\ importing # <<>>
  /\ LET b == Head(importing)
     IN IF HasBlockAndState(b) \/ Executable(b)
        THEN /\ InsertOne(b, FALSE)
             /\ importing' = Tail(importing)
        ELSE importing' = <<>> /\ UNCHANGED <<disk, mem, todo>>

\* worker.wait writes a block the node sealed, on the block that was current
\* when it was built.
MineBlock ==
  /\ Idle
  /\ \E b \in Blocks \ {GenesisBlock} :
       /\ b \notin disk.blocks /\ Executable(b)
       /\ disk.canon[Num(ParentOf(b))] = ParentOf(b)
       /\ \E better \in Better(b) : todo' = WriteBlockWithState(b, better, FALSE)
  /\ UNCHANGED <<disk, mem, importing>>

\* SetHead: head by head, then the deletion of what was rewound in one batch,
\* then loadLastState.
SetHead ==
  /\ Idle /\ importing = <<>>
  /\ \E n \in Numbers :
       LET high == Num(mem.header)
           gone == {b \in Line[mem.header] : Num(b) > n}
       IN /\ high > n
          /\ todo' = [i \in 1 .. high - n |-> Op("rewind", AncestorAt(mem.header, high + 1 - i))]
                       \o <<[op |-> "delete", block |-> gone], Op("load", None)>>
  /\ UNCHANGED <<disk, mem, importing>>

\* Plausible bug: only the states kept for a reorganisation are flushed.
StopWithoutHead ==
  /\ Idle
  /\ LET kept == {disk.canon[Num(mem.cur) - i] :
                    i \in {j \in {1, TriesInMemory - 1} : Num(mem.cur) > j}}
     IN disk' = [disk EXCEPT !.states = @ \cup (RootsOf(kept) \cap RootsOf(mem.gc))]
  /\ mem' = Down /\ importing' = <<>> /\ UNCHANGED todo

\* Stop flushes the public states of the head, the block below it and the
\* oldest one in memory.
Stop ==
  /\ Idle
  /\ LET kept == {disk.canon[Num(mem.cur) - i] :
                    i \in {j \in {0, 1, TriesInMemory - 1} : Num(mem.cur) > j}}
     IN disk' = [disk EXCEPT !.states = @ \cup (RootsOf(kept) \cap RootsOf(mem.gc))]
  /\ mem' = Down /\ importing' = <<>> /\ UNCHANGED todo

Crash ==
  /\ mem.up /\ disk.crashes < MaxCrashes
  /\ disk' = [disk EXCEPT !.crashes = @ + 1]
  /\ mem' = Down /\ todo' = <<>> /\ importing' = <<>>

Restart ==
  /\ ~mem.up
  /\ disk.headBlock \in disk.blocks
  /\ mem' = loadLastState(mem)
  /\ disk' = [disk EXCEPT !.headBlock = mem'.cur, !.headHeader = mem'.header]
  /\ UNCHANGED <<todo, importing>>

------------------------------------------------------------------------------
(* The writes.                                                             *)

Doing(op) == mem.up /\ todo # <<>> /\ Head(todo).op = op /\ UNCHANGED importing
It == Head(todo).block

\* vaultState.Commit and WriteVaultStateRoot.
WriteVaultRoot ==
  /\ Doing("vaultOf") /\ todo' = Tail(todo)
  /\ disk' = [disk EXCEPT !.vaultOf[Root(It)] = VaultRoot(It)]
  /\ mem' = [mem EXCEPT !.vaults = @ \cup {VaultRoot(It)}]

WriteBlock ==
  /\ Doing("block") /\ todo' = Tail(todo)
  /\ disk' = [disk EXCEPT !.blocks = @ \cup {It}]
  /\ UNCHANGED mem

\* vaultTriedb.Commit.
WriteVault ==
  /\ Doing("vault") /\ todo' = Tail(todo)
  /\ disk' = [disk EXCEPT !.vaults = @ \cup {VaultRoot(It)}]
  /\ UNCHANGED mem

\* The state goes to memory; every so often the one that is about to leave it
\* is flushed; those at or below it are dropped.
WriteState ==
  /\ Doing("state") /\ todo' = Tail(todo)
  /\ LET chosen == Num(It) - TriesInMemory
         header == IF chosen > 0 THEN disk.canon[chosen] ELSE None
     IN /\ \E flush \in {{}, RootsOf({header}) \cap RootsOf(mem.gc)} :
             disk' = [disk EXCEPT !.states = @ \cup flush]
        /\ mem' = [mem EXCEPT !.gc = {b \in @ \cup {It} : chosen <= 0 \/ Num(b) > chosen}]

\* insert forces the header and fast heads onto a block that was not canonical.
WriteCanonicalHash ==
  /\ Doing("canon")
  /\ todo' = <<Op("headBlock", It)>>
               \o (IF disk.canon[Num(It)] = It THEN <<>>
                   ELSE <<Op("headHeader", It), Op("headFast", It)>>)
               \o Tail(todo)
  /\ disk' = [disk EXCEPT !.canon[Num(It)] = It]
  /\ UNCHANGED mem

WriteHeadBlock ==
  /\ Doing("headBlock") /\ todo' = Tail(todo)
  /\ disk' = [disk EXCEPT !.headBlock = It] /\ mem' = [mem EXCEPT !.cur = It]

WriteHeadHeader ==
  /\ Doing("headHeader") /\ todo' = Tail(todo)
  /\ disk' = [disk EXCEPT !.headHeader = It] /\ mem' = [mem EXCEPT !.header = It]

WriteHeadFast ==
  /\ Doing("headFast") /\ todo' = Tail(todo)
  /\ disk' = [disk EXCEPT !.headFast = It] /\ mem' = [mem EXCEPT !.fast = It]

\* The end of reorg.
CutCanonical ==
  /\ Doing("cut") /\ todo' = Tail(todo)
  /\ disk' = [disk EXCEPT !.canon = [n \in Numbers |->
                IF n > Num(mem.cur) /\ \A m \in Num(mem.cur) + 1 .. n : @[m] # None
                THEN None ELSE @[n]]]
  /\ UNCHANGED mem

\* Plausible bug: SetHead rewinds only the header before it deletes blocks.
RewindHeader ==
  /\ Doing("rewind")
  /\ todo' = <<Op("headHeader", ParentOf(It))>> \o Tail(todo)
  /\ UNCHANGED <<disk, mem>>

\* One turn of hc.SetHead, with SetHead's updateFn.
RewindHeads ==
  /\ Doing("rewind")
  /\ LET p == ParentOf(It)
         block == IF HasBlockAndState(p) THEN p ELSE GenesisBlock
         fast == IF p \in disk.blocks THEN p ELSE GenesisBlock
     IN todo' = (IF Num(p) < Num(mem.cur) THEN <<Op("headBlock", block)>> ELSE <<>>)
                  \o (IF Num(p) < Num(mem.fast) THEN <<Op("headFast", fast)>> ELSE <<>>)
                  \o <<Op("headHeader", p)>> \o Tail(todo)
  /\ UNCHANGED <<disk, mem>>

DeleteRewound ==
  /\ Doing("delete") /\ todo' = Tail(todo)
  /\ disk' = [disk EXCEPT !.blocks = @ \ It,
                          !.canon = [n \in Numbers |->
                                       IF \E b \in It : Num(b) = n THEN None ELSE @[n]]]
  /\ UNCHANGED mem

Reload ==
  /\ Doing("load") /\ todo' = Tail(todo)
  /\ mem' = loadLastState(mem)
  /\ disk' = [disk EXCEPT !.headBlock = mem'.cur, !.headHeader = mem'.header]

ChainDBNext ==
  \/ ImportBlock \/ insertSidechain \/ ImportNext \/ MineBlock \/ SetHead
  \/ Stop \/ Crash \/ Restart
  \/ WriteVaultRoot \/ WriteBlock \/ WriteVault \/ WriteState \/ WriteCanonicalHash
  \/ WriteHeadBlock \/ WriteHeadHeader \/ WriteHeadFast \/ CutCanonical
  \/ RewindHeads \/ DeleteRewound \/ Reload

ChainDBSpec == ChainDBInit /\ [][ChainDBNext]_chainVars

------------------------------------------------------------------------------
\* Whatever write a crash cuts off, the node starts again on a block it has,
\* with every ancestor, and hc.SetHead finds the parent of every header it
\* rewinds.
HeadUsable == Line[disk.headBlock] \cup Line[disk.headHeader] \subseteq disk.blocks

\* While no operation runs, the canonical numbers up to the head are its chain.
CanonicalBelowHead ==
  Idle /\ disk.crashes = 0 => \A n \in 0 .. Num(mem.cur) : disk.canon[n] = AncestorAt(mem.cur, n)

\* A stop that was not a crash loses nothing: the node restarts on its head.
StopKeepsHead ==
  [][Stop /\ disk.canon[Num(mem.cur)] = mem.cur /\ HasState(mem.cur)
       => Root(mem.cur) \in disk'.states /\ disk'.headBlock = mem.cur]_chainVars

\* "Make sure the state associated with the block is available", for the
\* private state too: the node that runs can read its head's.
VaultReadable == mem.up => HasVault(mem.cur)
=============================================================================
