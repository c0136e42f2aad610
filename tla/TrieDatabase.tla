---------------------------- MODULE TrieDatabase ----------------------------
(***************************************************************************)
(* The write layer between tries and disk (trie/database.go) as the chain  *)
(* uses it: states are committed into memory and referenced, referenced    *)
(* states that grow old are dereferenced, some are written to disk         *)
(* (Commit), and the oldest nodes are flushed when memory runs short       *)
(* (Cap).  A node is its hash.  Writing is split where readers and a crash *)
(* can come between: a batch reaches the disk, then its nodes leave the    *)
(* cache.                                                                  *)
(***************************************************************************)
EXTENDS Integers, FiniteSets, SequencesExt

CONSTANTS
  TrieNodes,      \* sequence of all nodes, children before parents
  Embedded(_),    \* children a node holds in itself
  External(_),    \* storage tries and code that the accounts in a node refer to
  StateRoots,     \* roots of states
  MetaRoot,       \* the empty hash
  MaxPushes       \* bound on how often a root waits in the chain's triegc

VARIABLES
  cache,          \* the Database object
  ondisk,         \* nodes in the disk database
  triegc,         \* how often each root waits to be dereferenced (blockchain.go)
  flush           \* the Commit or Cap under way

trieVars == <<cache, ondisk, triegc, flush>>

AllNodes == ToSet(TrieNodes)
Below(n) == Embedded(n) \cup External(n)
Present == cache.dirties \cup ondisk

\* The nodes of a state.
RECURSIVE NodesOf(_)
NodesOf(n) == {n} \cup UNION {NodesOf(c) : c \in Below(n)}

InOrder(s) == SelectSeq(TrieNodes, LAMBDA n : n \in s)

ASSUME TrieAssumption ==
  /\ StateRoots \subseteq AllNodes /\ MetaRoot \notin AllNodes
  /\ \A i \in DOMAIN TrieNodes : Below(TrieNodes[i]) \subseteq {TrieNodes[j] : j \in 1 .. i - 1}

EmptyCache ==
  [dirties |-> {}, parents |-> [n \in AllNodes |-> 0],
   children |-> [n \in AllNodes |-> {}],      \* external references of a node
   oldest |-> MetaRoot, newest |-> MetaRoot,
   prev |-> [n \in AllNodes \cup {MetaRoot} |-> MetaRoot],
   next |-> [n \in AllNodes \cup {MetaRoot} |-> MetaRoot]]
NoFlush == [op |-> "none", list |-> <<>>, batch |-> {}]

TrieInit ==
  /\ cache = EmptyCache /\ ondisk = {} /\ flush = NoFlush
  /\ triegc = [r \in StateRoots |-> 0]

------------------------------------------------------------------------------
\* childs: the children in the node and the ones registered for it.
childs(db, n) == Embedded(n) \cup db.children[n]

\* insert a node that is not cached at the end of the flush list.
insert(db, n) ==
  IF n \in db.dirties THEN db
  ELSE [db EXCEPT !.dirties = @ \cup {n},
                  !.parents = [m \in AllNodes |->
                                 IF m \in Embedded(n) \cap db.dirties THEN @[m] + 1 ELSE @[m]],
                  !.prev[n] = db.newest,
                  !.next = IF db.oldest = MetaRoot THEN @ ELSE [@ EXCEPT ![db.newest] = n],
                  !.oldest = IF @ = MetaRoot THEN n ELSE @,
                  !.newest = n]

\* reference from a node: registered once, and only of nodes in the cache.
reference(db, child, parent) ==
  IF child \notin db.dirties \/ child \in db.children[parent] THEN db
  ELSE [db EXCEPT !.parents[child] = @ + 1, !.children[parent] = @ \cup {child}]

\* Reference of a root: counted.
Reference(db, root) ==
  IF root \notin db.dirties THEN db
  ELSE [db EXCEPT !.parents[root] = @ + 1]

\* A trie's commit stores one node, then the references of its leaves.
RECURSIVE Stored(_, _)
Stored(db, nodes) ==
  IF nodes = <<>> THEN db
  ELSE LET n == Head(nodes)
           refs == FoldSet(LAMBDA e, d : reference(d, e, n), insert(db, n), External(n))
       IN Stored(refs, Tail(nodes))

\* Plausible bug: a node at the end of the list leaves its neighbour as it was.
UnlinkInner(db, n) ==
  IF n = db.oldest
  THEN [db EXCEPT !.oldest = db.next[n], !.prev[db.next[n]] = MetaRoot]
  ELSE [db EXCEPT !.next[db.prev[n]] = db.next[n], !.prev[db.next[n]] = db.prev[n]]

\* Removal from the flush list.
Unlink(db, n) ==
  IF n = db.oldest
  THEN [db EXCEPT !.oldest = db.next[n], !.prev[db.next[n]] = MetaRoot]
  ELSE IF n = db.newest
  THEN [db EXCEPT !.newest = db.prev[n], !.next[db.prev[n]] = MetaRoot]
  ELSE [db EXCEPT !.next[db.prev[n]] = db.next[n], !.prev[db.next[n]] = db.prev[n]]

Forget(db, n) ==
  [db EXCEPT !.dirties = @ \ {n}, !.parents[n] = 0, !.children[n] = {},
             !.prev[n] = MetaRoot, !.next[n] = MetaRoot]

\* dereference a node that lost a reference; one without any goes, and its
\* children lose one each.
RECURSIVE dereference(_, _)
dereference(db, n) ==
  IF n \notin db.dirties THEN db
  ELSE LET left == IF db.parents[n] > 0 THEN db.parents[n] - 1 ELSE 0
           less == [db EXCEPT !.parents[n] = left]
       IN IF left > 0 THEN less
          ELSE Forget(FoldSet(LAMBDA c, d : dereference(d, c), Unlink(less, n), childs(less, n)), n)

------------------------------------------------------------------------------
\* A block's state is committed to memory, referenced and queued for collection
\* (WriteBlockWithState).  The changed nodes are the ones on the paths to what
\* changed; the others were read, so they are present.  A state without changes
\* stores nothing.
Build(r) ==
  /\ flush.op = "none" /\ triegc[r] < MaxPushes
  /\ \E changed \in SUBSET NodesOf(r) :
       /\ NodesOf(r) \ changed \subseteq Present
       /\ \A n \in NodesOf(r) : Below(n) \cap changed # {} => n \in changed
       /\ cache' = Reference(Stored(cache, InOrder(changed)), r)
  /\ triegc' = [triegc EXCEPT ![r] = @ + 1]
  /\ UNCHANGED <<ondisk, flush>>

\* An old state is dereferenced (Dereference).
Collect(r) ==
  /\ flush.op = "none" /\ triegc[r] > 0
  /\ triegc' = [triegc EXCEPT ![r] = @ - 1]
  /\ cache' = dereference(cache, r)
  /\ UNCHANGED <<ondisk, flush>>

\* What Commit writes: the cached nodes below a root, children first.
RECURSIVE CachedBelow(_)
CachedBelow(n) ==
  IF n \notin cache.dirties THEN {}
  ELSE {n} \cup UNION {CachedBelow(c) : c \in childs(cache, n)}

\* Commit of a referenced state.
Commit(r) ==
  /\ flush.op = "none" /\ r \in cache.dirties
  /\ flush' = [op |-> "commit", list |-> InOrder(CachedBelow(r)), batch |-> {}]
  /\ UNCHANGED <<cache, ondisk, triegc>>

\* The flush list from its oldest node on.
RECURSIVE FlushList(_)
FlushList(n) == IF n = MetaRoot THEN <<>> ELSE <<n>> \o FlushList(cache.next[n])

\* Plausible bug: Cap takes the newest nodes first.
CapNewest ==
  /\ flush.op = "none"
  /\ \E k \in 1 .. Cardinality(cache.dirties) :
       flush' = [op |-> "cap", list |-> SubSeq(Reverse(FlushList(cache.oldest)), 1, k),
                 batch |-> {}]
  /\ UNCHANGED <<cache, ondisk, triegc>>

\* Cap: as many of the oldest nodes as the limit asks for.
Cap ==
  /\ flush.op = "none"
  /\ \E k \in 1 .. Cardinality(cache.dirties) :
       flush' = [op |-> "cap", list |-> SubSeq(FlushList(cache.oldest), 1, k),
                 batch |-> {}]
  /\ UNCHANGED <<cache, ondisk, triegc>>

\* A batch of any size is written.
Write ==
  /\ flush.list # <<>> /\ (flush.op = "commit" => flush.batch = {})
  /\ \E k \in 1 .. Len(flush.list) :
       LET b == {flush.list[i] : i \in 1 .. k} IN
       /\ ondisk' = ondisk \cup b
       /\ flush' = [flush EXCEPT !.list = SubSeq(@, k + 1, Len(@)), !.batch = @ \cup b]
  /\ UNCHANGED <<cache, triegc>>

\* The cleaner of Commit takes the written batch from the cache.
Uncache ==
  /\ flush.op = "commit" /\ flush.batch # {}
  /\ cache' = FoldLeft(LAMBDA db, n : Forget(Unlink(db, n), n), cache, InOrder(flush.batch))
  /\ flush' = IF flush.list = <<>> THEN NoFlush ELSE [flush EXCEPT !.batch = {}]
  /\ UNCHANGED <<ondisk, triegc>>

\* The end of Cap takes all it wrote from the old end of the cache.
Uncap ==
  /\ flush.op = "cap" /\ flush.list = <<>>
  /\ LET step(db, n) == [Forget(db, db.oldest) EXCEPT !.oldest = db.next[db.oldest]]
         db == FoldLeft(step, cache, InOrder(flush.batch))
     IN cache' = [db EXCEPT !.prev[db.oldest] = MetaRoot]
  /\ flush' = NoFlush
  /\ UNCHANGED <<ondisk, triegc>>

\* The process dies; the disk is all that is left.
Die ==
  /\ cache # EmptyCache
  /\ cache' = EmptyCache /\ flush' = NoFlush
  /\ triegc' = [r \in StateRoots |-> 0]
  /\ UNCHANGED ondisk

TrieNext ==
  \/ \E r \in StateRoots : Build(r) \/ Collect(r) \/ Commit(r)
  \/ Cap \/ Write \/ Uncache \/ Uncap \/ Die

TrieSpec == TrieInit /\ [][TrieNext]_trieVars

------------------------------------------------------------------------------
\* A node that can be read can be read with everything below it, in memory or
\* on disk, at every point of a flush; and what a crash would leave on disk is
\* complete by itself.
NothingMissing ==
  /\ \A n \in Present : Below(n) \subseteq Present
  /\ \A n \in ondisk : Below(n) \subseteq ondisk

\* The flush list holds every cached node once and can be walked both ways, so
\* Cap finds all it may flush and never follows a stale link.
FlushListExact ==
  LET l == FlushList(cache.oldest) IN
  /\ ToSet(l) = cache.dirties /\ Len(l) = Cardinality(cache.dirties)
  /\ l # <<>> => Last(l) = cache.newest
  /\ \A i \in 2 .. Len(l) : cache.prev[l[i]] = l[i - 1]

=============================================================================
