------------------------------- MODULE TxPool --------------------------------
(***************************************************************************)
(* The transaction pool of package core: the executable (pending) and the  *)
(* future (queue) transactions of every account, the lookup of all of      *)
(* them, the price heap with its count of stale entries, the virtual       *)
(* nonces, and the loop that schedules the reorganisations of the pool     *)
(* after blocks and additions.                                             *)
(*                                                                         *)
(* The pool is a record and each of its methods an operator from pool to   *)
(* pool; what happens under pool.mu is one action.  A chain head is the    *)
(* set of the transactions included up to it.  A transaction costs its gas *)
(* price.  Heartbeats are not clocked: any account may be the oldest.      *)
(***************************************************************************)
EXTENDS Naturals, Sequences, FiniteSets, FiniteSetsExt, SequencesExt, Bags

CONSTANTS
  PoolTxs,        \* transactions: records of from, nonce and price
  Heads,          \* chain heads: sets of transactions
  Wealth,         \* coins of an account before its first transaction
  AccountSlots, GlobalSlots, AccountQueue, GlobalQueue, PriceBump,
  NoReset         \* no reset is requested

Accounts == {t.from : t \in PoolTxs}

ASSUME TxPoolAssumption ==
  /\ PoolTxs \subseteq [from : Accounts, nonce : Nat, price : Nat]
  /\ {AccountSlots, GlobalSlots, AccountQueue, GlobalQueue} \subseteq Nat \ {0}
  /\ PriceBump \in Nat /\ Wealth \in Nat
  /\ Heads \subseteq SUBSET PoolTxs

VARIABLES
  pool,       \* the maps of TxPool
  chainHead,  \* the head block of the chain
  seenHead,   \* the head the pool's event loop knows
  reset,      \* the reset the reorg loop is asked for: [old, new]
  dirtyAccounts,   \* accounts it is asked to promote
  launchNextRun,   \* whether it is to run again
  run         \* what runReorg was launched with, <<>> when it is not running

poolVars == <<pool, chainHead, seenHead, reset, dirtyAccounts, launchNextRun,
              run>>

Of(txs, a) == {t \in txs : t.from = a}

Nonces(txs) == {t.nonce : t \in txs}

\* The state after a block, and the currentState of the pool.
NonceAt(h, a) == Cardinality(Of(h, a))
BalanceAt(h, a) == Wealth - MapThenSumSet(LAMBDA t : t.price, Of(h, a))
StateNonce(p, a) == NonceAt(p.head, a)
StateBalance(p, a) == BalanceAt(p.head, a)

-----------------------------------------------------------------------------
(* txList and txPricedList.                                                *)

\* The transaction of the list with the nonce of t, if any.
At(list, t) == {o \in list : o.from = t.from /\ o.nonce = t.nonce}

\* Add of a list: whether t may take the place of the one with its nonce.
Inserts(list, t) ==
  \A o \in At(list, t) :
    /\ t.price > o.price
    /\ t.price >= (o.price * (100 + PriceBump)) \div 100

\* The n transactions of an account's list with the highest nonces.
Highest(list, n) ==
  {t \in list : Cardinality({o \in list : o.nonce > t.nonce}) < n}

Cap(list, threshold) ==
  IF Cardinality(list) <= threshold THEN {}
  ELSE Highest(list, Cardinality(list) - threshold)

\* The transactions of consecutive nonces from the lowest one.
Ready(list, start) ==
  IF list = {} \/ Min(Nonces(list)) > start THEN {}
  ELSE {t \in list : Min(Nonces(list)) .. t.nonce \subseteq Nonces(list)}

PutPriced(p, t) == [p EXCEPT !.items = @ (+) SetToBag({t})]

\* Removed: n entries of the heap are stale; a quarter of them, and it is built
\* again from the lookup.
PricedRemoved(p, n) ==
  IF p.stales + n <= BagCardinality(p.items) \div 4
  THEN [p EXCEPT !.stales = @ + n]
  ELSE [p EXCEPT !.stales = 0, !.items = SetToBag(p.all)]

Dearer(t, o) ==
  t.price > o.price \/ (t.price = o.price /\ t.nonce < o.nonce)

\* The top of the heap.
Cheapest(p) ==
  CHOOSE t \in BagToSet(p.items) : \A o \in BagToSet(p.items) : ~Dearer(t, o)

PopPriced(p) ==
  LET t == Cheapest(p) IN
    [p EXCEPT !.items = @ (-) SetToBag({t}),
              !.stales = IF t \in p.all THEN @ ELSE @ - 1]

\* Stale entries at the top are discarded.
RECURSIVE Fresh(_)
Fresh(p) ==
  IF p.items = EmptyBag \/ Cheapest(p) \in p.all THEN p ELSE Fresh(PopPriced(p))

Underpriced(p, t) ==
  /\ t.from \notin p.locals
  /\ Fresh(p).items # EmptyBag
  /\ Cheapest(Fresh(p)).price >= t.price

\* Discard and Cap pop entries until count are dropped or one has the threshold
\* price; local ones go back.  The pool, and the bag of dropped transactions.
RECURSIVE PopCheap(_, _, _, _, _)
PopCheap(p, count, threshold, drop, save) ==
  LET t == Cheapest(p)
      one == IF t \in p.all THEN SetToBag({t}) ELSE EmptyBag
      local == t.from \in p.locals
  IN IF p.items = EmptyBag \/ BagCardinality(drop) = count
          \/ (t \in p.all /\ t.price >= threshold)
     THEN [pool |-> [p EXCEPT !.items = @ (+) save], drop |-> BagToSet(drop)]
     ELSE PopCheap(PopPriced(p), count, threshold,
                   IF local THEN drop ELSE drop (+) one,
                   IF local THEN save (+) one ELSE save)

MaxPrice == Max({t.price : t \in PoolTxs})

DiscardPriced(p, count) == PopCheap(p, count, MaxPrice + 1, EmptyBag, EmptyBag)

CapPriced(p, threshold) ==
  PopCheap(p, BagCardinality(p.items) + 1, threshold, EmptyBag, EmptyBag)

-----------------------------------------------------------------------------
(* The methods of TxPool.                                                  *)

\* Mutant: a transaction that comes back is not priced.
KnowUnpriced(p, t) == [p EXCEPT !.all = @ \cup {t}]

\* A transaction enters the lookup and the heap.
Know(p, t) ==
  IF t \in p.all THEN p ELSE PutPriced([p EXCEPT !.all = @ \cup {t}], t)

\* Replaced transactions leave them.
Forget(p, old) ==
  IF old = {} THEN p
  ELSE PricedRemoved([p EXCEPT !.all = @ \ old], Cardinality(old))

enqueueTx(p, t) ==
  LET old == At(p.queue, t) IN
    IF ~Inserts(p.queue, t) THEN p
    ELSE Know(Forget([p EXCEPT !.queue = (@ \ old) \cup {t}], old), t)

setIfLower(p, a, nonce) ==
  [p EXCEPT !.nonces[a] = IF @ <= nonce THEN @ ELSE nonce]

\* Mutant: the transactions after the removed one stay executable.
removeTxOnly(p, t, outofbound) ==
  LET known == [p EXCEPT !.all = @ \ {t}]
      q == IF outofbound THEN PricedRemoved(known, 1) ELSE known
  IN IF t \notin p.all THEN p
     ELSE setIfLower([q EXCEPT !.pending = @ \ {t}, !.queue = @ \ {t}],
                     t.from, t.nonce)

removeTx(p, t, outofbound) ==
  LET known == [p EXCEPT !.all = @ \ {t}]
      q == IF outofbound THEN PricedRemoved(known, 1) ELSE known
      removed == At(p.pending, t)
      invalids == {o \in Of(p.pending, t.from) : o.nonce > t.nonce}
  IN IF t \notin p.all THEN p
     ELSE IF removed # {}
       THEN setIfLower(FoldSet(LAMBDA o, r : enqueueTx(r, o),
                               [q EXCEPT !.pending = @ \ (removed \cup invalids)],
                               invalids),
                       t.from, t.nonce)
     ELSE [q EXCEPT !.queue = @ \ At(@, t)]

\* validateTx, but for what depends on the transaction alone.
validateTx(p, t, local) ==
  /\ local \/ t.from \in p.locals \/ t.price >= p.gasPrice
  /\ StateNonce(p, t.from) <= t.nonce
  /\ t.price <= StateBalance(p, t.from)

\* The pool is full: the cheapest transactions make room.
MakeRoom(p) ==
  LET d == DiscardPriced(p, Cardinality(p.all) - (GlobalSlots + GlobalQueue - 1))
  IN IF Cardinality(p.all) < GlobalSlots + GlobalQueue THEN p
     ELSE FoldSet(LAMBDA t, q : removeTx(q, t, FALSE), d.pool, d.drop)

\* add: the pool, and whether t was accepted.
add(p, t, local) ==
  LET full == Cardinality(p.all) >= GlobalSlots + GlobalQueue
      p0 == IF full /\ ~local /\ t.from \notin p.locals THEN Fresh(p) ELSE p
      p1 == MakeRoom(p0)
      pend == At(p1.pending, t)
      none == [pool |-> p, ok |-> FALSE]
  IN IF t \in p.all \/ ~validateTx(p, t, local) THEN none
     ELSE IF full /\ ~local /\ Underpriced(p, t) THEN [none EXCEPT !.pool = p0]
     ELSE IF pend # {} THEN
       IF ~Inserts(p1.pending, t) THEN [none EXCEPT !.pool = p1]
       ELSE [pool |-> Know(Forget([p1 EXCEPT !.pending = (@ \ pend) \cup {t}], pend), t),
             ok |-> TRUE]
     ELSE IF ~Inserts(p1.queue, t) THEN [none EXCEPT !.pool = p1]
     ELSE LET p2 == enqueueTx(p1, t) IN
       [pool |-> IF local THEN [p2 EXCEPT !.locals = @ \cup {t.from}] ELSE p2,
        ok |-> TRUE]

promoteTx(p, t) ==
  LET old == At(p.pending, t) IN
    IF ~Inserts(p.pending, t) THEN Forget(p, {t})
    ELSE [Know(Forget([p EXCEPT !.pending = (@ \ old) \cup {t}], old), t)
            EXCEPT !.nonces[t.from] = t.nonce + 1]

ByNonce(txs) == SetToSortSeq(txs, LAMBDA t, o : t.nonce < o.nonce)

\* Mutant: queued transactions over the limit stay in the lookup.
PromoteKeepsCapped(p, a) ==
  LET list == Of(p.queue, a)
      gone == {t \in list : t.nonce < StateNonce(p, a) \/ t.price > StateBalance(p, a)}
      ready == Ready(list \ gone, p.nonces[a])
      caps == IF a \in p.locals THEN {}
              ELSE Cap(list \ (gone \cup ready), AccountQueue)
      p1 == [p EXCEPT !.all = @ \ gone, !.queue = @ \ (gone \cup ready)]
  IN [FoldLeft(promoteTx, p1, ByNonce(ready)) EXCEPT !.queue = @ \ caps]

\* promoteExecutables of one account.
Promote(p, a) ==
  LET list == Of(p.queue, a)
      gone == {t \in list : t.nonce < StateNonce(p, a) \/ t.price > StateBalance(p, a)}
      ready == Ready(list \ gone, p.nonces[a])
      rest == list \ (gone \cup ready)
      caps == IF a \in p.locals THEN {} ELSE Cap(rest, AccountQueue)
      p1 == [p EXCEPT !.all = @ \ gone, !.queue = @ \ (gone \cup ready)]
      p2 == FoldLeft(promoteTx, p1, ByNonce(ready))
      p3 == [p2 EXCEPT !.all = @ \ caps, !.queue = @ \ caps]
  IN PricedRemoved(p3, Cardinality(gone \cup caps))

promoteExecutables(p, addrs) ==
  FoldSet(LAMBDA a, q : IF Of(q.queue, a) = {} THEN q ELSE Promote(q, a), p, addrs)

\* demoteUnexecutables of one account.
Demote(p, a) ==
  LET list == Of(p.pending, a)
      olds == {t \in list : t.nonce < StateNonce(p, a)}
      drops == {t \in list \ olds : t.price > StateBalance(p, a)}
      invalids == {t \in list \ (olds \cup drops) :
                     drops # {} /\ t.nonce > Min(Nonces(drops))}
      rest == list \ (olds \cup drops \cup invalids)
      gapped == IF StateNonce(p, a) \in Nonces(rest) THEN {} ELSE rest
      p1 == PricedRemoved([p EXCEPT !.all = @ \ (olds \cup drops),
                                    !.pending = (@ \ list) \cup (rest \ gapped)],
                          Cardinality(olds \cup drops))
  IN FoldSet(LAMBDA t, q : enqueueTx(q, t), p1, invalids \cup gapped)

demoteUnexecutables(p) ==
  FoldSet(LAMBDA a, q : Demote(q, a), p, {t.from : t \in p.pending})

-----------------------------------------------------------------------------
(* The limits of the pool.                                                 *)

\* The last pending transaction of an account is dropped.
CapOne(p, a) ==
  LET last == Highest(Of(p.pending, a), 1) IN
    setIfLower(PricedRemoved([p EXCEPT !.all = @ \ last, !.pending = @ \ last],
                             Cardinality(last)),
               a, Max(Nonces(last)))

CapEach(p, addrs) == FoldSet(LAMBDA a, q : CapOne(q, a), p, addrs)

PendingLen(p, a) == Cardinality(Of(p.pending, a))
TooMany(p) == Cardinality(p.pending) > GlobalSlots

\* The offenders lose transactions until a has the threshold or fewer.
RECURSIVE Equalize(_, _, _, _)
Equalize(p, offenders, a, threshold) ==
  IF TooMany(p) /\ PendingLen(p, a) > threshold
  THEN Equalize(CapEach(p, offenders), offenders, a, threshold) ELSE p

\* The spammers, from the longest list on, join the offenders.
RECURSIVE Penalize(_, _, _, _)
Penalize(p, offenders, last, spammers) ==
  IF ~TooMany(p) \/ spammers = {}
  THEN IF last = {} THEN p
       ELSE Equalize(p, offenders, CHOOSE a \in last : TRUE, AccountSlots)
  ELSE LET next == CHOOSE a \in spammers :
                     \A b \in spammers : PendingLen(p, a) >= PendingLen(p, b)
           equal == IF last = {} THEN p
                    ELSE Equalize(p, offenders, CHOOSE a \in last : TRUE,
                                  PendingLen(p, next))
       IN Penalize(equal, offenders \cup {next}, {next}, spammers \ {next})

truncatePending(p) ==
  Penalize(p, {}, {}, {a \in Accounts \ p.locals : PendingLen(p, a) > AccountSlots})

\* The queues of the accounts are cut in the given order, the highest nonces
\* first, until the rest fits.
CutQueue(p, a) ==
  LET drop == Cardinality(p.queue) - GlobalQueue
      txs == Highest(Of(p.queue, a), IF drop > 0 THEN drop ELSE 0)
  IN FoldSet(LAMBDA t, q : removeTx(q, t, TRUE), p, txs)

truncateQueue(p, order) ==
  FoldLeft(CutQueue, p, SelectSeq(order, LAMBDA a : a \notin p.locals))

-----------------------------------------------------------------------------
(* reset and runReorg.                                                     *)

\* Transactions of the old chain that the new one does not have come back.
resetTo(p, old, new) ==
  FoldLeft(LAMBDA q, t : add(q, t, FALSE).pool,
           [p EXCEPT !.head = new,
                     !.nonces = [a \in Accounts |-> NonceAt(new, a)]],
           ByNonce(old \ new))

\* The virtual nonces follow the pending lists.
UpdateNonces(p) ==
  [p EXCEPT !.nonces = [a \in Accounts |->
     IF Of(p.pending, a) = {} THEN p.nonces[a]
     ELSE Max(Nonces(Of(p.pending, a))) + 1]]

Reorged(p, r, order) ==
  LET p1 == IF r.reset = NoReset THEN p ELSE resetTo(p, r.reset.old, r.reset.new)
      addrs == IF r.reset = NoReset THEN r.dirty ELSE {t.from : t \in p1.queue}
      p2 == promoteExecutables(p1, addrs)
      p3 == IF r.reset = NoReset THEN p2 ELSE demoteUnexecutables(p2)
  IN UpdateNonces(truncateQueue(truncatePending(p3), order))

-----------------------------------------------------------------------------
(* The actions.                                                            *)

NewPool(h) ==
  [pending |-> {}, queue |-> {}, all |-> {}, items |-> EmptyBag, stales |-> 0,
   nonces |-> [a \in Accounts |-> NonceAt(h, a)], locals |-> {}, head |-> h,
   gasPrice |-> Min({t.price : t \in PoolTxs})]

TxPoolInit ==
  /\ pool = NewPool({})
  /\ chainHead = {} /\ seenHead = {}
  /\ reset = NoReset /\ dirtyAccounts = {} /\ launchNextRun = FALSE
  /\ run = <<>>

\* addTxs of one transaction: add, and the request to promote its account.
AddTx(t, local) ==
  LET result == add(pool, t, local) IN
    /\ pool' = result.pool
    /\ dirtyAccounts' = IF result.ok THEN dirtyAccounts \cup {t.from}
                                     ELSE dirtyAccounts
    /\ launchNextRun' = TRUE
    /\ UNCHANGED <<chainHead, seenHead, reset, run>>

\* The chain has a new head, on the old one or on another branch.
ChainHead(h) ==
  /\ h # chainHead
  /\ chainHead' = h
  /\ UNCHANGED <<pool, seenHead, reset, dirtyAccounts, launchNextRun, run>>

\* The event loop asks for a reset; one that waits gets the new head.
RequestReset ==
  /\ seenHead # chainHead
  /\ seenHead' = chainHead
  /\ reset' = IF reset = NoReset THEN [old |-> seenHead, new |-> chainHead]
                                 ELSE [reset EXCEPT !.new = chainHead]
  /\ launchNextRun' = TRUE
  /\ UNCHANGED <<pool, chainHead, dirtyAccounts, run>>

\* scheduleReorgLoop launches the next run.
LaunchReorg ==
  /\ run = <<>> /\ launchNextRun
  /\ run' = <<[reset |-> reset, dirty |-> dirtyAccounts]>>
  /\ launchNextRun' = FALSE /\ reset' = NoReset /\ dirtyAccounts' = {}
  /\ UNCHANGED <<pool, chainHead, seenHead>>

RunReorg ==
  /\ run # <<>>
  /\ \E order \in SetToSeqs(Accounts) : pool' = Reorged(pool, run[1], order)
  /\ run' = <<>>
  /\ UNCHANGED <<chainHead, seenHead, reset, dirtyAccounts, launchNextRun>>

\* The queue of an account that was not heard of for a while is dropped.
EvictAccount(a) ==
  /\ a \notin pool.locals
  /\ pool' = FoldSet(LAMBDA t, q : removeTx(q, t, TRUE), pool, Of(pool.queue, a))
  /\ UNCHANGED <<chainHead, seenHead, reset, dirtyAccounts, launchNextRun, run>>

SetGasPrice(price) ==
  LET c == CapPriced([pool EXCEPT !.gasPrice = price], price) IN
    /\ pool' = FoldSet(LAMBDA t, q : removeTx(q, t, FALSE), c.pool, c.drop)
    /\ UNCHANGED <<chainHead, seenHead, reset, dirtyAccounts, launchNextRun,
                   run>>

TxPoolNext ==
  \/ \E t \in PoolTxs, local \in BOOLEAN : AddTx(t, local)
  \/ \E h \in Heads : ChainHead(h)
  \/ RequestReset \/ LaunchReorg \/ RunReorg
  \/ \E a \in Accounts : EvictAccount(a)
  \/ \E t \in PoolTxs : SetGasPrice(t.price)

TxPoolSpec == TxPoolInit /\ [][TxPoolNext]_poolVars

-----------------------------------------------------------------------------
(* What matters.                                                           *)

\* Every transaction the pool knows is in exactly one of pending and queue
\* (validateTxPoolInternals of the tests): none lingers in the lookup, where it
\* would keep its sender from sending it again.
NoneLost ==
  /\ pool.all = pool.pending \cup pool.queue
  /\ pool.pending \cap pool.queue = {}

\* Every transaction of the pool has an entry in the price heap, so a full pool
\* can always find the cheapest one to give up.
PricesTracked == pool.all \subseteq BagToSet(pool.items)

\* The pending transactions of an account have consecutive nonces from that of
\* the state on, and the virtual nonce is the next one: what the pool gives the
\* miner can be executed in order.
PendingExecutable ==
  \A a \in Accounts :
    LET nonces == Nonces(Of(pool.pending, a)) IN
      nonces # {} => /\ nonces = StateNonce(pool, a) .. Max(nonces)
                     /\ pool.nonces[a] = Max(nonces) + 1
==============================================================================
