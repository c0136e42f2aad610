----------------------------- MODULE BlockProofs -----------------------------
(***************************************************************************)
(* Theorems about what every node computes from the blocks of a chain: the *)
(* state their transactions leave, and the set of fullnodes their headers  *)
(* vote for.                                                               *)
(*                                                                         *)
(* Transition, for every number of nodes, gas limit, length of the block   *)
(* and wealth of the sender: the execution of a block makes neither coins  *)
(* nor gas and leaves the same public state on every node.  The two are    *)
(* inductive with the types; the argument is in the lemmas about           *)
(* TransitionDb and its stages.                                            *)
(*                                                                         *)
(* Snapshot, for every set of accounts, every genesis set and every epoch: *)
(* the tally counts the votes, every vote stands, and the set of fullnodes *)
(* changes only by majority.  Good is the inductive invariant.  apply is a *)
(* pipeline (reset, discard, cast, resolve), and each of its stages takes  *)
(* a Good snapshot to a Good one.                                          *)
(*                                                                         *)
(* Voting, for every set of proposals: an account joins the fullnodes with *)
(* a mined block only if the operators of more than half of the members    *)
(* proposed it.  Asked is the inductive invariant: what a candidate map, a *)
(* header under construction or a standing vote says in favour of an       *)
(* account, its node was once told by its operator.                        *)
(***************************************************************************)
EXTENDS Voting, Transition, Integers, FiniteSetTheorems, TLAPS

-----------------------------------------------------------------------------
(* The execution of a block.                                               *)

World == [nonce : Nat, sender : Nat, pay : Nat, receiver : Nat, coinbase : Nat,
          pool : Nat]

TransitionTypeOK ==
  /\ world \in [Nodes -> World]
  /\ usedGas \in [Nodes -> Nat]

\* The two properties need nothing but each other's types.
TransitionInd == TransitionTypeOK /\ PublicStateAgrees /\ MakesNothing

\* What a result is to the world it came from: well typed, with no more coins,
\* and with no more gas in the pool than it had beside what was used.
Sound(r, w) ==
  /\ r.world \in World /\ r.used \in Nat
  /\ Coins(r.world) <= Coins(w)
  /\ r.used + r.world.pool <= w.pool

------------------------------------------------------------------------------
\* The fields of a world.
LEMMA Fields ==
  ASSUME NEW w \in World
  PROVE  /\ w.nonce \in Nat /\ w.sender \in Nat /\ w.pay \in Nat
         /\ w.receiver \in Nat /\ w.coinbase \in Nat /\ w.pool \in Nat
         /\ w = [nonce |-> w.nonce, sender |-> w.sender, pay |-> w.pay,
                receiver |-> w.receiver, coinbase |-> w.coinbase, pool |-> w.pool]
  BY DEF World

\* The refund counter never gives back more than was used.
LEMMA RefundBound ==
  ASSUME NEW used \in Nat, NEW counter \in Nat
  PROVE  Refund(used, counter) \in 0 .. used
<1>1. used \div 2 \in 0 .. used
  OBVIOUS
<1> QED
  BY <1>1 DEF Refund

\* A price is 0 or 1, so products with it are plain.
LEMMA Priced ==
  ASSUME NEW x \in Int, NEW p \in 0 .. 1
  PROVE  x * p = IF p = 0 THEN 0 ELSE x
<1>1. CASE p = 0
  BY <1>1
<1>2. CASE p = 1
  BY <1>2
<1> QED
  BY <1>1, <1>2

\* buyGas takes the gas from the pool and its price from the sender, and nothing else.
LEMMA BuySound ==
  ASSUME NEW w \in World, NEW tx \in Tx, CanBuyGas(w, tx)
  PROVE  /\ buyGas(w, tx) \in World
         /\ buyGas(w, tx).pool = w.pool - tx.gas
         /\ Coins(buyGas(w, tx)) + tx.gas * tx.price = Coins(w)
         /\ tx.gas \in Nat /\ tx.gas * tx.price \in Nat
<1> USE TransitionAssumption
<1>1. tx.gas \in Nat /\ tx.price \in 0 .. 1
  BY DEF Tx
<1>2. tx.gas * tx.price \in Nat
  BY <1>1, Priced
<1> DEFINE c == tx.gas * tx.price
<1>3. c \in Nat /\ c <= w.pay /\ c <= w.sender /\ tx.gas <= w.pool
  BY <1>2 DEF CanBuyGas
<1>4. buyGas(w, tx) = [w EXCEPT !.pool = @ - tx.gas, !.pay = @ - c, !.sender = @ - c]
  BY DEF buyGas
<1> HIDE DEF c
<1>5. buyGas(w, tx) = [nonce |-> w.nonce, sender |-> w.sender - c, pay |-> w.pay - c,
                       receiver |-> w.receiver, coinbase |-> w.coinbase,
                       pool |-> w.pool - tx.gas]
  BY <1>4, Zenon DEF World
<1>6. w.sender - c \in Nat /\ w.pay - c \in Nat /\ w.pool - tx.gas \in Nat
  BY <1>1, <1>3, Fields
<1>7. buyGas(w, tx) \in World
  BY <1>5, <1>6, Fields DEF World
<1>8. /\ buyGas(w, tx).pool = w.pool - tx.gas
      /\ Coins(buyGas(w, tx)) + c = Coins(w)
  BY <1>3, <1>5, Fields DEF Coins
<1> QED
  BY <1>1, <1>3, <1>7, <1>8 DEF c

\* Both refunds return at most the gas bought.
LEMMA RefundSound ==
  ASSUME NEW w \in World, NEW tx \in Tx, NEW left \in 0 .. tx.gas,
         NEW refund \in 0 .. tx.gas - left,
         NEW r \in {refundGas(w, tx, left, refund), refundGasSmiloVersion(w, tx, left, refund)}
  PROVE  /\ r \in World
         /\ r.pool = w.pool + left + refund
         /\ Coins(r) <= Coins(w) + tx.gas * tx.price
<1> USE TransitionAssumption
<1>1. tx.gas \in Nat /\ tx.price \in 0 .. 1
  BY DEF Tx
<1>2. CASE tx.price = 0
  <2>1. /\ (left + refund) * tx.price = 0 /\ (tx.gas - left - refund) * tx.price = 0
        /\ (tx.gas - left) * tx.price = 0 /\ tx.gas * tx.price = 0
    BY <1>1, <1>2
  <2>2. \/ r = [w EXCEPT !.sender = @ + 0, !.pool = @ + left + refund, !.coinbase = @ + 0]
        \/ r = [w EXCEPT !.sender = @ + 0, !.pool = @ + left + refund]
    BY <2>1, Zenon DEF refundGas, refundGasSmiloVersion
  <2>3. r = [nonce |-> w.nonce, sender |-> w.sender, pay |-> w.pay,
             receiver |-> w.receiver, coinbase |-> w.coinbase,
             pool |-> w.pool + left + refund]
    <3>1. w.sender + 0 = w.sender /\ w.coinbase + 0 = w.coinbase
      BY Fields
    <3>2. \/ r = [w EXCEPT !.sender = w.sender, !.pool = w.pool + left + refund,
                          !.coinbase = w.coinbase]
          \/ r = [w EXCEPT !.sender = w.sender, !.pool = w.pool + left + refund]
      BY <2>2, <3>1, Zenon
    <3> QED
      BY <3>2, Zenon DEF World
  <2> QED
    BY <1>1, <2>1, <2>3, Fields DEF World, Coins
<1>3. CASE tx.price = 1
  <2>1. /\ (left + refund) * tx.price = left + refund
        /\ (tx.gas - left - refund) * tx.price = tx.gas - left - refund
        /\ (tx.gas - left) * tx.price = tx.gas - left /\ tx.gas * tx.price = tx.gas
    BY <1>1, <1>3
  <2>2. \/ r = [w EXCEPT !.sender = @ + (left + refund), !.pool = @ + left + refund,
                         !.coinbase = @ + (tx.gas - left - refund)]
        \/ r = [w EXCEPT !.sender = @ + (tx.gas - left), !.pool = @ + left + refund]
    BY <2>1, Zenon DEF refundGas, refundGasSmiloVersion
  <2>3. \E s, c \in Nat :
          /\ r = [nonce |-> w.nonce, sender |-> s, pay |-> w.pay,
                  receiver |-> w.receiver, coinbase |-> c, pool |-> w.pool + left + refund]
          /\ s + c <= w.sender + w.coinbase + tx.gas
    <3>1. CASE r = [w EXCEPT !.sender = @ + (left + refund), !.pool = @ + left + refund,
                             !.coinbase = @ + (tx.gas - left - refund)]
      <4>1. r = [nonce |-> w.nonce, sender |-> w.sender + (left + refund), pay |-> w.pay,
                 receiver |-> w.receiver, coinbase |-> w.coinbase + (tx.gas - left - refund),
                 pool |-> w.pool + left + refund]
        BY <3>1, Zenon DEF World
      <4>2. /\ w.sender + (left + refund) \in Nat
            /\ w.coinbase + (tx.gas - left - refund) \in Nat
            /\ w.sender + (left + refund) + (w.coinbase + (tx.gas - left - refund))
                 <= w.sender + w.coinbase + tx.gas
        <5>1. w.sender \in Nat /\ w.coinbase \in Nat
          BY Fields
        <5>2. left \in Nat /\ refund \in Nat /\ left + refund <= tx.gas
          BY <1>1
        <5> QED
          BY <1>1, <5>1, <5>2
      <4> QED
        BY <4>1, <4>2
    <3>2. CASE r = [w EXCEPT !.sender = @ + (tx.gas - left), !.pool = @ + left + refund]
      <4>1. r = [nonce |-> w.nonce, sender |-> w.sender + (tx.gas - left), pay |-> w.pay,
                 receiver |-> w.receiver, coinbase |-> w.coinbase,
                 pool |-> w.pool + left + refund]
        BY <3>2, Fields, Zenon
      <4>2. /\ w.sender + (tx.gas - left) \in Nat /\ w.coinbase \in Nat
            /\ w.sender + (tx.gas - left) + w.coinbase <= w.sender + w.coinbase + tx.gas
        BY <1>1, Fields
      <4> QED
        BY <4>1, <4>2
    <3> QED
      BY <2>2, <3>1, <3>2
  <2>4. PICK s \in Nat, c \in Nat :
          /\ r = [nonce |-> w.nonce, sender |-> s, pay |-> w.pay,
                  receiver |-> w.receiver, coinbase |-> c, pool |-> w.pool + left + refund]
          /\ s + c <= w.sender + w.coinbase + tx.gas
    BY <2>3
  <2>5. r \in World
    BY <1>1, <2>4, Fields DEF World
  <2>6. Coins(r) <= Coins(w) + tx.gas
    BY <1>1, <2>4, Fields DEF Coins
  <2> QED
    BY <2>1, <2>4, <2>5, <2>6
<1> QED
  BY <1>1, <1>2, <1>3

------------------------------------------------------------------------------
\* The part of the world that goes into the state root.
Public(w) == [w EXCEPT !.pool = 0]

\* Executed keeps the books: the gas it counts as used is out of the pool.
LEMMA ExecutedSound ==
  ASSUME NEW w \in World, NEW tx \in Tx, NEW out \in Outcome,
         out.left <= tx.gas - TxGas, tx.value <= w.sender
  PROVE  LET r == Executed(w, tx, out)
         IN  /\ r.world \in World /\ r.used \in Nat
             /\ r.used + r.world.pool <= w.pool + tx.gas
             /\ Coins(r.world) <= Coins(w) + tx.gas * tx.price
<1> USE TransitionAssumption
<1>1. /\ tx.gas \in Nat /\ TxGas <= tx.gas /\ tx.value \in Nat
      /\ out.left \in Nat /\ out.refund \in Nat
  BY DEF Tx, Outcome
<1> DEFINE left == IF tx.vault THEN tx.gas - TxGas ELSE out.left
           used == tx.gas - left
           counter == IF tx.vault THEN 0 ELSE out.refund
           refund == Refund(used, counter)
           moved == [w EXCEPT !.sender = @ - tx.value, !.receiver = @ + tx.value]
           r == Executed(w, tx, out)
           after == IF out.vmerr THEN refundGas(w, tx, left, refund)
                    ELSE refundGasSmiloVersion(moved, tx, left, refund)
<1>2. r.world = after /\ r.used = IF tx.vault THEN 0 ELSE used - refund
  BY DEF Executed, Done
<1>3. left \in 0 .. tx.gas /\ used \in Nat /\ counter \in Nat
  BY <1>1
<1> HIDE DEF left, counter
<1>4. refund \in 0 .. used
  BY <1>3, RefundBound, Zenon
<1> HIDE DEF refund
<1>5. refund \in 0 .. tx.gas - left
  BY <1>4
<1>6. moved \in World /\ Coins(moved) = Coins(w) /\ moved.pool = w.pool
  <2>1. moved = [nonce |-> w.nonce, sender |-> w.sender - tx.value, pay |-> w.pay,
                 receiver |-> w.receiver + tx.value, coinbase |-> w.coinbase,
                 pool |-> w.pool]
    <3>1. /\ moved = [w EXCEPT !.sender = w.sender - tx.value, !.receiver = w.receiver + tx.value]
      OBVIOUS
    <3> HIDE DEF moved
    <3> QED
      BY <3>1, Zenon DEF World
  <2>2. w.sender - tx.value \in Nat /\ w.receiver + tx.value \in Nat
    BY <1>1, Fields
  <2> HIDE DEF moved
  <2>3. moved \in World
    BY <2>1, <2>2, Fields, Zenon DEF World
  <2>4. Coins(moved) = Coins(w)
    BY <1>1, <2>1, Fields DEF Coins
  <2> QED
    BY <2>1, <2>3, <2>4
<1> HIDE DEF moved
<1>7. /\ after \in World /\ after.pool = w.pool + left + refund
      /\ Coins(after) <= Coins(w) + tx.gas * tx.price
  <2>1. CASE out.vmerr
    BY <1>3, <1>5, <2>1, RefundSound
  <2>2. CASE ~out.vmerr
    BY <1>3, <1>5, <1>6, <2>2, RefundSound
  <2> QED
    BY <2>1, <2>2
<1> HIDE DEF after, r
<1>8. r.used \in Nat /\ r.used <= used - refund
  BY <1>2, <1>3, <1>4
<1>9. w.pool \in Nat
  BY DEF World
<1>10. r.used + r.world.pool <= w.pool + tx.gas
  BY <1>1, <1>2, <1>3, <1>4, <1>7, <1>8, <1>9
<1> QED
  BY <1>2, <1>7, <1>8, <1>10 DEF r

\* A transaction of the block leaves a node with no more coins than it had and
\* accounts for the gas it took out of the pool.
LEMMA TransitionSound ==
  ASSUME NEW w \in World, NEW tx \in Tx, NEW out \in Outcome, NEW v,
         out.left <= tx.gas - TxGas, TransitionDb(w, v, tx, out).ok
  PROVE  Sound(TransitionDb(w, v, tx, out), w)
<1> USE TransitionAssumption
<1> DEFINE b == buyGas(w, tx)
           counted == [b EXCEPT !.nonce = @ + 1]
           r == TransitionDb(w, v, tx, out)
           whole == refundGasSmiloVersion(counted, tx, tx.gas - TxGas, 0)
<1>1. CanBuyGas(w, tx)
  BY Zenon DEF TransitionDb, Fails
<1>2. /\ b \in World /\ b.pool = w.pool - tx.gas
      /\ Coins(b) + tx.gas * tx.price = Coins(w)
      /\ tx.gas \in Nat /\ tx.gas * tx.price \in Nat
  BY <1>1, BuySound
<1>3. \/ r = OutsideGroup(w, b)
      \/ tx.value <= b.sender /\ (r = Done(whole, 0, FALSE) \/ r = Executed(counted, tx, out))
  <2>1. tx.value \in Nat /\ b.sender \in Nat
    BY <1>2 DEF Tx, World
  <2>2. b.sender < tx.value \/ tx.value <= b.sender
    BY <2>1
  <2> QED
    BY <1>1, <2>2, Zenon DEF TransitionDb, Fails
<1> HIDE DEF b, r
<1>4. counted \in World /\ counted.pool = b.pool /\ counted.sender = b.sender
      /\ Coins(counted) = Coins(b)
  BY <1>2 DEF World, Coins
<1> HIDE DEF counted
<1>5. w.pool \in Nat /\ Coins(w) \in Nat /\ Coins(b) \in Nat /\ b.pool \in Nat
  BY <1>2 DEF World, Coins
<1>6. CASE r = OutsideGroup(w, b)
  <2>1. /\ r.world = [b EXCEPT !.nonce = w.nonce + 1] /\ r.used = 0
    BY <1>6 DEF OutsideGroup, Done
  <2>2. r.world \in World /\ r.world.pool = b.pool /\ Coins(r.world) = Coins(b)
    BY <1>2, <2>1 DEF World, Coins
  <2> QED
    BY <1>2, <1>5, <2>1, <2>2 DEF Sound, r
<1>7. CASE r = Done(whole, 0, FALSE)
  <2>1. r.world = whole /\ r.used = 0
    BY <1>7 DEF Done
  <2>2. tx.gas - TxGas \in 0 .. tx.gas /\ 0 \in 0 .. tx.gas - (tx.gas - TxGas)
    BY DEF Tx
  <2>3. /\ whole \in World /\ whole.pool = counted.pool + (tx.gas - TxGas) + 0
        /\ Coins(whole) <= Coins(counted) + tx.gas * tx.price
    BY <1>4, <2>2, RefundSound
  <2>4. Coins(whole) \in Nat
    BY <2>3 DEF World, Coins
  <2> HIDE DEF whole
  <2>5. r.used + r.world.pool <= w.pool
    BY <1>2, <1>4, <1>5, <2>1, <2>2, <2>3
  <2> QED
    BY <1>2, <1>4, <1>5, <2>1, <2>3, <2>4, <2>5 DEF Sound, r
<1>8. CASE tx.value <= b.sender /\ r = Executed(counted, tx, out)
  <2>1. /\ r.world \in World /\ r.used \in Nat
        /\ r.used + r.world.pool <= counted.pool + tx.gas
        /\ Coins(r.world) <= Coins(counted) + tx.gas * tx.price
    BY <1>4, <1>8, ExecutedSound
  <2> QED
    BY <1>2, <1>4, <1>5, <2>1 DEF Sound, r
<1> QED
  BY <1>3, <1>6, <1>7, <1>8, Zenon

\* An error never adds to the gas pool.
LEMMA FailureSound ==
  ASSUME NEW w \in World, NEW tx \in Tx, NEW out \in Outcome, NEW v,
         ~TransitionDb(w, v, tx, out).ok
  PROVE  /\ TransitionDb(w, v, tx, out).world.pool \in Nat
         /\ TransitionDb(w, v, tx, out).world.pool <= w.pool
<1>1. w.pool \in Nat
  BY DEF World
<1>2. CASE ~CanBuyGas(w, tx)
  BY <1>1, <1>2 DEF TransitionDb, Fails
<1>3. CASE CanBuyGas(w, tx)
  <2>1. /\ buyGas(w, tx) \in World /\ buyGas(w, tx).pool = w.pool - tx.gas
        /\ tx.gas \in Nat
    BY <1>3, BuySound
  <2>2. TransitionDb(w, v, tx, out) = Fails(buyGas(w, tx))
    BY <1>3 DEF TransitionDb, OutsideGroup, Executed, Done
  <2>3. TransitionDb(w, v, tx, out).world = buyGas(w, tx)
    BY <2>2 DEF Fails
  <2> QED
    BY <1>1, <2>1, <2>3 DEF World
<1> QED
  BY <1>2, <1>3

------------------------------------------------------------------------------
\* Two worlds that differ in their gas pools only.
Alike(u, w) ==
  /\ u.nonce = w.nonce /\ u.sender = w.sender /\ u.pay = w.pay
  /\ u.receiver = w.receiver /\ u.coinbase = w.coinbase

\* Nodes have the same public state exactly when their worlds are alike.
LEMMA AlikeIsPublic ==
  ASSUME NEW u \in World, NEW w \in World
  PROVE  Public(u) = Public(w) <=> Alike(u, w)
<1>1. /\ Public(u) = [nonce |-> u.nonce, sender |-> u.sender, pay |-> u.pay,
                      receiver |-> u.receiver, coinbase |-> u.coinbase, pool |-> 0]
      /\ Public(w) = [nonce |-> w.nonce, sender |-> w.sender, pay |-> w.pay,
                      receiver |-> w.receiver, coinbase |-> w.coinbase, pool |-> 0]
  BY DEF World, Public
<1> QED
  BY <1>1 DEF Alike

\* Buying gas costs two alike worlds the same.
LEMMA BuyAlike ==
  ASSUME NEW u \in World, NEW w \in World, NEW tx, Alike(u, w)
  PROVE  /\ Alike(buyGas(u, tx), buyGas(w, tx))
         /\ Alike([buyGas(u, tx) EXCEPT !.nonce = @ + 1], [buyGas(w, tx) EXCEPT !.nonce = @ + 1])
<1> DEFINE c == tx.gas * tx.price
<1>1. /\ buyGas(u, tx) = [u EXCEPT !.pool = @ - tx.gas, !.pay = @ - c, !.sender = @ - c]
      /\ buyGas(w, tx) = [w EXCEPT !.pool = @ - tx.gas, !.pay = @ - c, !.sender = @ - c]
  BY DEF buyGas
<1> HIDE DEF c
<1> QED
  BY <1>1 DEF World, Alike

\* So does what the EVM does.
LEMMA ExecutedAlike ==
  ASSUME NEW u \in World, NEW w \in World, NEW tx, NEW out, Alike(u, w)
  PROVE  /\ Alike(Executed(u, tx, out).world, Executed(w, tx, out).world)
         /\ Executed(u, tx, out).used = Executed(w, tx, out).used
<1> DEFINE left == IF tx.vault THEN tx.gas - TxGas ELSE out.left
           used == tx.gas - left
           refund == Refund(used, IF tx.vault THEN 0 ELSE out.refund)
           moved(x) == [x EXCEPT !.sender = @ - tx.value, !.receiver = @ + tx.value]
           back == (left + refund) * tx.price
           fee == (tx.gas - left - refund) * tx.price
           paid == (tx.gas - left) * tx.price
           after(x) ==
             IF out.vmerr
               THEN [x EXCEPT !.sender = @ + back, !.pool = @ + left + refund, !.coinbase = @ + fee]
               ELSE [moved(x) EXCEPT !.sender = @ + paid, !.pool = @ + left + refund]
<1>1. \A x \in {u, w} : /\ Executed(x, tx, out).world = after(x)
                        /\ Executed(x, tx, out).used = IF tx.vault THEN 0 ELSE used - refund
  BY DEF Executed, Done, refundGas, refundGasSmiloVersion
<1> HIDE DEF left, refund, back, fee, paid
<1>2. Alike(after(u), after(w))
  BY DEF World, Alike
<1> HIDE DEF after
<1> QED
  BY <1>1, <1>2

\* A transaction that is not a vault transaction does the same to two alike
\* worlds, whatever the vaults are, if both pools have the gas for it.
LEMMA PlainResult ==
  ASSUME NEW u \in World, NEW w \in World, NEW tx \in Tx, NEW out \in Outcome,
         NEW v1, NEW v2, ~tx.vault, Alike(u, w),
         TransitionDb(u, v1, tx, out).ok, TransitionDb(w, v2, tx, out).ok
  PROVE  /\ Alike(TransitionDb(u, v1, tx, out).world, TransitionDb(w, v2, tx, out).world)
         /\ TransitionDb(u, v1, tx, out).used = TransitionDb(w, v2, tx, out).used
<1> DEFINE counted(x) == [buyGas(x, tx) EXCEPT !.nonce = @ + 1]
<1>1. /\ CanBuyGas(u, tx) /\ CanBuyGas(w, tx)
      /\ TransitionDb(u, v1, tx, out) = Executed(counted(u), tx, out)
      /\ TransitionDb(w, v2, tx, out) = Executed(counted(w), tx, out)
  BY DEF TransitionDb, Fails
<1>2. Alike(counted(u), counted(w))
  BY BuyAlike
<1>3. buyGas(u, tx) \in World /\ buyGas(w, tx) \in World
  BY <1>1, BuySound
<1>4. counted(u) \in World /\ counted(w) \in World
  BY <1>3 DEF World
<1> HIDE DEF counted
<1> QED
  BY <1>1, <1>2, <1>4, ExecutedAlike

\* A vault transaction counts in the sender's nonce and changes nothing else that
\* is public, on the nodes that run it and on those that do not.
LEMMA VaultResult ==
  ASSUME NEW w \in World, NEW tx \in Tx, NEW out \in Outcome, NEW v,
         tx.vault, TransitionDb(w, v, tx, out).ok
  PROVE  /\ Alike(TransitionDb(w, v, tx, out).world, [w EXCEPT !.nonce = @ + 1])
         /\ TransitionDb(w, v, tx, out).used = 0
<1> USE TransitionAssumption
<1> DEFINE r == TransitionDb(w, v, tx, out)
           b == buyGas(w, tx)
           counted == [b EXCEPT !.nonce = @ + 1]
           whole == refundGasSmiloVersion(counted, tx, tx.gas - TxGas, 0)
           next == [w EXCEPT !.nonce = @ + 1]
<1>1. tx.price = 0 /\ tx.value = 0 /\ tx.gas \in Nat /\ tx.gas * tx.price = 0
  BY DEF Tx
<1>2. b = [w EXCEPT !.pool = w.pool - tx.gas]
  <2>1. w.pay - 0 = w.pay /\ w.sender - 0 = w.sender
    BY Fields
  <2>2. b = [w EXCEPT !.pool = w.pool - tx.gas, !.pay = w.pay, !.sender = w.sender]
    BY <1>1, <2>1, Zenon DEF buyGas
  <2> HIDE DEF b
  <2> QED
    BY <2>2, Zenon DEF World
<1>3. \/ r = OutsideGroup(w, b)
      \/ r = Done(whole, 0, FALSE)
      \/ r = Executed(counted, tx, out)
  BY Zenon DEF TransitionDb, Fails
<1> HIDE DEF r, b
<1>4. Alike(counted, next) /\ next \in World
  BY <1>2 DEF World, Alike
<1>5. CASE r = OutsideGroup(w, b)
  <2>1. r.world = [b EXCEPT !.nonce = w.nonce + 1] /\ r.used = 0
    BY <1>5 DEF OutsideGroup, Done
  <2> QED
    BY <1>2, <2>1 DEF World, Alike, r
<1>6. counted \in World
  <2>1. CanBuyGas(w, tx)
    BY Zenon DEF TransitionDb, Fails
  <2>2. b \in World
    BY <2>1, BuySound DEF b
  <2> QED
    BY <2>2 DEF World
<1>7. /\ counted.sender + 0 = counted.sender /\ counted.sender - 0 = counted.sender
      /\ counted.receiver + 0 = counted.receiver /\ counted.coinbase + 0 = counted.coinbase
  BY <1>6, Fields
<1> HIDE DEF counted
<1>8. ASSUME NEW left \in 0 .. tx.gas, NEW refund \in 0 .. tx.gas - left,
             NEW u, u \in World, Alike(u, counted)
      PROVE  /\ Alike(refundGas(u, tx, left, refund), counted)
             /\ Alike(refundGasSmiloVersion(u, tx, left, refund), counted)
  <2>1. /\ (left + refund) * tx.price = 0
        /\ (tx.gas - left - refund) * tx.price = 0
        /\ (tx.gas - left) * tx.price = 0
    BY <1>1
  <2>2. /\ refundGas(u, tx, left, refund) =
             [u EXCEPT !.sender = @ + 0, !.pool = @ + left + refund, !.coinbase = @ + 0]
        /\ refundGasSmiloVersion(u, tx, left, refund) =
             [u EXCEPT !.sender = @ + 0, !.pool = @ + left + refund]
    BY <2>1, Zenon DEF refundGas, refundGasSmiloVersion
  <2>3. u.sender + 0 = u.sender /\ u.coinbase + 0 = u.coinbase
    BY <1>8, Fields
  <2> QED
    BY <1>8, <2>2, <2>3 DEF Alike, World
<1>9. CASE r = Done(whole, 0, FALSE)
  <2>1. r.world = whole /\ r.used = 0
    BY <1>9 DEF Done
  <2>2. tx.gas - TxGas \in 0 .. tx.gas /\ 0 \in 0 .. tx.gas - (tx.gas - TxGas)
    BY DEF Tx
  <2>3. Alike(whole, counted)
    BY <1>6, <1>8, <2>2 DEF Alike
  <2> HIDE DEF whole
  <2> QED
    BY <1>4, <2>1, <2>3 DEF Alike, r
<1>10. CASE r = Executed(counted, tx, out)
  <2> DEFINE left == tx.gas - TxGas
             refund == Refund(tx.gas - left, 0)
             moved == [counted EXCEPT !.sender = @ - tx.value, !.receiver = @ + tx.value]
  <2>1. /\ r.world = IF out.vmerr THEN refundGas(counted, tx, left, refund)
                     ELSE refundGasSmiloVersion(moved, tx, left, refund)
        /\ r.used = 0
    BY <1>10 DEF Executed, Done
  <2>2. left \in 0 .. tx.gas /\ tx.gas - left \in Nat
    BY DEF Tx
  <2> HIDE DEF left
  <2>3. refund \in 0 .. tx.gas - left
    BY <2>2, RefundBound, Zenon
  <2> HIDE DEF refund
  <2>4. moved = [counted EXCEPT !.sender = counted.sender, !.receiver = counted.receiver]
    BY <1>1, <1>7, Zenon
  <2>5. moved = counted
    BY <1>6, <2>4, Zenon DEF World
  <2> HIDE DEF moved
  <2>6. Alike(r.world, counted)
    BY <1>6, <1>8, <2>1, <2>2, <2>3, <2>5 DEF Alike
  <2> QED
    BY <1>4, <2>1, <2>6 DEF Alike, r
<1> QED
  BY <1>3, <1>5, <1>9, <1>10, Zenon

------------------------------------------------------------------------------
\* The nodes start alike, with the whole gas limit in the pool.
LEMMA TransitionInitInd == TransitionInit => TransitionInd
<1> USE TransitionAssumption
<1> SUFFICES ASSUME TransitionInit PROVE TransitionInd
  OBVIOUS
<1>1. TransitionTypeOK
  BY DEF TransitionInit, TransitionTypeOK, World
<1>2. PublicStateAgrees
  BY DEF TransitionInit, PublicStateAgrees
<1>3. MakesNothing
  BY DEF TransitionInit, MakesNothing, Coins
<1> QED
  BY <1>1, <1>2, <1>3 DEF TransitionInd

\* A transaction of the block, on all nodes.
LEMMA IncludeInd ==
  ASSUME TransitionInd, NEW tx \in Tx, NEW out \in Outcome, Include(tx, out)
  PROVE  TransitionInd'
<1> DEFINE res(n) == TransitionDb(world[n], Vault(n), tx, out)
           valid == {n \in Nodes \ rejected : res(n).ok}
<1>1. /\ out.left <= tx.gas - TxGas
      /\ rejected' = Nodes \ valid
      /\ \A n \in Nodes :
           /\ world'[n] = IF n \in valid THEN res(n).world ELSE world[n]
           /\ usedGas'[n] = IF n \in valid THEN usedGas[n] + res(n).used ELSE usedGas[n]
      /\ DOMAIN world' = Nodes /\ DOMAIN usedGas' = Nodes
      /\ world' = [n \in Nodes |-> world'[n]] /\ usedGas' = [n \in Nodes |-> usedGas'[n]]
  BY DEF Include, Offered
<1>2. \A n \in Nodes : world[n] \in World /\ usedGas[n] \in Nat
  BY DEF TransitionInd, TransitionTypeOK
<1>3. \A n \in valid : Sound(res(n), world[n])
  BY <1>1, <1>2, TransitionSound
<1>4. ASSUME NEW n \in Nodes
      PROVE  /\ world'[n] \in World /\ usedGas'[n] \in Nat
             /\ Coins(world[n])' <= Coins(world[n])
             /\ usedGas'[n] + world'[n].pool <= usedGas[n] + world[n].pool
  <2>1. world[n].pool \in Nat /\ Coins(world[n]) \in Nat /\ usedGas[n] \in Nat
    BY <1>2, Fields DEF Coins
  <2>2. CASE n \in valid
    <3>1. world'[n] = res(n).world /\ usedGas'[n] = usedGas[n] + res(n).used
      BY <1>1, <2>2
    <3>2. Sound(res(n), world[n])
      BY <1>3, <2>2
    <3> HIDE DEF res
    <3>3. /\ world'[n] \in World /\ res(n).used \in Nat
          /\ Coins(world'[n]) <= Coins(world[n])
          /\ res(n).used + world'[n].pool <= world[n].pool
      BY <3>1, <3>2 DEF Sound
    <3>4. world'[n].pool \in Nat
      BY <3>3, Fields
    <3> QED
      BY <2>1, <3>1, <3>3, <3>4 DEF Coins
  <2>3. CASE n \notin valid
    <3>1. world'[n] = world[n] /\ usedGas'[n] = usedGas[n]
      BY <1>1, <2>3
    <3> QED
      BY <1>2, <2>1, <3>1 DEF Coins
  <2> QED
    BY <2>2, <2>3
<1>5. TransitionTypeOK'
  BY <1>1, <1>4 DEF TransitionTypeOK
<1>6. MakesNothing'
  <2> SUFFICES ASSUME NEW n \in Nodes
               PROVE  Coins(world[n])' <= Funds /\ usedGas'[n] + world'[n].pool <= GasLimit
    BY DEF MakesNothing
  <2>1. Coins(world[n]) <= Funds /\ usedGas[n] + world[n].pool <= GasLimit
    BY DEF TransitionInd, MakesNothing
  <2>2. /\ Coins(world[n]) \in Nat /\ usedGas[n] \in Nat /\ world[n].pool \in Nat
    BY <1>2, Fields DEF Coins
  <2>3. /\ Coins(world[n])' \in Nat /\ usedGas'[n] \in Nat /\ world'[n].pool \in Nat
    BY <1>4, Fields DEF Coins
  <2> QED
    BY <1>4, <2>1, <2>2, <2>3, TransitionAssumption
<1>7. PublicStateAgrees'
  <2> SUFFICES ASSUME NEW m \in valid, NEW n \in valid
               PROVE  /\ Public(world'[m]) = Public(world'[n])
                      /\ usedGas'[m] = usedGas'[n]
    BY <1>1 DEF PublicStateAgrees, Public
  <2>1. /\ m \in Nodes \ rejected /\ n \in Nodes \ rejected
        /\ res(m).ok /\ res(n).ok
    OBVIOUS
  <2>2. /\ world'[m] = res(m).world /\ usedGas'[m] = usedGas[m] + res(m).used
        /\ world'[n] = res(n).world /\ usedGas'[n] = usedGas[n] + res(n).used
    BY <1>1, <2>1
  <2>3. Public(world[m]) = Public(world[n]) /\ usedGas[m] = usedGas[n]
    BY <2>1 DEF TransitionInd, PublicStateAgrees, Public
  <2>4. Alike(world[m], world[n])
    BY <1>2, <2>1, <2>3, AlikeIsPublic
  <2>5. Alike(res(m).world, res(n).world) /\ res(m).used = res(n).used
    <3>1. CASE tx.vault
      <4>1. /\ Alike(res(m).world, [world[m] EXCEPT !.nonce = @ + 1]) /\ res(m).used = 0
            /\ Alike(res(n).world, [world[n] EXCEPT !.nonce = @ + 1]) /\ res(n).used = 0
        BY <1>2, <2>1, <3>1, VaultResult
      <4> HIDE DEF res
      <4>2. Alike([world[m] EXCEPT !.nonce = @ + 1], [world[n] EXCEPT !.nonce = @ + 1])
        BY <1>2, <2>1, <2>4 DEF Alike, World
      <4> QED
        BY <4>1, <4>2 DEF Alike
    <3>2. CASE ~tx.vault
      BY <1>2, <2>1, <2>4, <3>2, PlainResult
    <3> QED
      BY <3>1, <3>2
  <2> HIDE DEF res
  <2>6. Alike(world'[m], world'[n]) /\ world'[m] \in World /\ world'[n] \in World
    BY <1>4, <2>1, <2>2, <2>5
  <2>7. Public(world'[m]) = Public(world'[n])
    BY <2>6, AlikeIsPublic
  <2> QED
    BY <2>2, <2>3, <2>5, <2>7
<1> QED
  BY <1>5, <1>6, <1>7 DEF TransitionInd

\* A transaction left out changes the builder's gas pool only.
LEMMA LeaveOutInd ==
  ASSUME TransitionInd, NEW tx \in Tx, NEW out \in Outcome, LeaveOut(tx, out)
  PROVE  TransitionInd'
<1> USE TransitionAssumption
<1> DEFINE left == TransitionDb(world[Builder], Vault(Builder), tx, out).world.pool
<1>1. /\ world' = [world EXCEPT ![Builder].pool = left]
      /\ UNCHANGED <<usedGas, rejected>>
      /\ ~TransitionDb(world[Builder], Vault(Builder), tx, out).ok
  BY DEF LeaveOut
<1>2. \A n \in Nodes : world[n] \in World /\ usedGas[n] \in Nat
  BY DEF TransitionInd, TransitionTypeOK
<1>3. left \in Nat /\ left <= world[Builder].pool
  BY <1>1, <1>2, FailureSound
<1> HIDE DEF left
<1>4. /\ world'[Builder] = [world[Builder] EXCEPT !.pool = left]
      /\ \A n \in Nodes : n # Builder => world'[n] = world[n]
  BY <1>1 DEF TransitionInd, TransitionTypeOK
<1>5. ASSUME NEW n \in Nodes
      PROVE  /\ world'[n] \in World /\ Alike(world'[n], world[n])
             /\ world'[n].pool <= world[n].pool
  <2>1. CASE n = Builder
    BY <1>2, <1>3, <1>4, <2>1 DEF World, Alike
  <2>2. CASE n # Builder
    BY <1>2, <1>4, <2>2, Fields DEF Alike
  <2> QED
    BY <2>1, <2>2
<1>6. TransitionTypeOK'
  BY <1>1, <1>5 DEF TransitionInd, TransitionTypeOK
<1>7. MakesNothing'
  <2> SUFFICES ASSUME NEW n \in Nodes
               PROVE  Coins(world[n])' <= Funds /\ usedGas'[n] + world'[n].pool <= GasLimit
    BY DEF MakesNothing
  <2>1. Coins(world[n]) <= Funds /\ usedGas[n] + world[n].pool <= GasLimit
    BY DEF TransitionInd, MakesNothing
  <2>2. Coins(world[n])' = Coins(world[n])
    BY <1>5 DEF Coins, Alike
  <2>3. usedGas[n] \in Nat /\ world[n].pool \in Nat /\ world'[n].pool \in Nat
    BY <1>2, <1>5, Fields
  <2>4. usedGas'[n] + world'[n].pool <= GasLimit
    BY <1>1, <1>5, <2>1, <2>3
  <2> QED
    BY <2>1, <2>2, <2>4
<1>8. PublicStateAgrees'
  <2> SUFFICES ASSUME NEW m \in Nodes \ rejected, NEW n \in Nodes \ rejected
               PROVE  /\ Public(world'[m]) = Public(world'[n])
                      /\ usedGas'[m] = usedGas'[n]
    BY <1>1 DEF PublicStateAgrees, Public
  <2>1. Public(world[m]) = Public(world[n]) /\ usedGas[m] = usedGas[n]
    BY DEF TransitionInd, PublicStateAgrees, Public
  <2>2. Alike(world[m], world[n])
    BY <1>2, <2>1, AlikeIsPublic
  <2>3. Alike(world'[m], world'[n])
    BY <1>5, <2>2 DEF Alike
  <2> QED
    BY <1>1, <1>5, <2>1, <2>3, AlikeIsPublic
<1> QED
  BY <1>6, <1>7, <1>8 DEF TransitionInd

\* Every transaction executed on any node keeps the invariant.
LEMMA TransitionStepInd ==
  ASSUME TransitionInd, [TransitionNext]_transitionVars
  PROVE  TransitionInd'
<1>1. CASE UNCHANGED transitionVars
  BY <1>1 DEF transitionVars, TransitionInd, TransitionTypeOK, PublicStateAgrees, MakesNothing, Coins
<1>2. CASE TransitionNext
  BY <1>2, IncludeInd, LeaveOutInd DEF TransitionNext
<1> QED
  BY <1>1, <1>2

\* The nodes that accept a block agree on its public state and on the gas it
\* used, whatever vault transactions it has and whichever nodes have their
\* payloads.
THEOREM PublicAgreement == TransitionSpec => []PublicStateAgrees
<1>1. TransitionInd => PublicStateAgrees
  BY DEF TransitionInd
<1>2. TransitionInd /\ [TransitionNext]_transitionVars => TransitionInd'
  BY TransitionStepInd
<1> QED
  BY <1>1, <1>2, TransitionInitInd, PTL DEF TransitionSpec

\* However the gas is bought, refunded and capped, a block makes no coins and
\* the gas it counts and the gas left in the pool stay within the limit.
THEOREM NothingMade == TransitionSpec => []MakesNothing
<1>1. TransitionInd => MakesNothing
  BY DEF TransitionInd
<1>2. TransitionInd /\ [TransitionNext]_transitionVars => TransitionInd'
  BY TransitionStepInd
<1> QED
  BY <1>1, <1>2, TransitionInitInd, PTL DEF TransitionSpec

-----------------------------------------------------------------------------
(* The snapshot.                                                           *)

SnapshotType == [number : Nat, fullnodes : SUBSET Addresses,
                 votes : SUBSET Vote, tally : [Addresses -> Tally]]

Good(s) ==
  /\ s \in SnapshotType
  /\ IsFiniteSet(s.votes)
  /\ CountsVotes(s)
  /\ OneVoteEach(s)
  /\ VotesStand(s)
  /\ NoEmptyTally(s)

\* The votes on an account are a finite set.
LEMMA VotesForFinite ==
  ASSUME NEW s, Good(s), NEW a
  PROVE  IsFiniteSet(VotesFor(s, a)) /\ Cardinality(VotesFor(s, a)) \in Nat
<1>1. VotesFor(s, a) \in SUBSET s.votes
  BY DEF VotesFor
<1>2. IsFiniteSet(s.votes)
  BY DEF Good
<1> QED
  BY <1>1, <1>2, FS_Subset, FS_CardinalityType

\* uncast, applied to some of the votes of a snapshot, leaves the tally that
\* counts the others.
LEMMA UncastCounts ==
  ASSUME NEW s, Good(s), NEW own \in SUBSET s.votes, NEW a \in Addresses
  PROVE  LET t    == uncastAll(s.tally, own)
             left == {v \in s.votes \ own : v.address = a}
         IN  /\ t[a] \in Tally
             /\ t[a].votes = Cardinality(left)
             /\ \A v \in left : v.authorize = t[a].authorize
             /\ Deleted(t[a])
<1> DEFINE t == uncastAll(s.tally, own)
           left == {v \in s.votes \ own : v.address = a}
           mine == {v \in own : v.address = a
                                  /\ v.authorize = s.tally[a].authorize}
           all == VotesFor(s, a)
<1>1. /\ s.tally[a] \in Tally
      /\ s.tally[a].votes = Cardinality(all)
      /\ \A v \in all : v.authorize = s.tally[a].authorize
  BY DEF Good, CountsVotes, SnapshotType
<1>2. mine = all \cap own /\ left = all \ own
  BY <1>1 DEF VotesFor
<1>3. IsFiniteSet(all)
  BY VotesForFinite
<1>4. t[a] = IF Cardinality(mine) < s.tally[a].votes
             THEN [s.tally[a] EXCEPT !.votes = @ - Cardinality(mine)]
             ELSE NoTally
  BY DEF uncastAll
<1> HIDE DEF t, mine, all, left
<1>5. /\ IsFiniteSet(left)
      /\ Cardinality(left) = Cardinality(all) - Cardinality(mine)
  BY <1>2, <1>3, FS_Difference
<1>6. IsFiniteSet(mine) /\ Cardinality(mine) \in Nat /\ Cardinality(all) \in Nat
      /\ Cardinality(left) \in Nat
  BY Zenon, <1>2, <1>3, <1>5, FS_Intersection, FS_CardinalityType
<1>7. CASE Cardinality(mine) < s.tally[a].votes
  <2>1. t[a] = [s.tally[a] EXCEPT !.votes = s.tally[a].votes - Cardinality(mine)]
    BY <1>4, <1>7
  <2>2. t[a] \in Tally /\ t[a].votes = Cardinality(left)
        /\ t[a].authorize = s.tally[a].authorize
    BY <2>1, <1>1, <1>5, <1>6, <1>7 DEF Tally
  <2>3. t[a].votes # 0
    BY <2>2, <1>1, <1>5, <1>6, <1>7
  <2> QED
    BY <2>2, <2>3, <1>1, <1>2 DEF t, left, Deleted
<1>8. CASE ~(Cardinality(mine) < s.tally[a].votes)
  <2>1. t[a] = NoTally
    BY <1>4, <1>8
  <2>2. Cardinality(left) = 0
    BY <1>1, <1>5, <1>6, <1>8
  <2>3. left = {}
    BY <2>2, <1>5, FS_EmptySet
  <2>4. t[a] \in Tally /\ t[a].votes = 0
    BY <2>1 DEF NoTally, Tally
  <2> QED
    BY <2>1, <2>2, <2>3, <2>4 DEF t, left, Deleted
<1> QED
  BY <1>7, <1>8

\* A snapshot that loses some of its votes, with their counts, stays Good.
LEMMA DiscardGood ==
  ASSUME NEW s, Good(s), NEW own \in SUBSET s.votes
  PROVE  Good([s EXCEPT !.votes = @ \ own, !.tally = uncastAll(@, own)])
<1> DEFINE d == [s EXCEPT !.votes = s.votes \ own,
                          !.tally = uncastAll(s.tally, own)]
<1>1. /\ s \in SnapshotType
      /\ IsFiniteSet(s.votes)
  BY DEF Good
<1>2. /\ d.votes = s.votes \ own
      /\ d.tally = uncastAll(s.tally, own)
      /\ d.fullnodes = s.fullnodes
      /\ d.number = s.number
  BY <1>1 DEF SnapshotType
<1>3. uncastAll(s.tally, own) \in [Addresses -> Tally]
  <2>1. \A a \in Addresses : uncastAll(s.tally, own)[a] \in Tally
    BY Zenon, UncastCounts
  <2> QED
    BY Zenon, <2>1 DEF uncastAll
<1>4. d \in SnapshotType
  BY Zenon, <1>1, <1>3 DEF SnapshotType
<1> HIDE DEF d
<1>5. IsFiniteSet(d.votes)
  BY Zenon, <1>1, <1>2, FS_Difference
<1>6. CountsVotes(d)
  BY <1>2, UncastCounts DEF CountsVotes, VotesFor
<1>7. OneVoteEach(d) /\ VotesStand(d)
  BY <1>2 DEF Good, OneVoteEach, VotesStand, checkVote
<1>8. NoEmptyTally(d)
  <2>1. ASSUME NEW a \in Addresses
        PROVE  Deleted(uncastAll(s.tally, own)[a])
    BY Zenon, UncastCounts
  <2> QED
    BY <1>2, <2>1 DEF NoEmptyTally
<1>9. Good(d)
  BY <1>4, <1>5, <1>6, <1>7, <1>8 DEF Good
<1> QED
  BY <1>9 DEF d

\* A snapshot without votes is Good.
LEMMA NoVotesGood ==
  ASSUME NEW s, s \in SnapshotType, s.votes = {},
         s.tally = [a \in Addresses |-> NoTally]
  PROVE  Good(s)
<1>1. IsFiniteSet({}) /\ Cardinality({}) = 0
  BY FS_EmptySet
<1>2. \A a : VotesFor(s, a) = {}
  BY DEF VotesFor
<1>3. CountsVotes(s)
  BY <1>1, <1>2 DEF CountsVotes, NoTally
<1> QED
  BY <1>1, <1>3 DEF Good, OneVoteEach, VotesStand, NoEmptyTally,
                      Deleted

\* The first stages of apply: at the new height, reset at an epoch, and
\* without the author's previous vote on the coinbase.
discarded(s, f, a) ==
  discardPrevious(resetAtEpoch([s EXCEPT !.number = @ + 1]), f, a)

\* Those stages keep the set and only take votes away: all of them at an
\* epoch, and the previous vote of the author on the coinbase.
LEMMA DiscardedGood ==
  ASSUME NEW s, Good(s), NEW f \in Addresses, NEW a \in Addresses
  PROVE  LET d == discarded(s, f, a)
         IN  /\ Good(d)
             /\ d.fullnodes = s.fullnodes
             /\ d.number = s.number + 1
             /\ d.votes \subseteq s.votes
             /\ (s.number + 1) % Epoch = 0 => d.votes = {}
             /\ \A v \in d.votes : ~(v.fullnode = f /\ v.address = a)
<1> DEFINE n == [s EXCEPT !.number = s.number + 1]
           r == resetAtEpoch(n)
           same == {v \in r.votes : v.fullnode = f /\ v.address = a}
           first == {v \in same : \A w \in same : v.blockNum <= w.blockNum}
           d == discarded(s, f, a)
<1>1. s \in SnapshotType
  BY DEF Good
<1>2. /\ n \in SnapshotType /\ n.number = s.number + 1
      /\ n.fullnodes = s.fullnodes /\ n.votes = s.votes /\ n.tally = s.tally
  BY <1>1 DEF SnapshotType
<1> HIDE DEF n
<1>3. Good(n)
  <2>1. CountsVotes(n)
    BY <1>2 DEF Good, CountsVotes, VotesFor
  <2>2. OneVoteEach(n) /\ VotesStand(n)
    BY <1>2 DEF Good, OneVoteEach, VotesStand, checkVote
  <2>3. NoEmptyTally(n)
    BY <1>2 DEF Good, NoEmptyTally
  <2> QED
    BY <1>2, <2>1, <2>2, <2>3 DEF Good
<1>4. /\ Good(r) /\ r.fullnodes = s.fullnodes /\ r.number = s.number + 1
      /\ r.votes \subseteq s.votes
      /\ (s.number + 1) % Epoch = 0 => r.votes = {}
  <2>1. CASE n.number % Epoch = 0
    <3> DEFINE e == [n EXCEPT !.votes = {},
                              !.tally = [b \in Addresses |-> NoTally]]
    <3>1. r = e
      BY <2>1 DEF resetAtEpoch
    <3>2. /\ e.number = n.number /\ e.fullnodes = n.fullnodes /\ e.votes = {}
          /\ e.tally = [b \in Addresses |-> NoTally]
      BY <1>2 DEF SnapshotType
    <3>3. e \in SnapshotType
      BY Zenon, <1>2 DEF SnapshotType, NoTally, Tally
    <3> HIDE DEF e
    <3>4. Good(e)
      BY <3>2, <3>3, NoVotesGood
    <3> QED
      BY <3>1, <3>2, <3>4, <1>2
  <2>2. CASE n.number % Epoch # 0
    BY <2>2, <1>2, <1>3 DEF resetAtEpoch
  <2> QED
    BY <2>1, <2>2
<1>5. d = [r EXCEPT !.votes = @ \ first, !.tally = uncastAll(@, first)]
  BY DEF discarded, discardPrevious, n
<1> HIDE DEF r, d
<1>6. first = same
  <2>1. \A v, w \in same : v = w
    BY <1>4 DEF Good, OneVoteEach
  <2>2. \A v \in same : v.blockNum <= v.blockNum
    BY <1>4 DEF Good, SnapshotType, Vote
  <2> QED
    BY <2>1, <2>2
<1> HIDE DEF first
<1>7. same \in SUBSET r.votes
  OBVIOUS
<1>8. Good(d)
  BY Zenon, <1>4, <1>5, <1>6, <1>7, DiscardGood
<1>9. r \in SnapshotType
  BY <1>4 DEF Good
<1>10. /\ d.fullnodes = r.fullnodes /\ d.number = r.number
       /\ d.votes = r.votes \ same
  BY <1>5, <1>6, <1>9 DEF SnapshotType
<1>11. /\ d.votes \subseteq s.votes
       /\ (s.number + 1) % Epoch = 0 => d.votes = {}
       /\ \A v \in d.votes : ~(v.fullnode = f /\ v.address = a)
  BY <1>4, <1>10
<1> QED
  BY <1>4, <1>8, <1>10, <1>11 DEF d

\* The author's vote, counted if it is meaningful, is the only one added.
LEMMA CastGood ==
  ASSUME NEW d, Good(d), NEW f \in d.fullnodes, NEW a \in Addresses,
         NEW authorize \in BOOLEAN,
         \A v \in d.votes : ~(v.fullnode = f /\ v.address = a)
  PROVE  LET c == castVote(d, f, a, authorize)
         IN  /\ Good(c)
             /\ c.fullnodes = d.fullnodes
             /\ c.number = d.number
             /\ \A v \in c.votes : v \in d.votes \/ v.fullnode = f
<1> DEFINE new == [fullnode |-> f, blockNum |-> d.number, address |-> a,
                   authorize |-> authorize]
           c == castVote(d, f, a, authorize)
<1>1. d \in SnapshotType
  BY DEF Good
<1>2. CASE ~checkVote(d, a, authorize)
  BY <1>2 DEF castVote
<1>3. CASE checkVote(d, a, authorize)
  <2>1. c = [d EXCEPT !.tally = castTally(d.tally, a, authorize),
                      !.votes = d.votes \cup {new}]
    BY <1>3 DEF castVote
  <2>2. castTally(d.tally, a, authorize) \in [Addresses -> Tally]
    BY <1>1 DEF castTally, SnapshotType, Tally
  <2>3. new \in Vote
    BY <1>1 DEF SnapshotType, Vote
  <2>4. /\ c.tally = castTally(d.tally, a, authorize)
        /\ c.votes = d.votes \cup {new}
        /\ c.fullnodes = d.fullnodes /\ c.number = d.number
    BY <2>1, <1>1 DEF SnapshotType
  <2>5. c \in SnapshotType
    BY Zenon, <2>1, <2>2, <2>3, <1>1 DEF SnapshotType
  <2> HIDE DEF c
  <2>6. IsFiniteSet(c.votes)
    BY Zenon, <2>4, FS_AddElement DEF Good
  <2>7. OneVoteEach(c)
    BY <2>4 DEF OneVoteEach, Good
  <2>8. VotesStand(c)
    BY <2>4, <1>3 DEF VotesStand, Good, checkVote
  <2>9. new \notin d.votes /\ new.authorize = authorize
    OBVIOUS
  <2>10. ASSUME NEW b \in Addresses
         PROVE  /\ c.tally[b].votes = Cardinality(VotesFor(c, b))
                /\ \A v \in VotesFor(c, b) : v.authorize = c.tally[b].authorize
    <3>1. /\ d.tally[b] \in Tally
          /\ d.tally[b].votes = Cardinality(VotesFor(d, b))
          /\ \A v \in VotesFor(d, b) : v.authorize = d.tally[b].authorize
      BY <1>1 DEF Good, CountsVotes, SnapshotType
    <3>2. CASE b # a
      <4>1. VotesFor(c, b) = VotesFor(d, b)
        BY <2>4, <3>2 DEF VotesFor
      <4>2. c.tally[b] = d.tally[b]
        BY <2>4, <3>2, <1>1 DEF castTally, SnapshotType
      <4> QED
        BY <4>1, <4>2, <3>1
    <3>3. CASE b = a
      <4>1. VotesFor(c, a) = VotesFor(d, a) \cup {new}
        BY <2>4 DEF VotesFor
      <4>2. IsFiniteSet(VotesFor(d, a)) /\ Cardinality(VotesFor(d, a)) \in Nat
        BY VotesForFinite
      <4>3. new \notin VotesFor(d, a)
        BY <2>9 DEF VotesFor
      <4>4. Cardinality(VotesFor(c, a)) = Cardinality(VotesFor(d, a)) + 1
        BY Zenon, <4>1, <4>2, <4>3, FS_AddElement
      <4>5. CASE d.tally[a].votes > 0
        <5>1. c.tally[a] = [authorize |-> d.tally[a].authorize,
                           votes |-> d.tally[a].votes + 1]
          BY <2>4, <4>5, <1>1 DEF castTally, SnapshotType
        <5>2. c.tally[a].votes = d.tally[a].votes + 1
              /\ c.tally[a].authorize = d.tally[a].authorize
          BY <5>1, <3>1, <3>3 DEF Tally
        <5>3. VotesFor(d, a) # {}
          BY <4>5, <3>1, <3>3, FS_EmptySet
        <5>4. PICK u \in VotesFor(d, a) : TRUE
          BY <5>3
        <5>5. d.tally[a].authorize = (a \notin d.fullnodes)
          BY <5>4, <3>1, <3>3 DEF Good, VotesStand, checkVote, VotesFor, Vote,
                                  SnapshotType
        <5>6. authorize = d.tally[a].authorize
          BY <5>5, <1>3 DEF checkVote
        <5>7. \A w \in VotesFor(c, a) : w.authorize = c.tally[a].authorize
          <6> HIDE DEF new
          <6> QED
            BY <5>2, <5>6, <4>1, <3>1, <3>3, <2>9
        <5> QED
          BY <5>2, <5>7, <4>4, <3>1, <3>3
      <4>6. CASE ~(d.tally[a].votes > 0)
        <5>1. c.tally[a] = [authorize |-> authorize, votes |-> 1]
          BY <2>4, <4>6, <1>1 DEF castTally, SnapshotType
        <5>2. Cardinality(VotesFor(d, a)) = 0
          BY <4>2, <4>6, <3>1, <3>3
        <5>3. VotesFor(d, a) = {}
          BY <5>2, <4>2, FS_EmptySet
        <5>4. \A w \in VotesFor(c, a) : w.authorize = c.tally[a].authorize
          <6> HIDE DEF new
          <6> QED
            BY <5>1, <5>3, <4>1, <2>9
        <5> QED
          BY <5>1, <5>2, <5>4, <4>4, <3>3
      <4> QED
        BY <4>5, <4>6
    <3> QED
      BY <3>2, <3>3
  <2>11. CountsVotes(c)
    BY <2>10 DEF CountsVotes
  <2>12. NoEmptyTally(c)
    BY <2>4, <1>1 DEF Good, NoEmptyTally, Deleted, castTally, SnapshotType,
                      Tally
  <2>13. Good(c)
    BY <2>5, <2>6, <2>7, <2>8, <2>11, <2>12 DEF Good
  <2> QED
    BY <2>4, <2>13 DEF c
<1> QED
  BY <1>2, <1>3

\* Settling a vote that passed: an authorized account joins, a dropped one
\* leaves with the votes it cast, and the votes on it go.
LEMMA ResolveGood ==
  ASSUME NEW c, Good(c), NEW a \in Addresses
  PROVE  LET r == resolve(c, a)
         IN  /\ Good(r)
             /\ r.number = c.number
             /\ r.fullnodes # c.fullnodes =>
                  /\ passed(c, a)
                  /\ r.fullnodes \in {c.fullnodes \cup {a}, c.fullnodes \ {a}}
<1> DEFINE r == resolve(c, a)
           about == VotesFor(c, a)
           own == {v \in c.votes : v.fullnode = a}
<1>1. c \in SnapshotType
  BY DEF Good
<1>2. c.tally[a].votes \in Nat /\ Cardinality(about) = c.tally[a].votes
      /\ \A v \in about : v.authorize = c.tally[a].authorize
  BY <1>1 DEF Good, CountsVotes, SnapshotType, Tally
<1>3. CASE ~passed(c, a)
  BY <1>3 DEF resolve
<1>4. CASE passed(c, a) /\ c.tally[a].authorize
  <2> DEFINE x == [c EXCEPT !.fullnodes = c.fullnodes \cup {a}]
             y == [x EXCEPT !.votes = {v \in x.votes : v.address # a},
                            !.tally = [x.tally EXCEPT ![a] = NoTally]]
  <2>1. r = y
    BY <1>4 DEF resolve
  <2>2. /\ x \in SnapshotType /\ x.fullnodes = c.fullnodes \cup {a}
        /\ x.votes = c.votes /\ x.tally = c.tally /\ x.number = c.number
    BY <1>1 DEF SnapshotType
  <2> HIDE DEF x
  <2>3. [x.tally EXCEPT ![a] = NoTally] \in [Addresses -> Tally]
    BY <2>2 DEF SnapshotType, NoTally, Tally
  <2>4. /\ y \in SnapshotType /\ y.fullnodes = c.fullnodes \cup {a}
        /\ y.votes = {v \in c.votes : v.address # a}
        /\ y.tally = [c.tally EXCEPT ![a] = NoTally] /\ y.number = c.number
    BY Zenon, <2>2, <2>3 DEF SnapshotType
  <2> HIDE DEF y
  <2>5. IsFiniteSet(y.votes)
    BY <2>4, FS_Subset DEF Good
  <2>6. OneVoteEach(y) /\ VotesStand(y)
    BY <2>4 DEF Good, OneVoteEach, VotesStand, checkVote
  <2>7. CountsVotes(y)
    <3> SUFFICES ASSUME NEW b \in Addresses
                 PROVE  /\ y.tally[b].votes = Cardinality(VotesFor(y, b))
                        /\ \A v \in VotesFor(y, b) :
                             v.authorize = y.tally[b].authorize
      BY DEF CountsVotes
    <3>1. CASE b = a
      <4>1. VotesFor(y, a) = {} /\ y.tally[a].votes = 0
        BY <2>4, <1>1 DEF VotesFor, NoTally, SnapshotType
      <4> QED
        BY <3>1, <4>1, FS_EmptySet
    <3>2. CASE b # a
      <4>1. VotesFor(y, b) = VotesFor(c, b) /\ y.tally[b] = c.tally[b]
        BY <2>4, <3>2, <1>1 DEF VotesFor, SnapshotType
      <4> QED
        BY <4>1 DEF Good, CountsVotes
    <3> QED
      BY <3>1, <3>2
  <2>8. NoEmptyTally(y)
    BY <2>4, <1>1 DEF Good, NoEmptyTally, Deleted, SnapshotType
  <2>9. Good(y)
    BY <2>4, <2>5, <2>6, <2>7, <2>8 DEF Good
  <2> QED
    BY <1>4, <2>1, <2>4, <2>9
<1>5. CASE passed(c, a) /\ ~c.tally[a].authorize
  <2> DEFINE w == [c EXCEPT !.votes = @ \ own, !.tally = uncastAll(@, own)]
             x == dropFullnode(c, a)
             y == [x EXCEPT !.votes = {v \in x.votes : v.address # a},
                            !.tally = [x.tally EXCEPT ![a] = NoTally]]
  <2>1. r = y
    BY <1>5 DEF resolve
  <2>2. own \in SUBSET c.votes
    OBVIOUS
  <2>3. Good(w)
    BY Zenon, <2>2, DiscardGood
  <2>4. w.votes = c.votes \ own /\ w.tally = uncastAll(c.tally, own)
        /\ w.fullnodes = c.fullnodes /\ w.number = c.number
    BY <1>1 DEF SnapshotType
  <2> HIDE DEF w
  <2>5. x = [c EXCEPT !.fullnodes = c.fullnodes \ {a}, !.votes = c.votes \ own,
                      !.tally = uncastAll(c.tally, own)]
    BY DEF dropFullnode
  <2>6. /\ w.tally \in [Addresses -> Tally] /\ w.votes \in SUBSET Vote
    BY <2>3 DEF Good, SnapshotType
  <2>7. /\ x \in SnapshotType /\ x.fullnodes = c.fullnodes \ {a}
        /\ x.votes = w.votes /\ x.tally = w.tally /\ x.number = c.number
    BY Zenon, <2>4, <2>5, <2>6, <1>1 DEF SnapshotType
  <2> HIDE DEF x
  <2>8. [x.tally EXCEPT ![a] = NoTally] \in [Addresses -> Tally]
    BY <2>7 DEF SnapshotType, NoTally, Tally
  <2>9. /\ y \in SnapshotType /\ y.fullnodes = c.fullnodes \ {a}
        /\ y.votes = {v \in w.votes : v.address # a}
        /\ y.tally = [w.tally EXCEPT ![a] = NoTally] /\ y.number = c.number
    BY Zenon, <2>7, <2>8 DEF SnapshotType
  <2> HIDE DEF y
  <2>10. IsFiniteSet(y.votes)
    BY <2>3, <2>9, FS_Subset DEF Good
  <2>11. \A v \in y.votes : v \in c.votes /\ v.fullnode # a /\ v.address # a
    BY <2>4, <2>9
  <2>12. OneVoteEach(y) /\ VotesStand(y)
    BY <2>9, <2>11 DEF Good, OneVoteEach, VotesStand, checkVote
  <2>13. CountsVotes(y)
    <3> SUFFICES ASSUME NEW b \in Addresses
                 PROVE  /\ y.tally[b].votes = Cardinality(VotesFor(y, b))
                        /\ \A v \in VotesFor(y, b) :
                             v.authorize = y.tally[b].authorize
      BY DEF CountsVotes
    <3>1. CASE b = a
      <4>1. VotesFor(y, a) = {} /\ y.tally[a].votes = 0
        BY <2>6, <2>9 DEF VotesFor, NoTally
      <4> QED
        BY <3>1, <4>1, FS_EmptySet
    <3>2. CASE b # a
      <4>1. VotesFor(y, b) = VotesFor(w, b) /\ y.tally[b] = w.tally[b]
        BY <2>6, <2>9, <3>2 DEF VotesFor
      <4> QED
        BY <4>1, <2>3 DEF Good, CountsVotes
    <3> QED
      BY <3>1, <3>2
  <2>14. NoEmptyTally(y)
    BY <2>3, <2>6, <2>9 DEF Good, NoEmptyTally, Deleted
  <2>15. Good(y)
    BY <2>9, <2>10, <2>12, <2>13, <2>14 DEF Good
  <2> QED
    BY <1>5, <2>1, <2>9, <2>15
<1> QED
  BY <1>3, <1>4, <1>5

\* In a Good snapshot, no more votes stand on an account than members cast
\* them: every vote has a voter of its own.
LEMMA VotersOutnumberVotes ==
  ASSUME NEW c, Good(c), NEW a, NEW voters, IsFiniteSet(voters),
         \A v \in VotesFor(c, a) : v.fullnode \in voters
  PROVE  Cardinality(VotesFor(c, a)) <= Cardinality(voters)
<1> DEFINE voter == [v \in VotesFor(c, a) |-> v.fullnode]
<1>1. \A v, w \in VotesFor(c, a) : v.fullnode = w.fullnode => v = w
  BY DEF Good, OneVoteEach, VotesFor
<1>2. voter \in Injection(VotesFor(c, a), voters)
  BY <1>1 DEF Injection, IsInjective
<1> QED
  BY <1>2, FS_Injection

\* The invariant of the chain: the snapshot is Good, below the bound.
Inv == Good(snap) /\ snap.number \in 0..MaxNumber

\* What one header does to a Good snapshot.
LEMMA ApplyStep ==
  ASSUME Inv, NEW f \in Addresses, NEW a \in Addresses,
         NEW authorize \in BOOLEAN, ApplyHeader(f, a, authorize)
  PROVE  /\ Inv'
         /\ snap'.fullnodes # snap.fullnodes =>
              LET voters == Supporters(snap, a) \cup {f}
              IN  /\ snap'.fullnodes \in {snap.fullnodes \cup {a},
                                          snap.fullnodes \ {a}}
                  /\ voters \subseteq snap.fullnodes
                  /\ 2 * Cardinality(voters) > Cardinality(snap.fullnodes)
<1> DEFINE d == discarded(snap, f, a)
           c == castVote(d, f, a, authorize)
           r == resolve(c, a)
           voters == Supporters(snap, a) \cup {f}
<1>1. snap' = r /\ f \in snap.fullnodes /\ snap.number < MaxNumber
  BY DEF ApplyHeader, apply, discarded
<1>2. Good(snap) /\ snap \in SnapshotType
  BY DEF Inv, Good
<1>3. /\ Good(d) /\ d.fullnodes = snap.fullnodes
      /\ d.number = snap.number + 1 /\ d.votes \subseteq snap.votes
      /\ (snap.number + 1) % Epoch = 0 => d.votes = {}
      /\ \A v \in d.votes : ~(v.fullnode = f /\ v.address = a)
  BY <1>2, DiscardedGood
<1> HIDE DEF d
<1>4. /\ Good(c) /\ c.fullnodes = d.fullnodes /\ c.number = d.number
      /\ \A v \in c.votes : v \in d.votes \/ v.fullnode = f
  <2>1. f \in d.fullnodes
    BY <1>1, <1>3
  <2> QED
    BY <2>1, <1>3, CastGood
<1> HIDE DEF c
<1>5. /\ Good(r) /\ r.number = c.number
      /\ r.fullnodes # c.fullnodes =>
           passed(c, a)
             /\ r.fullnodes \in {c.fullnodes \cup {a}, c.fullnodes \ {a}}
  BY <1>4, ResolveGood
<1> HIDE DEF r
<1>6. Inv'
  <2>1. snap'.number = snap.number + 1
    BY <1>1, <1>3, <1>4, <1>5
  <2>2. snap'.number \in 0..MaxNumber
    BY <2>1, <1>1, SnapshotAssumption DEF Inv
  <2>3. Good(snap')
    BY <1>1, <1>5
  <2> QED
    BY <2>2, <2>3 DEF Inv
<1>7. ASSUME snap'.fullnodes # snap.fullnodes
      PROVE  /\ snap'.fullnodes \in {snap.fullnodes \cup {a},
                                     snap.fullnodes \ {a}}
             /\ voters \subseteq snap.fullnodes
             /\ 2 * Cardinality(voters) > Cardinality(snap.fullnodes)
  <2>1. /\ passed(c, a)
        /\ snap'.fullnodes \in {snap.fullnodes \cup {a}, snap.fullnodes \ {a}}
    BY <1>1, <1>3, <1>4, <1>5, <1>7
  <2>2. voters \subseteq snap.fullnodes
    BY <1>1, <1>2 DEF Supporters, VotesFor, Good, VotesStand
  <2>3. snap.fullnodes \in SUBSET Addresses
    BY <1>2 DEF SnapshotType
  <2>4. IsFiniteSet(snap.fullnodes)
    BY <2>3, SnapshotAssumption, FS_Subset
  <2>5. IsFiniteSet(voters)
    BY <2>2, <2>4, FS_Subset
  <2>6. ASSUME NEW v \in VotesFor(c, a)
        PROVE  v.fullnode \in voters
    BY <1>3, <1>4 DEF VotesFor, Supporters
  <2>7. Cardinality(VotesFor(c, a)) <= Cardinality(voters)
    BY <1>4, <2>5, <2>6, VotersOutnumberVotes
  <2>8. c.tally[a].votes = Cardinality(VotesFor(c, a))
    BY <1>4 DEF Good, CountsVotes
  <2>9. Cardinality(VotesFor(c, a)) > Cardinality(snap.fullnodes) \div 2
    BY <2>1, <2>8, <1>3, <1>4 DEF passed
  <2>10. /\ Cardinality(VotesFor(c, a)) \in Nat /\ Cardinality(voters) \in Nat
         /\ Cardinality(snap.fullnodes) \in Nat
    BY <1>4, <2>4, <2>5, VotesForFinite, FS_CardinalityType
  <2>11. 2 * Cardinality(voters) > Cardinality(snap.fullnodes)
    <3> DEFINE x == Cardinality(VotesFor(c, a))
               y == Cardinality(voters)
               z == Cardinality(snap.fullnodes)
    <3>1. x \in Nat /\ y \in Nat /\ z \in Nat /\ x <= y /\ x > z \div 2
      BY <2>7, <2>9, <2>10
    <3> HIDE DEF x, y, z
    <3>2. 2 * y > z
      BY <3>1
    <3> QED
      BY <3>2 DEF y, z
  <2> QED
    BY <2>1, <2>2, <2>11
<1> QED
  BY <1>6, <1>7

\* The genesis snapshot satisfies the invariant.
LEMMA InvInit == Init => Inv
<1> SUFFICES ASSUME Init PROVE Inv
  OBVIOUS
<1>1. snap \in SnapshotType /\ snap.number = 0 /\ snap.votes = {}
      /\ snap.tally = [a \in Addresses |-> NoTally]
  BY SnapshotAssumption DEF Init, newSnapshot, SnapshotType, NoTally, Tally
<1>2. Good(snap)
  BY <1>1, NoVotesGood
<1> QED
  BY <1>1, <1>2, SnapshotAssumption DEF Inv

\* Every step of the chain keeps the invariant.
LEMMA InvStep == Inv /\ [Next]_snap => Inv'
<1> SUFFICES ASSUME Inv, [Next]_snap PROVE Inv'
  OBVIOUS
<1>1. CASE Next
  <2>1. PICK f \in snap.fullnodes, a \in Addresses, authorize \in BOOLEAN :
          ApplyHeader(f, a, authorize)
    BY <1>1 DEF Next
  <2>2. f \in Addresses
    BY DEF Inv, Good, SnapshotType
  <2> QED
    BY Zenon, <2>1, <2>2, ApplyStep
<1>2. CASE UNCHANGED snap
  BY <1>2 DEF Inv
<1> QED
  BY <1>1, <1>2

\* The invariant of the chain holds in every behaviour.
THEOREM ChainInvariant == Spec => []Inv
  BY InvInit, InvStep, PTL DEF Spec

\* Type correctness of the snapshot that apply computes.
THEOREM SnapshotTypeCorrect == Spec => []TypeOK
<1>1. Inv => TypeOK
  BY DEF Inv, Good, SnapshotType, TypeOK
<1> QED
  BY <1>1, ChainInvariant, PTL

\* The tally is the count of the standing votes, one for each fullnode and
\* address, after any number of applied headers, resets and changed members.
THEOREM TallySound == Spec => [](TallyCountsVotes /\ OneVotePerAddress)
<1>1. Inv => TallyCountsVotes /\ OneVotePerAddress
  BY DEF Inv, Good, TallyCountsVotes, OneVotePerAddress
<1> QED
  BY <1>1, ChainInvariant, PTL

\* No vote outlives the membership of its voter or the question it is about.
THEOREM VotesSound == Spec => []StandingVotes
<1>1. Inv => StandingVotes
  BY DEF Inv, Good, StandingVotes
<1> QED
  BY <1>1, ChainInvariant, PTL

\* apply changes the set of fullnodes only by majority.
THEOREM MajoritySound == Spec => MajorityRules
<1> DEFINE Ruled ==
      snap'.fullnodes # snap.fullnodes =>
       \E a \in Addresses, f \in snap.fullnodes :
         LET voters == Supporters(snap, a) \cup {f}
         IN  /\ snap'.fullnodes \in {snap.fullnodes \cup {a},
                                     snap.fullnodes \ {a}}
             /\ voters \subseteq snap.fullnodes
             /\ 2 * Cardinality(voters) > Cardinality(snap.fullnodes)
<1>1. Inv /\ [Next]_snap => [Ruled]_snap
  <2> SUFFICES ASSUME Inv, Next PROVE Ruled
    OBVIOUS
  <2>1. PICK f \in snap.fullnodes, a \in Addresses, authorize \in BOOLEAN :
          ApplyHeader(f, a, authorize)
    BY DEF Next
  <2>2. f \in Addresses
    BY DEF Inv, Good, SnapshotType
  <2> QED
    BY <2>1, <2>2, ApplyStep
<1> QED
  BY <1>1, ChainInvariant, PTL DEF Spec, MajorityRules

-----------------------------------------------------------------------------
(* The voting of the nodes around the snapshot.                            *)

Candidates == [address : Addresses, authorize : BOOLEAN]

VotingType ==
  /\ candidates \in [Addresses -> SUBSET Candidates]
  /\ proposed \in [Addresses -> SUBSET Candidates]
  /\ work \in [Addresses -> [coinbase : Addresses, authorize : BOOLEAN,
                             candidate : BOOLEAN, ready : BOOLEAN]]

\* The operator of n proposed that a join.
HasAsked(asked, n, a) == Candidate(a, TRUE) \in asked[n]

Asked ==
  /\ \A n \in Addresses : candidates[n] \subseteq proposed[n]
  /\ \A n \in Addresses : work[n].authorize => HasAsked(proposed, n, work[n].coinbase)
  /\ \A v \in snap.votes : v.authorize => HasAsked(proposed, v.fullnode, v.address)

VotingInv == Inv /\ VotingType /\ Asked

\* The votes after a header are among those before it, but for the one the
\* header casts.
LEMMA CastVotes ==
  ASSUME Inv, NEW f \in Addresses, NEW a \in Addresses, NEW authorize \in BOOLEAN,
         ApplyHeader(f, a, authorize)
  PROVE  \E c : /\ Good(c) /\ c.fullnodes = snap.fullnodes /\ snap' = resolve(c, a)
                /\ \A v \in c.votes : \/ v \in snap.votes
                                      \/ v.fullnode = f /\ v.address = a /\ v.authorize = authorize
<1>. DEFINE d == discarded(snap, f, a)
            c == castVote(d, f, a, authorize)
<1>1. snap' = resolve(c, a) /\ f \in snap.fullnodes /\ Good(snap)
  BY DEF ApplyHeader, apply, discarded, Inv
<1>2. Good(d) /\ d.fullnodes = snap.fullnodes /\ d.votes \subseteq snap.votes
      /\ \A v \in d.votes : ~(v.fullnode = f /\ v.address = a)
  BY <1>1, DiscardedGood
<1>3. d \in SnapshotType
  BY <1>2 DEF Good
<1>. HIDE DEF d
<1>4. Good(c) /\ c.fullnodes = snap.fullnodes
  BY <1>1, <1>2, CastGood
<1>5. \A v \in c.votes : \/ v \in d.votes
                         \/ v.fullnode = f /\ v.address = a /\ v.authorize = authorize
  BY <1>3 DEF castVote, SnapshotType
<1>. HIDE DEF c
<1>. QED
  BY <1>1, <1>2, <1>4, <1>5

\* Settling a vote adds no vote, and lets an account join only on votes for it.
LEMMA ResolveJoins ==
  ASSUME NEW c, Good(c), NEW a \in Addresses
  PROVE  /\ resolve(c, a).votes \subseteq c.votes
         /\ \A b \in resolve(c, a).fullnodes \ c.fullnodes :
              b = a /\ passed(c, a) /\ c.tally[a].authorize
<1>1. c \in SnapshotType
  BY DEF Good
<1>2. CASE ~passed(c, a)
  BY <1>2 DEF resolve
<1>3. CASE passed(c, a) /\ c.tally[a].authorize
  <2>1. /\ resolve(c, a).votes = {v \in c.votes : v.address # a}
        /\ resolve(c, a).fullnodes = c.fullnodes \cup {a}
    BY <1>1, <1>3 DEF resolve, SnapshotType
  <2>. QED
    BY <1>3, <2>1
<1>4. CASE passed(c, a) /\ ~c.tally[a].authorize
  <2>1. /\ resolve(c, a).votes \subseteq c.votes
        /\ resolve(c, a).fullnodes = c.fullnodes \ {a}
    BY <1>1, <1>4 DEF resolve, dropFullnode, SnapshotType
  <2>. QED
    BY <2>1
<1>. QED
  BY <1>2, <1>3, <1>4

\* Proposing only adds to what was proposed.
LEMMA AskedGrows ==
  ASSUME VotingType, NEW n \in Addresses, NEW k \in Addresses, NEW a \in Addresses,
         NEW c, proposed' = [proposed EXCEPT ![n] = @ \cup {c}], HasAsked(proposed, k, a)
  PROVE  HasAsked(proposed', k, a)
  BY DEF VotingType, HasAsked, Candidate

\* A proposal of an operator keeps the invariant: what it adds was asked for.
LEMMA ProposeKeeps ==
  ASSUME VotingInv, NEW p \in Proposals, Propose(p)
  PROVE  VotingInv'
<1>. DEFINE c == Candidate(p.address, p.authorize)
<1>1. p.node \in Addresses /\ c \in Candidates
  BY VotingAssumption DEF Candidate, Candidates
<1>2. /\ candidates' = [candidates EXCEPT ![p.node] = {d \in @ : d.address # p.address} \cup {c}]
      /\ proposed' = [proposed EXCEPT ![p.node] = @ \cup {c}]
      /\ UNCHANGED <<snap, work>>
  BY DEF Propose
<1>. HIDE DEF c
<1>3. VotingType'
  BY <1>1, <1>2 DEF VotingInv, VotingType
<1>4. \A n \in Addresses : candidates'[n] \subseteq proposed'[n]
  BY <1>1, <1>2 DEF VotingInv, VotingType, Asked
<1>5. \A n \in Addresses : work'[n].authorize => HasAsked(proposed', n, work'[n].coinbase)
  <2>1. \A n \in Addresses : work[n].coinbase \in Addresses
    BY DEF VotingInv, VotingType
  <2>2. \A n \in Addresses : work[n].authorize => HasAsked(proposed, n, work[n].coinbase)
    BY DEF VotingInv, Asked
  <2>. QED
    BY <1>1, <1>2, <2>1, <2>2, AskedGrows, Zenon DEF VotingInv
<1>6. \A v \in snap'.votes : v.authorize => HasAsked(proposed', v.fullnode, v.address)
  <2>1. \A v \in snap.votes : v.fullnode \in Addresses /\ v.address \in Addresses
    BY DEF VotingInv, Inv, Good, SnapshotType, Vote
  <2>2. \A v \in snap.votes : v.authorize => HasAsked(proposed, v.fullnode, v.address)
    BY DEF VotingInv, Asked
  <2>. QED
    BY <1>1, <1>2, <2>1, <2>2, AskedGrows, Zenon DEF VotingInv
<1>7. Inv'
  BY <1>2 DEF VotingInv, Inv
<1>. QED
  BY <1>3, <1>4, <1>5, <1>6, <1>7 DEF VotingInv, Asked

\* A header under construction pushes a candidate of its node or nobody.
LEMMA PrepareKeeps ==
  ASSUME VotingInv, NEW n \in Addresses, Prepare(n)
  PROVE  VotingInv'
<1>1. UNCHANGED <<snap, candidates, proposed>>
  BY DEF Prepare
<1>2. PICK w \in [coinbase : Addresses, authorize : BOOLEAN, candidate : BOOLEAN, ready : BOOLEAN] :
        work' = [work EXCEPT ![n] = w] /\ (w.authorize => HasAsked(proposed, n, w.coinbase))
  <2>1. CASE work' = [work EXCEPT ![n] = [coinbase |-> n, authorize |-> FALSE,
                                          candidate |-> FALSE, ready |-> TRUE]]
    <3>. DEFINE w == [coinbase |-> n, authorize |-> FALSE, candidate |-> FALSE, ready |-> TRUE]
    <3>1. /\ w \in [coinbase : Addresses, authorize : BOOLEAN, candidate : BOOLEAN, ready : BOOLEAN]
          /\ ~w.authorize /\ work' = [work EXCEPT ![n] = w]
      BY <2>1
    <3>. QED
      BY Zenon, <3>1
  <2>2. ASSUME NEW c \in Electable(n),
               work' = [work EXCEPT ![n] = [coinbase |-> c.address, authorize |-> c.authorize,
                                            candidate |-> TRUE, ready |-> TRUE]]
        PROVE  \E w \in [coinbase : Addresses, authorize : BOOLEAN, candidate : BOOLEAN,
                         ready : BOOLEAN] :
                 work' = [work EXCEPT ![n] = w] /\ (w.authorize => HasAsked(proposed, n, w.coinbase))
    <3>1. c \in proposed[n] /\ c \in Candidates
      BY DEF Electable, VotingInv, VotingType, Asked
    <3>2. c.authorize => c = Candidate(c.address, TRUE)
      BY <3>1 DEF Candidates, Candidate
    <3>3. c.address \in Addresses /\ c.authorize \in BOOLEAN
      BY <3>1 DEF Candidates
    <3>4. c.authorize => HasAsked(proposed, n, c.address)
      BY <3>1, <3>2, Zenon DEF HasAsked
    <3>. DEFINE w == [coinbase |-> c.address, authorize |-> c.authorize,
                      candidate |-> TRUE, ready |-> TRUE]
    <3>5. /\ w \in [coinbase : Addresses, authorize : BOOLEAN, candidate : BOOLEAN, ready : BOOLEAN]
          /\ w.coinbase = c.address /\ w.authorize = c.authorize
      BY <3>3
    <3>. HIDE DEF w
    <3>6. work' = [work EXCEPT ![n] = w]
      BY <2>2 DEF w
    <3>. QED
      BY <3>4, <3>5, <3>6, Zenon
  <2>. QED
    BY <2>1, <2>2 DEF Prepare
<1>3. VotingType'
  BY <1>1, <1>2 DEF VotingInv, VotingType
<1>4. Asked'
  <2>1. \A k \in Addresses : work'[k] = IF k = n THEN w ELSE work[k]
    BY <1>2 DEF VotingInv, VotingType
  <2>. QED
    BY <1>1, <1>2, <2>1, Zenon DEF VotingInv, Asked, HasAsked
<1>. QED
  BY <1>1, <1>3, <1>4 DEF VotingInv, Inv

\* A mined block casts the vote its header carries; who joins was asked for.
LEMMA MineKeeps ==
  ASSUME VotingInv, NEW n \in Addresses, Mine(n)
  PROVE  /\ VotingInv'
         /\ \A b \in snap'.fullnodes \ snap.fullnodes : AskedByMajority(Candidate(b, TRUE))
<1>. DEFINE a == work[n].coinbase
            authorize == work[n].authorize
<1>1. /\ a \in Addresses /\ authorize \in BOOLEAN /\ (authorize => HasAsked(proposed, n, a))
      /\ ApplyHeader(n, a, authorize) /\ UNCHANGED <<candidates, proposed>>
      /\ work' = [k \in Addresses |-> NoWork]
  BY DEF Mine, VotingInv, VotingType, Asked
<1>. HIDE DEF a, authorize
<1>2. PICK c : /\ Good(c) /\ c.fullnodes = snap.fullnodes /\ snap' = resolve(c, a)
               /\ \A v \in c.votes : \/ v \in snap.votes
                                     \/ v.fullnode = n /\ v.address = a /\ v.authorize = authorize
  BY <1>1, CastVotes DEF VotingInv
<1>3. \A v \in c.votes : v.authorize => HasAsked(proposed, v.fullnode, v.address)
  BY <1>1, <1>2 DEF VotingInv, Asked
<1>4. snap'.votes \subseteq c.votes
  BY <1>1, <1>2, ResolveJoins
<1>5. \A k \in Addresses : NoWork \in [coinbase : Addresses, authorize : BOOLEAN,
                                       candidate : BOOLEAN, ready : BOOLEAN]
  BY DEF NoWork
<1>6. VotingInv'
  <2>1. Inv'
    BY <1>1, ApplyStep, Zenon DEF VotingInv
  <2>2. VotingType'
    BY <1>1, <1>5 DEF VotingInv, VotingType
  <2>3. \A k \in Addresses : ~work'[k].authorize
    BY <1>1 DEF NoWork
  <2>4. Asked'
    BY <1>1, <1>3, <1>4, <2>3, Zenon DEF VotingInv, Asked, HasAsked
  <2>. QED
    BY <2>1, <2>2, <2>4 DEF VotingInv
<1>7. ASSUME NEW b \in snap'.fullnodes \ snap.fullnodes
      PROVE  AskedByMajority(Candidate(b, TRUE))
  <2>. DEFINE askers == {k \in snap.fullnodes : Candidate(b, TRUE) \in proposed[k]}
  <2>1. b = a /\ passed(c, a) /\ c.tally[a].authorize
    BY <1>1, <1>2, ResolveJoins, Zenon
  <2>2. \A v \in VotesFor(c, a) : v.authorize /\ v.fullnode \in snap.fullnodes /\ v.address = a
    BY <1>1, <1>2, <2>1, Zenon DEF Good, CountsVotes, VotesStand, VotesFor
  <2>3. \A v \in VotesFor(c, a) : v.fullnode \in askers
    BY <1>3, <2>1, <2>2, Zenon DEF VotesFor, HasAsked
  <2>4. IsFiniteSet(snap.fullnodes)
    BY SnapshotAssumption, FS_Subset DEF VotingInv, Inv, Good, SnapshotType
  <2>5. IsFiniteSet(askers)
    BY <2>4, FS_Subset, Zenon
  <2>. HIDE DEF askers
  <2>6. Cardinality(VotesFor(c, a)) <= Cardinality(askers)
    BY <1>2, <2>3, <2>5, VotersOutnumberVotes
  <2>7. Cardinality(VotesFor(c, a)) > Cardinality(snap.fullnodes) \div 2
    BY <1>1, <1>2, <2>1, Zenon DEF passed, Good, CountsVotes
  <2>8. /\ Cardinality(VotesFor(c, a)) \in Nat /\ Cardinality(askers) \in Nat
        /\ Cardinality(snap.fullnodes) \in Nat
    BY <1>2, <2>4, <2>5, VotesForFinite, FS_CardinalityType, Zenon
  <2>9. 2 * Cardinality(askers) > Cardinality(snap.fullnodes)
    <3>. DEFINE x == Cardinality(VotesFor(c, a))
                y == Cardinality(askers)
                z == Cardinality(snap.fullnodes)
    <3>1. x \in Nat /\ y \in Nat /\ z \in Nat /\ x <= y /\ x > z \div 2
      BY <2>6, <2>7, <2>8
    <3>. HIDE DEF x, y, z
    <3>2. 2 * y > z
      BY <3>1
    <3>. QED
      BY <3>2 DEF y, z
  <2>. QED
    BY <2>9 DEF AskedByMajority, askers
<1>. QED
  BY <1>6, <1>7, Zenon

\* The genesis snapshot, with no candidates, satisfies the invariant.
LEMMA VotingInit == VInit => VotingInv
<1>. SUFFICES ASSUME VInit PROVE VotingInv
  OBVIOUS
<1>1. Inv
  BY InvInit DEF VInit
<1>2. \A k \in Addresses : NoWork \in [coinbase : Addresses, authorize : BOOLEAN,
                                       candidate : BOOLEAN, ready : BOOLEAN]
  BY DEF NoWork
<1>3. VotingType
  BY <1>2 DEF VInit, VotingType
<1>4. Asked
  BY DEF VInit, Init, newSnapshot, Asked, NoWork
<1>. QED
  BY <1>1, <1>3, <1>4 DEF VotingInv

\* Every proposal, withdrawal, preparation and header keeps the invariant.
LEMMA VotingStep == VotingInv /\ [VNext]_vars => VotingInv'
<1>. SUFFICES ASSUME VotingInv, [VNext]_vars PROVE VotingInv'
  OBVIOUS
<1>1. ASSUME NEW p \in Proposals, Discard(p.node, p.address)
      PROVE  VotingInv'
  <2>1. p.node \in Addresses
    BY VotingAssumption
  <2>2. candidates' = [candidates EXCEPT ![p.node] = {d \in @ : d.address # p.address}]
        /\ UNCHANGED <<snap, proposed, work>>
    BY <1>1 DEF Discard
  <2>3. \A k \in Addresses : candidates'[k] \subseteq candidates[k]
    BY <2>1, <2>2 DEF VotingInv, VotingType
  <2>4. VotingType'
    BY <2>1, <2>2 DEF VotingInv, VotingType
  <2>. QED
    BY <2>2, <2>3, <2>4, Zenon DEF VotingInv, Asked, HasAsked, Inv
<1>2. CASE UNCHANGED <<snap, candidates, proposed, work>>
  BY <1>2, Zenon DEF VotingInv, VotingType, Asked, HasAsked, Inv
<1>. QED
  BY <1>1, <1>2, ProposeKeeps, PrepareKeeps, MineKeeps, Zenon DEF VNext, Transfer, vars

\* With a mined block an account joins the fullnodes only if the operators of
\* more than half of them proposed it: no choice of Prepare, discarded
\* candidate, changed member or epoch reset leads another way into the set.
THEOREM JoinsAsked == VSpec => JoinsByProposal
<1>1. VotingInv /\ [VNext]_vars => [AskedForJoin]_vars
  BY MineKeeps, Zenon DEF AskedForJoin
<1>. QED
  BY <1>1, VotingInit, VotingStep, PTL DEF VSpec, JoinsByProposal
=============================================================================
