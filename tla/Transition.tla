----------------------------- MODULE Transition ------------------------------
(***************************************************************************)
(* How the transactions of one block are executed: TransitionDb of package *)
(* core with its gas pool, called by the miner that builds the block and   *)
(* by every node that verifies it.  A vault (private) transaction is run   *)
(* only by the nodes whose vault has its payload.                          *)
(*                                                                         *)
(* All transactions have one sender.  What the EVM does to a contract is   *)
(* left out; how much gas it leaves, whether it fails and what it adds to  *)
(* the refund counter are inputs, the same on every node that runs it.     *)
(* The chain configuration is Smilo's: IsSmilo, IsGas and IsGasRefunded.   *)
(***************************************************************************)
EXTENDS Naturals, FiniteSets

CONSTANTS
  Nodes,        \* the nodes
  Builder,      \* the node that builds the block
  Vault(_),     \* what a node's vault is: "member", "outsider" or "offline"
  GasLimit,     \* gas limit of the block
  TxGas,        \* intrinsic gas of a transaction
  MaxGas,       \* bounds: gas of a transaction,
  MaxTxs,       \* transactions of the block,
  Funds         \* and coins and SmiloPay the sender has at first

ASSUME TransitionAssumption ==
  /\ Builder \in Nodes
  /\ \A n \in Nodes : Vault(n) \in {"member", "outsider", "offline"}
  /\ GasLimit \in Nat /\ TxGas \in Nat /\ MaxGas \in TxGas .. GasLimit
  /\ MaxTxs \in Nat /\ Funds \in Nat

VARIABLES
  world,      \* world[n]: public state and gas pool of node n in the block
  usedGas,    \* usedGas[n]: gas n counted for the block
  rejected    \* nodes on which a transaction of the block returned an error

transitionVars == <<world, usedGas, rejected>>

\* A transaction the pool lets through: a vault transaction has neither a gas
\* price nor a value.
Tx == {tx \in [nonce : 0 .. MaxTxs - 1, gas : TxGas .. MaxGas, price : 0 .. 1,
               value : 0 .. 1, vault : BOOLEAN, create : BOOLEAN] :
         tx.vault => tx.price = 0 /\ tx.value = 0}

\* What the EVM answers.  The payload of a vault transaction may be empty.
Outcome == [left : 0 .. MaxGas - TxGas, vmerr : BOOLEAN, refund : 0 .. 1,
            empty : BOOLEAN]

-----------------------------------------------------------------------------
(* The state transition, from the world of a node to a result.             *)

Done(w, used, failed) ==
  [ok |-> TRUE, world |-> w, used |-> used, failed |-> failed]

Fails(w) == [ok |-> FALSE, world |-> w, used |-> 0, failed |-> FALSE]

\* The checks of preCheck and buyGas.
CanBuyGas(w, tx) ==
  /\ tx.nonce = w.nonce
  /\ tx.gas * tx.price <= w.pay
  /\ tx.gas * tx.price <= w.sender
  /\ tx.gas <= w.pool

buyGas(w, tx) ==
  [w EXCEPT !.pool = @ - tx.gas, !.pay = @ - tx.gas * tx.price,
            !.sender = @ - tx.gas * tx.price]

\* The refund counter, capped to half of the used gas.
Refund(used, counter) == IF used \div 2 > counter THEN counter ELSE used \div 2

\* Mutant: the gas left is returned beside what was deposited for it.
refundGasWhole(w, tx, left, refund) ==
  [w EXCEPT !.sender = @ + tx.gas * tx.price,
            !.pool = @ + left + refund,
            !.coinbase = @ + (tx.gas - left - refund) * tx.price]

\* refundGas, and the fee of the coinbase that follows it.
refundGas(w, tx, left, refund) ==
  [w EXCEPT !.sender = @ + (left + refund) * tx.price,
            !.pool = @ + left + refund,
            !.coinbase = @ + (tx.gas - left - refund) * tx.price]

refundGasSmiloVersion(w, tx, left, refund) ==
  [w EXCEPT !.sender = @ + (tx.gas - left) * tx.price,
            !.pool = @ + left + refund]

\* Mutant: a node outside the group of a vault transaction skips it whole.
OutsideGroupSkips(w, b) == Done([b EXCEPT !.nonce = w.nonce], 0, FALSE)

\* A vault transaction on a node without its payload: only the nonce.
OutsideGroup(w, b) == Done([b EXCEPT !.nonce = w.nonce + 1], 0, FALSE)

\* The EVM ran, with gas left of what the intrinsic gas had left.
Executed(w, tx, out) ==
  LET left == IF tx.vault THEN tx.gas - TxGas ELSE out.left
      used == tx.gas - left
      refund == Refund(used, IF tx.vault THEN 0 ELSE out.refund)
      moved == [w EXCEPT !.sender = @ - tx.value, !.receiver = @ + tx.value]
  IN Done(IF out.vmerr THEN refundGas(w, tx, left, refund)
          ELSE refundGasSmiloVersion(moved, tx, left, refund),
          IF tx.vault THEN 0 ELSE used - refund,
          out.vmerr /\ ~tx.vault)

TransitionDb(w, vault, tx, out) ==
  LET b == buyGas(w, tx)
      counted == [b EXCEPT !.nonce = @ + 1]
  IN IF ~CanBuyGas(w, tx) THEN Fails(w)
     ELSE IF tx.vault /\ vault # "member" THEN OutsideGroup(w, b)
     ELSE IF tx.gas < TxGas \/ b.sender < tx.value THEN Fails(b)
     ELSE IF tx.vault /\ ~tx.create /\ out.empty
       THEN Done(refundGasSmiloVersion(counted, tx, tx.gas - TxGas, 0), 0, FALSE)
     ELSE Executed(counted, tx, out)

-----------------------------------------------------------------------------
(* The block.                                                              *)

TransitionInit ==
  /\ world = [n \in Nodes |-> [nonce |-> 0, sender |-> Funds, pay |-> Funds,
                               receiver |-> 0, coinbase |-> 0,
                               pool |-> GasLimit]]
  /\ usedGas = [n \in Nodes |-> 0]
  /\ rejected = {}

\* commitTransactions of the miner goes on while the pool has gas, and the pool
\* of transactions has seen to it that the sender could pay at the last block.
Offered(tx, out) ==
  /\ world[Builder].pool >= TxGas
  /\ tx.gas * tx.price + tx.value <= Funds
  /\ out.left <= tx.gas - TxGas

\* A transaction the builder executes without an error is part of the block,
\* and StateProcessor.Process executes it on the other nodes.
Include(tx, out) ==
  LET result == [n \in Nodes |-> TransitionDb(world[n], Vault(n), tx, out)]
      valid == {n \in Nodes \ rejected : result[n].ok}
  IN /\ Offered(tx, out)
     /\ result[Builder].ok
     /\ world' = [n \in Nodes |-> IF n \in valid THEN result[n].world
                                                  ELSE world[n]]
     /\ usedGas' = [n \in Nodes |-> IF n \in valid
                                      THEN usedGas[n] + result[n].used
                                      ELSE usedGas[n]]
     /\ rejected' = Nodes \ valid

\* A transaction that returns an error is left out of the block and the state
\* is reverted, but not the builder's gas pool.
LeaveOut(tx, out) ==
  LET result == TransitionDb(world[Builder], Vault(Builder), tx, out)
  IN /\ Offered(tx, out)
     /\ ~result.ok
     /\ world' = [world EXCEPT ![Builder].pool = result.world.pool]
     /\ UNCHANGED <<usedGas, rejected>>

TransitionNext ==
  \E tx \in Tx, out \in Outcome : Include(tx, out) \/ LeaveOut(tx, out)

TransitionSpec == TransitionInit /\ [][TransitionNext]_transitionVars

-----------------------------------------------------------------------------
(* What matters.                                                           *)

Coins(w) == w.sender + w.receiver + w.coinbase

\* Nodes inside and outside the group of a vault transaction, and nodes whose
\* vault is offline, have the same public state and count the same gas, so they
\* compute the same root and receipts for the block.
PublicStateAgrees ==
  \A m, n \in Nodes \ rejected :
    /\ [world[m] EXCEPT !.pool = 0] = [world[n] EXCEPT !.pool = 0]
    /\ usedGas[m] = usedGas[n]

\* Executing transactions makes no coins, and no gas: what the block used and
\* what its pool still has never exceed the gas limit of the header.
MakesNothing ==
  \A n \in Nodes : /\ Coins(world[n]) <= Funds
                   /\ usedGas[n] + world[n].pool <= GasLimit
==============================================================================
