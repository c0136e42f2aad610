------------------------------- MODULE Voting -------------------------------
(***************************************************************************)
(* Where the votes of the snapshot come from.  Operators propose and       *)
(* discard candidates over RPC (backend/api.go), the engine's Prepare puts *)
(* one of them into the header of the block under construction             *)
(* (backend_engine.go), and the block, once on the chain, is applied to    *)
(* the snapshot every node computes.                                       *)
(***************************************************************************)
EXTENDS Snapshot

CONSTANTS
  Proposals,    \* what operators may propose: [node, address, authorize]
  Payers        \* the accounts whose balance changes during the run

ASSUME VotingAssumption ==
  /\ Proposals \subseteq [node : Addresses, address : Addresses, authorize : BOOLEAN]
  /\ Payers \subseteq Addresses

\* Funds come in three sizes: below MinFunds wei, below MinFunds smilos
\* (MinFunds * 1e18 wei), and enough for both checks.
MinFundsWei == 1
MinFundsSmilo == 2
Balance == 0..2

VARIABLES
  candidates,   \* node -> the candidates its operator is pushing
  proposed,     \* node -> every candidate its operator ever proposed
  balance,      \* account -> its funds in the current state
  work          \* node -> the header under construction, or NoWork

vars == <<snap, candidates, proposed, balance, work>>

NoWork == [coinbase |-> CHOOSE a \in Addresses : TRUE, authorize |-> FALSE,
           candidate |-> FALSE, ready |-> FALSE]

Candidate(address, authorize) == [address |-> address, authorize |-> authorize]

VInit ==
  /\ Init
  /\ candidates = [n \in Addresses |-> {}]
  /\ proposed = [n \in Addresses |-> {}]
  /\ balance = [a \in Addresses |-> MinFundsSmilo]
  /\ work = [n \in Addresses |-> NoWork]

\* The candidates map holds one entry for each address.
Propose(p) ==
  LET c == Candidate(p.address, p.authorize)
  IN  /\ balance[p.address] >= MinFundsSmilo
      /\ candidates' = [candidates EXCEPT ![p.node] =
                          {d \in @ : d.address # p.address} \cup {c}]
      /\ proposed' = [proposed EXCEPT ![p.node] = @ \cup {c}]
      /\ UNCHANGED <<snap, balance, work>>

Discard(n, address) ==
  /\ candidates' = [candidates EXCEPT ![n] = {d \in @ : d.address # address}]
  /\ UNCHANGED <<snap, proposed, balance, work>>

\* The candidates whose vote would count and whose account has the funds
\* Prepare asks for.  A node whose core is not started skips the second check,
\* and does not seal the header either.
Electable(n) ==
  {c \in candidates[n] : /\ checkVote(snap, c.address, c.authorize)
                         /\ balance[c.address] >= MinFundsWei}

\* commitNewWork names the node's own account as coinbase, and Prepare clears
\* the nonce.  One of the electable candidates, if there is any, replaces
\* both.  The cleared nonce is nonceDropVote.
Prepare(n) ==
  /\ n \in snap.fullnodes
  /\ \/ /\ Electable(n) = {}
        /\ work' = [work EXCEPT ![n] =
             [coinbase |-> n, authorize |-> FALSE, candidate |-> FALSE,
              ready |-> TRUE]]
     \/ \E c \in Electable(n) :
          work' = [work EXCEPT ![n] =
             [coinbase |-> c.address, authorize |-> c.authorize,
              candidate |-> TRUE, ready |-> TRUE]]
  /\ UNCHANGED <<snap, candidates, proposed, balance>>

\* The block of n is sealed and becomes the head.  On a new head every node
\* drops the header it was working on.
Mine(n) ==
  /\ work[n].ready
  /\ ApplyHeader(n, work[n].coinbase, work[n].authorize)
  /\ work' = [k \in Addresses |-> NoWork]
  /\ UNCHANGED <<candidates, proposed, balance>>

\* Transactions move the funds of an account.
Transfer(a, amount) ==
  /\ balance[a] # amount
  /\ balance' = [balance EXCEPT ![a] = amount]
  /\ UNCHANGED <<snap, candidates, proposed, work>>

VNext ==
  \/ \E p \in Proposals : Propose(p)
  \/ \E p \in Proposals : Discard(p.node, p.address)
  \/ \E n \in Addresses : Prepare(n)
  \/ \E n \in Addresses : Mine(n)
  \/ \E a \in Payers, amount \in Balance : Transfer(a, amount)

VSpec == VInit /\ [][VNext]_vars

-----------------------------------------------------------------------------

\* More than half of the members have at some time asked their node for c.
AskedByMajority(c) ==
  2 * Cardinality({n \in snap.fullnodes : c \in proposed[n]})
    > Cardinality(snap.fullnodes)

\* Whoever joins with a block that a node mines was asked for by a majority.
AskedForJoin ==
  \A n \in Addresses : Mine(n) =>
    \A a \in snap'.fullnodes \ snap.fullnodes : AskedByMajority(Candidate(a, TRUE))

\* With a block that a node mines an account joins the set only if the operators
\* of more than half of the members proposed it: through the random choice of
\* Prepare, discarded candidates, changed members and epoch resets, no other
\* path leads into the set.
JoinsByProposal == [][AskedForJoin]_vars

\* The same for leaving the set, which "injects a new authorization candidate
\* that the fullnode will attempt to push through" (Propose) and "unused
\* fields, force to set to empty" (Prepare) suggest.
LeavesByProposal ==
  [][\A a \in snap.fullnodes \ snap'.fullnodes :
        AskedByMajority(Candidate(a, FALSE))]_vars
=============================================================================
