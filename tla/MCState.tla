------------------------------ MODULE MCState ------------------------------
(***************************************************************************)
(* What a node stores of the chain's state: the snapshot of fullnodes with *)
(* the votes that change it, the execution of a block, the accounts in     *)
(* memory, their tries, and the chain database.  A behaviour runs one of   *)
(* them, chosen at the start, so the state spaces add up.  The snapshot is *)
(* run twice: with any headers, and with those that nodes prepare.         *)
(***************************************************************************)
EXTENDS Voting, Transition, StateDB, TrieDatabase, ChainDB

CONSTANT OperatorBlocks   \* bound on the chain when nodes prepare the headers

VARIABLE part

\* Operators may propose to authorize a fourth account and to drop the third.
JoinAndLeave ==
  {[node |-> n, address |-> 4, authorize |-> TRUE] : n \in 1 .. 2}
    \cup {[node |-> 1, address |-> 3, authorize |-> FALSE],
          [node |-> 2, address |-> 4, authorize |-> FALSE]}

\* One node in the group of the private transactions, one outside of it, one
\* whose vault does not answer.
VaultOf(n) == CASE n = 1 -> "member" [] n = 2 -> "outsider" [] n = 3 -> "offline"

\* SmiloPay grows with the balance, its speed more slowly.
PayLimit(b) == 1 + b
PaySpeed(b) == 1 + b \div 2

\* Two states share an account whose storage another account shares.
NodeOrder == <<"s", "a", "b", "r1", "r2">>
InNode(n) == CASE n = "r1" -> {"a"} [] n = "r2" -> {"a", "b"} [] OTHER -> {}
OutOfNode(n) == IF n \in {"a", "b"} THEN {"s"} ELSE {}

\* Two branches from a1.  Block a2 changes no public state; the branches leave
\* different private states.
Parent(b) == CASE b = "a1" -> "g" [] b = "a2" -> "a1" [] b = "a3" -> "a2" [] b = "b2" -> "a1"
Height(b) == CASE b = "g" -> 0 [] b = "a1" -> 1 [] b \in {"a2", "b2"} -> 2 [] b = "a3" -> 3
EqualDifficulty(b) == 1
PublicRoot(b) == IF b = "a2" THEN "a1" ELSE b
PrivateRoot(b) == CASE b = "g" -> NoVault [] b = "b2" -> "w" [] OTHER -> "v"

StateInit ==
  /\ part \in {"headers", "operators", "transition", "statedb", "trie", "chain"}
  /\ VInit /\ TransitionInit /\ StateDBInit /\ TrieInit /\ ChainDBInit

StateNext ==
  /\ UNCHANGED part
  /\ \/ /\ part = "headers" /\ Next
        /\ UNCHANGED <<candidates, proposed, balance, work,
                       transitionVars, stateDBVars, trieVars, chainVars>>
     \/ /\ part = "operators" /\ VNext /\ snap'.number <= OperatorBlocks
        /\ UNCHANGED <<transitionVars, stateDBVars, trieVars, chainVars>>
     \/ /\ part = "transition" /\ TransitionNext
        /\ UNCHANGED <<vars, stateDBVars, trieVars, chainVars>>
     \/ /\ part = "statedb" /\ StateDBNext
        /\ UNCHANGED <<vars, transitionVars, trieVars, chainVars>>
     \/ /\ part = "trie" /\ TrieNext
        /\ UNCHANGED <<vars, transitionVars, stateDBVars, chainVars>>
     \/ /\ part = "chain" /\ ChainDBNext
        /\ UNCHANGED <<vars, transitionVars, stateDBVars, trieVars>>

StateSpec ==
  StateInit /\ [][StateNext]_<<part, vars, transitionVars, stateDBVars, trieVars, chainVars>>

\* The height a vote was cast at only orders the list; with one vote for each
\* fullnode and address no later step depends on it.
UndatedVotes == {<<v.fullnode, v.address, v.authorize>> : v \in snap.votes}
StateView ==
  <<part, snap.number, snap.fullnodes, snap.tally, UndatedVotes, candidates, proposed,
    balance, work, transitionVars, stateDBVars, trieVars, chainVars>>
=============================================================================
