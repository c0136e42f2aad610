------------------------------ MODULE MCVoting ------------------------------
(***************************************************************************)
(* Three fullnodes whose operators may propose to drop one of the three.   *)
(***************************************************************************)
EXTENDS Voting

Leave == {[node |-> n, address |-> 3, authorize |-> FALSE] : n \in 1..3}

UndatedVotes == {<<v.fullnode, v.address, v.authorize>> : v \in snap.votes}

UndatedView == <<snap.number, snap.fullnodes, snap.tally, UndatedVotes,
                 candidates, proposed, balance, work>>
=============================================================================
