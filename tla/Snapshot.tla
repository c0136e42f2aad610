------------------------------ MODULE Snapshot ------------------------------
(***************************************************************************)
(* The authorization snapshot: which fullnodes may author and seal blocks, *)
(* and how the votes carried by block headers change that set              *)
(* (consensus/sport/backend/snapshot.go).  Every header names its author,  *)
(* and through its coinbase and nonce votes to authorize or to drop an     *)
(* address.                                                                *)
(*                                                                         *)
(* A snapshot is a record.  Votes, a list in chronological order, is the   *)
(* set of its votes: a block adds at most one vote, so blockNum orders it. *)
(* Tally, a map, is total: an address without an entry reads as Go's zero  *)
(* value, and the code deletes an entry before its count would reach zero. *)
(***************************************************************************)
EXTENDS Integers, FiniteSets

CONSTANTS
  Addresses,    \* the accounts headers may name
  Genesis,      \* the fullnodes of the genesis header
  Epoch,        \* blocks after which the pending votes are reset
  MaxNumber     \* bound on the height of the chain

ASSUME SnapshotAssumption ==
  /\ IsFiniteSet(Addresses)
  /\ Genesis \subseteq Addresses
  /\ Epoch \in Nat \ {0}
  /\ MaxNumber \in Nat

VARIABLE snap

Vote == [fullnode : Addresses, blockNum : Nat, address : Addresses,
         authorize : BOOLEAN]

Tally == [authorize : BOOLEAN, votes : Nat]

NoTally == [authorize |-> FALSE, votes |-> 0]

newSnapshot == [number |-> 0, fullnodes |-> Genesis, votes |-> {},
                tally |-> [a \in Addresses |-> NoTally]]

\* A vote is meaningful when it would change the set.
checkVote(s, address, authorize) == authorize <=> address \notin s.fullnodes

\* Count one more vote for the address, in its tally or in a new one.
castTally(tally, address, authorize) ==
  LET old == tally[address]
  IN  [tally EXCEPT ![address] =
         IF old.votes > 0
         THEN [authorize |-> old.authorize, votes |-> old.votes + 1]
         ELSE [authorize |-> authorize, votes |-> 1]]

\* uncast, once for each of the votes: a vote that the tally counted is taken
\* back, and an exhausted tally is deleted.
uncastAll(tally, votes) ==
  [a \in Addresses |->
     LET counted == Cardinality({v \in votes :
                       v.address = a /\ v.authorize = tally[a].authorize})
     IN  IF counted < tally[a].votes
         THEN [tally[a] EXCEPT !.votes = @ - counted]
         ELSE NoTally]

\* Remove any votes on checkpoint blocks.
resetAtEpoch(s) ==
  IF s.number % Epoch = 0
  THEN [s EXCEPT !.votes = {}, !.tally = [a \in Addresses |-> NoTally]]
  ELSE s

\* The mutant of discardPrevious that takes the vote off the list only.
discardFromList(s, fullnode, address) ==
  [s EXCEPT !.votes = {v \in @ : v.fullnode # fullnode \/ v.address # address}]

\* Discard the first previous vote of the fullnode on the address.
discardPrevious(s, fullnode, address) ==
  LET same  == {v \in s.votes : v.fullnode = fullnode /\ v.address = address}
      first == {v \in same : \A w \in same : v.blockNum <= w.blockNum}
  IN  [s EXCEPT !.votes = @ \ first, !.tally = uncastAll(@, first)]

castVote(s, fullnode, address, authorize) ==
  IF checkVote(s, address, authorize)
  THEN [s EXCEPT
          !.tally = castTally(@, address, authorize),
          !.votes = @ \cup {[fullnode |-> fullnode, blockNum |-> s.number,
                             address |-> address, authorize |-> authorize]}]
  ELSE s

\* The mutant of dropFullnode that leaves the votes of the dropped fullnode.
dropFullnodeOnly(s, address) == [s EXCEPT !.fullnodes = @ \ {address}]

\* Discard any previous votes the deauthorized fullnode cast.
dropFullnode(s, address) ==
  LET own == {v \in s.votes : v.fullnode = address}
  IN  [s EXCEPT !.fullnodes = @ \ {address}, !.votes = @ \ own,
                !.tally = uncastAll(@, own)]

\* The mutant of passed that settles a tie.
passedOnTie(s, address) ==
  /\ s.tally[address].votes > 0
  /\ s.tally[address].votes >= Cardinality(s.fullnodes) \div 2

passed(s, address) == s.tally[address].votes > Cardinality(s.fullnodes) \div 2

\* If the vote passed, update the set and discard the votes around the just
\* changed account.
resolve(s, address) ==
  IF passed(s, address)
  THEN LET changed == IF s.tally[address].authorize
                      THEN [s EXCEPT !.fullnodes = @ \cup {address}]
                      ELSE dropFullnode(s, address)
       IN  [changed EXCEPT
              !.votes = {v \in @ : v.address # address},
              !.tally[address] = NoTally]
  ELSE s

\* apply, for one header.  A batch is applied header by header.
apply(s, fullnode, coinbase, authorize) ==
  LET numbered  == [s EXCEPT !.number = @ + 1]
      discarded == discardPrevious(resetAtEpoch(numbered), fullnode, coinbase)
  IN  resolve(castVote(discarded, fullnode, coinbase, authorize), coinbase)

-----------------------------------------------------------------------------

Init == snap = newSnapshot

\* A block joins the chain.  Headers whose author is not in the parent's set
\* are refused with errUnauthorized, and the bound ends the chain.
ApplyHeader(fullnode, coinbase, authorize) ==
  /\ snap.number < MaxNumber
  /\ fullnode \in snap.fullnodes
  /\ snap' = apply(snap, fullnode, coinbase, authorize)

Next ==
  \E f \in snap.fullnodes, a \in Addresses, authorize \in BOOLEAN :
    ApplyHeader(f, a, authorize)

Spec == Init /\ [][Next]_snap

-----------------------------------------------------------------------------

VotesFor(s, a) == {v \in s.votes : v.address = a}

CountsVotes(s) ==
  \A a \in Addresses :
    /\ s.tally[a].votes = Cardinality(VotesFor(s, a))
    /\ \A v \in VotesFor(s, a) : v.authorize = s.tally[a].authorize

OneVoteEach(s) ==
  \A v, w \in s.votes :
    v.fullnode = w.fullnode /\ v.address = w.address => v = w

VotesStand(s) ==
  \A v \in s.votes :
    v.fullnode \in s.fullnodes /\ checkVote(s, v.address, v.authorize)

\* No entry of the map has counted down to zero without being deleted.
Deleted(tally) == tally.votes = 0 => tally = NoTally

NoEmptyTally(s) == \A a \in Addresses : Deleted(s.tally[a])

\* The snapshot has its type, and uncast deletes a tally it has emptied.
TypeOK ==
  /\ snap \in [number : 0..MaxNumber, fullnodes : SUBSET Addresses,
               votes : SUBSET Vote, tally : [Addresses -> Tally]]
  /\ NoEmptyTally(snap)

\* The cached tally, kept "to avoid recalculating" through casts, uncasts,
\* resets and dropped members, is what counting the list would give.
TallyCountsVotes == CountsVotes(snap)

\* Only one vote allowed: apply leaves no fullnode two votes on one address.
OneVotePerAddress == OneVoteEach(snap)

\* A vote stands only while its voter is a fullnode and while it would still
\* change the set: a member dropped by apply leaves no vote behind, and
\* neither does an account that was just authorized or dropped.
StandingVotes == VotesStand(snap)

\* The fullnodes whose vote on a stands when the next header is tallied.
Supporters(s, a) ==
  IF (s.number + 1) % Epoch = 0 THEN {}
  ELSE {v.fullnode : v \in VotesFor(s, a)}

\* The set changes only by majority: when apply adds or drops an address, the
\* members whose vote for just that change stands, with the author of the
\* header, are more than half of the members before the change.
MajorityRules ==
  [][snap'.fullnodes # snap.fullnodes =>
       \E a \in Addresses, f \in snap.fullnodes :
         LET voters == Supporters(snap, a) \cup {f}
         IN  /\ snap'.fullnodes \in {snap.fullnodes \cup {a},
                                     snap.fullnodes \ {a}}
             /\ voters \subseteq snap.fullnodes
             /\ 2 * Cardinality(voters) > Cardinality(snap.fullnodes)]_snap
=============================================================================
