---------------------------- MODULE FullnodeFunc ----------------------------
(***************************************************************************)
(* The pure functions of a fullnode set: the thresholds the consensus      *)
(* core compares its message counts with, and the round-robin choice of    *)
(* the speaker.  A fullnode is named by its index in the sorted set.       *)
(***************************************************************************)
EXTENDS Integers

CeilDiv(a, b) == (a + b - 1) \div b

\* math.Ceil(float64(size+1)/3) - 1
MaxFaulty(size) == CeilDiv(size + 1, 3) - 1

\* Mutant: integer division rounds down.
MinApproversFloor(size) == (2 * size) \div 3

\* math.Ceil(float64(2*size)/3)
MinApprovers(size) == CeilDiv(2 * size, 3)

\* The surplus over F that makes a weak certificate.
E == 1

\* Index standing for the empty address: the genesis block has no speaker.
EmptyAddress == -1

\* calcSeed: the last speaker's index moved on by the round.
calcSeed(offset, round) == offset + round

\* The index of the speaker of a round, given the index of the last
\* block's author (or EmptyAddress).
roundRobinSpeaker(size, offset, round) ==
  (IF offset = EmptyAddress THEN round ELSE calcSeed(offset, round) + 1) % size
=============================================================================
