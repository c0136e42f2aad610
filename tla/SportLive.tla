------------------------------ MODULE SportLive ------------------------------
(***************************************************************************)
(* When a height ends.  SportCore lets messages wait forever and timers    *)
(* expire at any time; here messages arrive, timers expire and miners ask, *)
(* and MaxRound is the round from which on the network is timely: in it no *)
(* timer expires and no core asks for a later round.                       *)
(***************************************************************************)
EXTENDS SportCore

\* The blocks a peer can send: delivered or in a chain.
Offered ==
  {d.block : d \in delivered} \cup UNION {{chain[p][h] : h \in DOMAIN chain[p]} : p \in Cores}

\* handlePreprepare of a core whose Verify accepts the block.
HandleVerified(n, m) ==
  /\ m.code = "preprepare"
  /\ CommitLockedPreprepare(n, m) \/ RefuseUnlockedPreprepare(n, m) \/ AcceptPreprepare(n, m)

\* What a core does with what reaches it: the event loop takes one event after
\* the other, the backlog gives back what was early, the timer is armed in every
\* round, peers pass on blocks, and each miner asks once for a block of its own.
Steps == Codes \cup {"request", "insert", "timeout", "committed"}
Step(n, k) ==
  \/ k = "preprepare" /\ \E m \in msgs : HandleVerified(n, m)
  \/ k = "prepare" /\ \E m \in msgs : HandlePrepare(n, m)
  \/ k = "commit" /\ \E m \in msgs : HandleCommit(n, m)
  \/ k = "roundchange" /\ \E m \in msgs : HandleRoundChange(n, m)
  \/ k = "request" /\ pendingRequest[n] = NoBlock /\ \E b \in BoundedBlock : HandleRequest(n, b)
  \/ k = "insert" /\ \E b \in Offered : InsertBlock(n, b)
  \/ k = "timeout" /\ HandleTimeout(n)
  \/ k = "committed" /\ HandleFinalCommitted(n)

LiveSpec == Spec /\ \A n \in Cores, k \in Steps : WF_vars(Step(n, k))

------------------------------------------------------------------------------
Ended == \A n \in Cores : Len(chain[n]) >= MaxSequence

\* A core is locked on a block that the speaker of the last round is not locked
\* on: it refuses what the speaker proposes.
LockedApart ==
  \E n \in Cores :
    LET p == roundRobinSpeaker(N, LastSpeaker(chain[n]), MaxRound)
    IN  p \in Cores /\ lockedHash[n] # NoBlock /\ lockedHash[p] # lockedHash[n]

\* The speaker of the last round has proposed two blocks: handleRequest proposes
\* the miner's block although startNewRound has just proposed the locked or the
\* pending one, and the core handles its own proposal only later.
ProposedTwice ==
  \E m1, m2 \in msgs :
    /\ m1.code = "preprepare" /\ m2.code = "preprepare"
    /\ m1.round = MaxRound /\ m2.round = MaxRound
    /\ m1.seq = m2.seq /\ m1.digest # m2.digest

\* A height with a block to agree on ends whatever the earlier rounds left
\* behind: through lost rounds, half-collected votes and cores in different
\* rounds, the round changes bring the cores into the last round together, and
\* there they decide, unless one of them is locked against its speaker or the
\* speaker has proposed twice.
HeightEnds ==
  (\E n \in Cores : pendingRequest[n] # NoBlock) ~> Ended \/ LockedApart \/ ProposedTwice
=============================================================================
