-------------------------- MODULE SportVotesProofs --------------------------
(***************************************************************************)
(* What the votes of the cores amount to: one PREPARE in a view, a lock    *)
(* that rests on the votes of a quorum in one view, and a quorum of ROUND  *)
(* CHANGEs that always starts the round.  Nothing here depends on how the  *)
(* blocks come to the chains, so the cores may use the downloader.         *)
(***************************************************************************)
EXTENDS SportCoreProofs

\* The core has accepted a proposal in view <<s, r>>, or has gone past it.
Past(n, s, r) ==
  \/ s < sequence[n]
  \/ /\ s = sequence[n]
     /\ \/ r < round[n]
        \/ r = round[n] /\ state[n] # "AcceptRequest" /\ ~waitingForRoundChange[n]

\* A core has left behind the views it sent a PREPARE in.
PrepareInv == \A m \in msgs : m.code = "prepare" => Past(m.src, m.seq, m.round)

\* The fullnodes that have voted for b in view <<s, r>> with the messages ms.  A
\* fullnode outside the model may vote for anything.
Voters(ms, s, r, b) ==
  (Fullnodes \ Cores) \cup
  {m.src : m \in {v \in ms : /\ v.code \in {"prepare", "commit"}
                             /\ v.seq = s /\ v.round = r /\ v.digest = b}}

\* The PREPAREs and COMMITs a core has collected are votes for its proposal in
\* its view, with one COMMIT from each sender.
VotesInv ==
  \A n \in Cores :
    /\ prepares[n] \subseteq Voters(msgs, sequence[n], round[n], preprepare[n])
    /\ \A c \in commits[n] : c.src \in Voters(msgs, sequence[n], round[n], preprepare[n])
    /\ \A c, d \in commits[n] : c.src = d.src => c = d

VoteInd ==
  CoreInd /\ PrepareInv /\ OnePreparePerView /\ VotesInv /\ LockedOnProposal /\ LockCertified

-----------------------------------------------------------------------------
(* Votes.                                                                  *)

\* LockCertified speaks of the voters, before and after a step.
LEMMA LockCertifiedVoters ==
  /\ LockCertified <=>
       \A n \in Cores : lockedHash[n] # NoBlock =>
         \E r \in 0 .. round[n] :
           Cardinality(Voters(msgs, sequence[n], r, lockedHash[n])) >= Quorum
  /\ LockCertified' <=>
       \A n \in Cores : lockedHash'[n] # NoBlock =>
         \E r \in 0 .. round'[n] :
           Cardinality(Voters(msgs', sequence'[n], r, lockedHash'[n])) >= Quorum
  BY Zenon DEF LockCertified, Voters

\* The number of fullnodes a quorum needs.
LEMMA QuorumType == Quorum \in Nat /\ Quorum > 0
  BY NAssumption DEF Quorum, MinApprovers, CeilDiv

\* The voters are fullnodes, and votes are never taken back.
LEMMA VotersGrow ==
  ASSUME TypeOK', msgs \subseteq msgs', NEW s, NEW r, NEW b
  PROVE  /\ Voters(msgs, s, r, b) \subseteq Voters(msgs', s, r, b)
         /\ Voters(msgs', s, r, b) \subseteq Fullnodes
<1>1. \A m \in msgs' : m.src \in Fullnodes
  BY DEF TypeOK, Message
<1>. QED
  BY <1>1 DEF Voters

\* A larger set of fullnodes is no less of a quorum.
LEMMA QuorumGrows ==
  ASSUME NEW A, NEW B \in SUBSET Fullnodes, A \subseteq B, Cardinality(A) >= Quorum
  PROVE  Cardinality(B) >= Quorum
<1>1. IsFiniteSet(B)
  BY FullnodesFinite, FS_Subset
<1>2. IsFiniteSet(A) /\ Cardinality(A) <= Cardinality(B)
  BY <1>1, FS_Subset
<1>3. Cardinality(A) \in Nat /\ Cardinality(B) \in Nat
  BY <1>1, <1>2, FS_CardinalityType
<1>. QED
  BY <1>2, <1>3, QuorumType

\* COMMITs from different senders are as many as their senders.
LEMMA SendersCount ==
  ASSUME NEW cs \in SUBSET Commit, \A c, d \in cs : c.src = d.src => c = d,
         Cardinality(cs) >= Quorum
  PROVE  Cardinality(Senders(cs)) >= Quorum
<1>. DEFINE f == [c \in cs |-> c.src]
<1>1. f \in Injection(cs, Senders(cs))
  BY DEF Injection, IsInjective, Senders
<1>2. IsFiniteSet(Senders(cs))
  BY FullnodesFinite, FS_Subset DEF Senders, Commit
<1>3. Cardinality(cs) <= Cardinality(Senders(cs)) /\ IsFiniteSet(cs)
  BY <1>1, <1>2, FS_Injection
<1>4. Cardinality(cs) \in Nat /\ Cardinality(Senders(cs)) \in Nat
  BY <1>2, <1>3, FS_CardinalityType
<1>. QED
  BY <1>3, <1>4, QuorumType

-----------------------------------------------------------------------------
(* Every step keeps the invariant.                                         *)

\* What a step of n leaves alone of the other cores.
OthersKept(n) ==
  \A k \in Cores : k # n =>
    /\ sequence'[k] = sequence[k] /\ round'[k] = round[k] /\ state'[k] = state[k]
    /\ waitingForRoundChange'[k] = waitingForRoundChange[k]
    /\ preprepare'[k] = preprepare[k] /\ lockedHash'[k] = lockedHash[k]
    /\ prepares'[k] = prepares[k] /\ commits'[k] = commits[k]

\* The core is not back in a view in which it has accepted a proposal.
ViewKept(n) ==
  \/ sequence'[n] > sequence[n]
  \/ sequence'[n] = sequence[n] /\ round'[n] > round[n]
  \/ /\ sequence'[n] = sequence[n] /\ round'[n] = round[n]
     /\ \/ waitingForRoundChange[n] \/ state[n] = "AcceptRequest"
        \/ state'[n] # "AcceptRequest" /\ ~waitingForRoundChange'[n]

\* The votes are dropped, or they stay with the view and the proposal.
VotesKept(n) ==
  \/ prepares'[n] = {} /\ commits'[n] = {}
  \/ /\ prepares'[n] = prepares[n] /\ commits'[n] = commits[n]
     /\ sequence'[n] = sequence[n] /\ round'[n] = round[n] /\ preprepare'[n] = preprepare[n]

\* So is the lock, with the proposal.
LockKept(n) ==
  \/ lockedHash'[n] = NoBlock
  \/ /\ lockedHash'[n] = lockedHash[n]
     /\ sequence'[n] = sequence[n] /\ round'[n] >= round[n]
     /\ preprepare'[n] = preprepare[n] \/ preprepare'[n] = lockedHash[n] \/ ~IsHashLocked(n)

\* A core stays past the views it has passed.
LEMMA PastKept ==
  ASSUME TypeOK, TypeOK', NEW n \in Cores, NEW k \in Cores, OthersKept(n), ViewKept(n),
         NEW s \in Nat, NEW r \in Nat, Past(k, s, r)
  PROVE  Past(k, s, r)'
<1>1. CASE k # n
  BY <1>1 DEF OthersKept, Past
<1>2. CASE k = n
  <2>1. /\ sequence[n] \in Nat /\ sequence'[n] \in Nat
        /\ round[n] \in Nat /\ round'[n] \in Nat
    BY DEF TypeOK
  <2>. QED
    BY <1>2, <2>1 DEF ViewKept, Past
<1>. QED
  BY <1>1, <1>2

\* A vote stays with the core's view and proposal.
LEMMA VotesFrame ==
  ASSUME VoteInd, TypeOK', NEW n \in Cores, NEW k \in Cores,
         msgs \subseteq msgs', OthersKept(n), k # n \/ VotesKept(n)
  PROVE  /\ prepares'[k] \subseteq Voters(msgs', sequence'[k], round'[k], preprepare'[k])
         /\ \A c \in commits'[k] : c.src \in Voters(msgs', sequence'[k], round'[k], preprepare'[k])
         /\ \A c, d \in commits'[k] : c.src = d.src => c = d
<1>1. CASE prepares'[k] = {} /\ commits'[k] = {}
  BY <1>1
<1>2. CASE /\ prepares'[k] = prepares[k] /\ commits'[k] = commits[k]
           /\ sequence'[k] = sequence[k] /\ round'[k] = round[k] /\ preprepare'[k] = preprepare[k]
  <2>1. Voters(msgs, sequence[k], round[k], preprepare[k])
          \subseteq Voters(msgs', sequence'[k], round'[k], preprepare'[k])
    BY <1>2, VotersGrow
  <2>. QED
    BY <1>2, <2>1 DEF VoteInd, VotesInv
<1>. QED
  BY <1>1, <1>2 DEF OthersKept, VotesKept

\* A lock stays certified.
LEMMA LockFrame ==
  ASSUME VoteInd, TypeOK', NEW n \in Cores, NEW k \in Cores,
         msgs \subseteq msgs', OthersKept(n), k # n \/ LockKept(n), lockedHash'[k] # NoBlock
  PROVE  \E r \in 0 .. round'[k] :
           Cardinality(Voters(msgs', sequence'[k], r, lockedHash'[k])) >= Quorum
<1>1. /\ lockedHash'[k] = lockedHash[k] /\ sequence'[k] = sequence[k] /\ round'[k] >= round[k]
      /\ round[k] \in Nat /\ round'[k] \in Nat
  BY DEF OthersKept, LockKept, VoteInd, CoreInd, TypeOK
<1>2. PICK r \in 0 .. round[k] : Cardinality(Voters(msgs, sequence[k], r, lockedHash[k])) >= Quorum
  BY <1>1, LockCertifiedVoters DEF VoteInd
<1>3. Cardinality(Voters(msgs', sequence[k], r, lockedHash[k])) >= Quorum
  BY <1>2, VotersGrow, QuorumGrows
<1>4. r \in 0 .. round'[k]
  BY <1>1
<1>. QED
  BY <1>1, <1>3, <1>4

\* A step of n that sends no PREPARE keeps the first part of the invariant.
LEMMA PrepareFrame ==
  ASSUME VoteInd, TypeOK', NEW n \in Cores, OthersKept(n), ViewKept(n),
         \A m \in msgs' : m \in msgs \/ m.code # "prepare"
  PROVE  PrepareInv' /\ OnePreparePerView'
<1>1. \A m \in msgs : m.src \in Cores /\ m.seq \in Nat /\ m.round \in Nat
  BY DEF VoteInd, CoreInd, MessagesInv, TypeOK, Message
<1>2. TypeOK
  BY DEF VoteInd, CoreInd
<1>3. ASSUME NEW m \in msgs', m.code = "prepare"
      PROVE  Past(m.src, m.seq, m.round)'
  <2>1. m \in msgs /\ Past(m.src, m.seq, m.round)
    BY <1>3 DEF VoteInd, PrepareInv
  <2>2. m.src \in Cores /\ m.seq \in Nat /\ m.round \in Nat
    BY <1>1, <2>1
  <2>. QED
    BY <1>2, <2>1, <2>2, PastKept
<1>4. PrepareInv'
  BY <1>3 DEF PrepareInv
<1>5. OnePreparePerView'
  BY DEF VoteInd, OnePreparePerView
<1>. QED
  BY <1>4, <1>5

\* A step of n that sends no PREPARE, collects no vote and takes no lock.
LEMMA VoteFrame ==
  ASSUME VoteInd, CoreInd', NEW n \in Cores, OthersKept(n), ViewKept(n), VotesKept(n), LockKept(n),
         msgs \subseteq msgs', \A m \in msgs' : m \in msgs \/ m.code # "prepare",
         \A k \in Cores : badBlocks[k] \subseteq badBlocks'[k]
  PROVE  VoteInd'
<1>1. TypeOK'
  BY DEF CoreInd
<1>2. PrepareInv' /\ OnePreparePerView'
  BY <1>1, PrepareFrame
<1>3. VotesInv'
  BY <1>1, VotesFrame DEF VotesInv
<1>4. LockCertified'
  BY <1>1, LockFrame, LockCertifiedVoters
<1>5. LockedOnProposal'
  BY DEF VoteInd, LockedOnProposal, IsHashLocked, OthersKept, LockKept
<1>. QED
  BY <1>2, <1>3, <1>4, <1>5 DEF VoteInd

\* A step that leaves the cores alone.
LEMMA IdleVotes ==
  ASSUME VoteInd, CoreInd', UNCHANGED <<state, current, waitingForRoundChange>>, msgs \subseteq msgs',
         \A m \in msgs' : m \in msgs \/ m.code # "prepare",
         \A k \in Cores : badBlocks[k] \subseteq badBlocks'[k]
  PROVE  VoteInd'
<1>1. ASSUME NEW n \in Cores
      PROVE  VoteInd'
  <2>1. round[n] \in Nat
    BY DEF VoteInd, CoreInd, TypeOK
  <2>2. OthersKept(n) /\ VotesKept(n) /\ ViewKept(n) /\ LockKept(n)
    BY <2>1 DEF OthersKept, VotesKept, ViewKept, LockKept, current
  <2>. QED
    BY <2>2, VoteFrame
<1>2. CASE Cores = {}
  <2>1. msgs = {} /\ msgs' = {}
    BY <1>2 DEF VoteInd, CoreInd, MessagesInv
  <2>. QED
    BY <1>2, <2>1 DEF VoteInd, PrepareInv, OnePreparePerView, VotesInv, LockedOnProposal, LockCertified
<1>. QED
  BY <1>1, <1>2

\* A round change drops the votes, and keeps the lock with the proposal or drops both.
LEMMA SendRoundChangeVotes ==
  ASSUME VoteInd, CoreInd', NEW n \in Cores, NEW r \in Nat, NEW rcs, NEW locked,
         SendRoundChange(n, r, rcs, locked), UNCHANGED chainVars,
         UNCHANGED state \/ state' = [state EXCEPT ![n] = "Committed"]
  PROVE  VoteInd'
<1>. USE DEF VoteInd, CoreInd, TypeOK
<1>1. /\ round' = [round EXCEPT ![n] = r] /\ r > round[n] /\ UNCHANGED <<sequence, badBlocks>>
      /\ waitingForRoundChange' = [waitingForRoundChange EXCEPT ![n] = TRUE]
  BY DEF SendRoundChange, UpdateRoundState, chainVars
<1>2. OthersKept(n)
  BY DEF OthersKept, SendRoundChange, UpdateRoundState
<1>3. ViewKept(n)
  BY <1>1 DEF ViewKept
<1>4. VotesKept(n)
  BY DEF VotesKept, SendRoundChange, UpdateRoundState
<1>5. LockKept(n)
  <2>1. /\ lockedHash'[n] = NoBlock \/ (lockedHash'[n] = lockedHash[n] /\ preprepare'[n] = preprepare[n])
        /\ round'[n] = r /\ sequence'[n] = sequence[n] /\ round[n] \in Nat
    BY DEF SendRoundChange, UpdateRoundState
  <2>. QED
    BY <1>1, <2>1 DEF LockKept
<1>6. msgs \subseteq msgs' /\ \A m \in msgs' : m \in msgs \/ m.code # "prepare"
  BY DEF SendRoundChange, Broadcast, RoundChange
<1>. HIDE DEF VoteInd, CoreInd
<1>. QED
  BY <1>1, <1>2, <1>3, <1>4, <1>5, <1>6, VoteFrame

\* A new sequence starts without votes and without a lock.
LEMMA StartNewSequenceVotes ==
  ASSUME VoteInd, CoreInd', NEW n \in Cores, StartNewSequence(n)
  PROVE  VoteInd'
<1>. USE DEF VoteInd, CoreInd, TypeOK
<1>1. UNCHANGED <<msgs, badBlocks>>
  BY DEF StartNewSequence, chainVars
<1>2. OthersKept(n) /\ VotesKept(n) /\ LockKept(n)
  BY DEF OthersKept, VotesKept, LockKept, StartNewSequence, UpdateRoundState
<1>3. ViewKept(n)
  BY DEF ViewKept, StartNewSequence
<1>. HIDE DEF VoteInd, CoreInd
<1>. QED
  BY <1>1, <1>2, <1>3, VoteFrame

\* A new round of the sequence is a later one, or the one the core waits for.
LEMMA StartNextRoundVotes ==
  ASSUME VoteInd, CoreInd', NEW n \in Cores, NEW r \in Nat, StartNextRound(n, r),
         waitingForRoundChange[n] \/ round[n] < r
  PROVE  VoteInd'
<1>. USE DEF VoteInd, CoreInd, TypeOK
<1>1. /\ UNCHANGED <<sequence, badBlocks>> /\ round' = [round EXCEPT ![n] = r] /\ r >= round[n]
      /\ round[n] \in Nat
  BY DEF StartNextRound, UpdateRoundState, chainVars
<1>2. OthersKept(n) /\ VotesKept(n)
  BY ZenonT(30) DEF OthersKept, VotesKept, StartNextRound, UpdateRoundState
<1>3. ViewKept(n)
  BY <1>1 DEF ViewKept
<1>4. LockKept(n)
  <2>1. /\ lockedHash'[n] = NoBlock \/ (lockedHash'[n] = lockedHash[n] /\ preprepare'[n] = preprepare[n])
        /\ round'[n] = r /\ sequence'[n] = sequence[n]
    BY Zenon DEF StartNextRound, UpdateRoundState
  <2>. QED
    BY <1>1, <2>1, Zenon DEF LockKept
<1>5. msgs \subseteq msgs' /\ \A m \in msgs' : m \in msgs \/ m.code # "prepare"
  BY DEF StartNextRound, Broadcast, Preprepare
<1>. HIDE DEF VoteInd, CoreInd
<1>. QED
  BY <1>1, <1>2, <1>3, <1>4, <1>5, VoteFrame

\* COMMITting the locked proposal at once takes no vote and no lock.
LEMMA CommitLockedPreprepareVotes ==
  ASSUME VoteInd, CoreInd', NEW n \in Cores, NEW m, CommitLockedPreprepare(n, m)
  PROVE  VoteInd'
<1>. USE DEF VoteInd, CoreInd, TypeOK
<1>1. /\ state[n] = "AcceptRequest" /\ m.digest = lockedHash[n] /\ round[n] \in Nat
      /\ preprepare' = [preprepare EXCEPT ![n] = m.digest]
      /\ state' = [state EXCEPT ![n] = "Prepared"]
      /\ UNCHANGED <<sequence, round, prepares, commits, lockedHash, waitingForRoundChange, badBlocks>>
  BY Zenon DEF CommitLockedPreprepare, chainVars
<1>2. prepares[n] = {} /\ commits[n] = {}
  BY <1>1, Zenon DEF NoVotesInv
<1>3. OthersKept(n) /\ ViewKept(n) /\ VotesKept(n) /\ LockKept(n)
  <2>1. preprepare'[n] = m.digest /\ \A k \in Cores : k # n => preprepare'[k] = preprepare[k]
    BY <1>1, Zenon
  <2>2. \A k \in Cores : k # n => state'[k] = state[k]
    BY <1>1, Zenon
  <2>3. round'[n] >= round[n]
    BY <1>1
  <2>. HIDE DEF VoteInd, CoreInd, TypeOK
  <2>4. OthersKept(n)
    BY Zenon, <1>1, <2>1, <2>2 DEF OthersKept
  <2>5. ViewKept(n) /\ VotesKept(n)
    BY Zenon, <1>1, <1>2 DEF ViewKept, VotesKept
  <2>6. LockKept(n)
    BY Zenon, <1>1, <2>1, <2>3 DEF LockKept
  <2>. QED
    BY <2>4, <2>5, <2>6, Zenon
<1>4. msgs \subseteq msgs' /\ \A k \in msgs' : k \in msgs \/ k.code # "prepare"
  <2>. DEFINE c == CommitMsg(n, sequence[n], round[n], m.digest, m.digest)
  <2>. HIDE DEF VoteInd, CoreInd, TypeOK
  <2>1. c.code # "prepare"
    BY Zenon DEF CommitMsg
  <2>2. msgs' = msgs \cup {c}
    BY Zenon DEF CommitLockedPreprepare, BroadcastCommit, Broadcast
  <2>. HIDE DEF c
  <2>. QED
    BY ONLY <2>1, <2>2, Zenon
<1>. HIDE DEF VoteInd, CoreInd
<1>. QED
  BY <1>1, <1>3, <1>4, VoteFrame, Zenon

\* A core that accepts a proposal has sent no PREPARE in this view yet, and is
\* past it afterwards.
LEMMA AcceptPreprepareVotes ==
  ASSUME VoteInd, CoreInd', NEW n \in Cores, NEW m, m.code = "preprepare", AcceptPreprepare(n, m)
  PROVE  VoteInd'
<1>. USE DEF VoteInd, CoreInd, TypeOK
<1>1. /\ state[n] = "AcceptRequest" /\ round[n] \in Nat /\ sequence[n] \in Nat
      /\ preprepare' = [preprepare EXCEPT ![n] = m.digest] /\ ~IsHashLocked(n)
      /\ state' = [state EXCEPT ![n] = "Preprepared"] /\ ~waitingForRoundChange[n]
      /\ UNCHANGED <<sequence, round, prepares, commits, lockedHash, waitingForRoundChange, badBlocks>>
  BY Zenon DEF AcceptPreprepare, CheckMessage, chainVars
<1>2. prepares[n] = {} /\ commits[n] = {}
  BY <1>1, Zenon DEF NoVotesInv
<1>3. OthersKept(n) /\ ViewKept(n) /\ VotesKept(n) /\ LockKept(n)
  <2>1. preprepare'[n] = m.digest /\ \A k \in Cores : k # n => preprepare'[k] = preprepare[k]
    BY <1>1, Zenon
  <2>2. \A k \in Cores : k # n => state'[k] = state[k]
    BY <1>1, Zenon
  <2>3. round'[n] >= round[n]
    BY <1>1
  <2>. HIDE DEF VoteInd, CoreInd, TypeOK
  <2>4. OthersKept(n)
    BY Zenon, <1>1, <2>1, <2>2 DEF OthersKept
  <2>5. ViewKept(n) /\ VotesKept(n)
    BY Zenon, <1>1, <1>2 DEF ViewKept, VotesKept
  <2>6. LockKept(n)
    BY Zenon, <1>1, <2>1, <2>3 DEF LockKept
  <2>. QED
    BY <2>4, <2>5, <2>6, Zenon
<1>4. PICK p : /\ msgs' = msgs \cup {p} /\ p.code = "prepare"
               /\ p.src = n /\ p.seq = sequence[n] /\ p.round = round[n]
  <2>. DEFINE q == Prepare(n, sequence[n], round[n], m.digest)
  <2>1. q.code = "prepare" /\ q.src = n /\ q.seq = sequence[n] /\ q.round = round[n]
    BY Zenon DEF Prepare
  <2>2. msgs' = msgs \cup {q}
    BY Zenon DEF AcceptPreprepare, Broadcast
  <2>. HIDE DEF q
  <2>. QED
    BY <2>1, <2>2, Zenon
<1>5. \A k \in msgs : k.src \in Cores /\ k.seq \in Nat /\ k.round \in Nat
  BY Zenon DEF MessagesInv, Message
<1>6. sequence'[n] = sequence[n] /\ round'[n] = round[n] /\ state'[n] = "Preprepared"
      /\ ~waitingForRoundChange'[n]
  BY <1>1, Zenon
<1>. HIDE DEF VoteInd, CoreInd, TypeOK
<1>7. TypeOK /\ TypeOK'
  BY Zenon DEF VoteInd, CoreInd
<1>8. PrepareInv'
  <2>1. ASSUME NEW k \in msgs, k.code = "prepare"
        PROVE  Past(k.src, k.seq, k.round)'
    BY <1>3, <1>5, <1>7, <2>1, PastKept, Zenon DEF VoteInd, PrepareInv
  <2>2. Past(p.src, p.seq, p.round)'
    BY <1>4, <1>6, Zenon DEF Past
  <2>. QED
    BY <1>4, <2>1, <2>2, Zenon DEF PrepareInv
<1>9. ASSUME NEW k \in msgs, k.code = "prepare", k.src = n, k.seq = sequence[n]
      PROVE  k.round # round[n]
  <2>1. Past(n, sequence[n], k.round)
    BY <1>9, Zenon DEF VoteInd, PrepareInv
  <2>. QED
    BY <1>1, <2>1 DEF Past
<1>10. OnePreparePerView'
  <2>. SUFFICES ASSUME NEW m1 \in msgs', NEW m2 \in msgs', m1.code = "prepare", m2.code = "prepare",
                       m1.src = m2.src, m1.seq = m2.seq, m1.round = m2.round
                PROVE  m1.digest = m2.digest
    BY Zenon DEF OnePreparePerView
  <2>1. CASE m1 \in msgs /\ m2 \in msgs
    BY <2>1, Zenon DEF VoteInd, OnePreparePerView
  <2>2. CASE m1 = p \/ m2 = p
    BY <1>4, <1>9, <2>2, Zenon
  <2>. QED
    BY <1>4, <2>1, <2>2, Zenon
<1>11. VotesInv'
  BY <1>3, <1>4, VotesFrame, Zenon DEF VotesInv, CoreInd
<1>12. LockCertified'
  BY <1>3, <1>4, LockFrame, LockCertifiedVoters, Zenon DEF CoreInd
<1>13. LockedOnProposal'
  BY <1>1 DEF VoteInd, LockedOnProposal, IsHashLocked
<1>. QED
  BY <1>8, <1>10, <1>11, <1>12, <1>13, Zenon DEF VoteInd

\* A vote that handlePrepare or handleCommit accepts.
LEMMA AcceptedVote ==
  ASSUME NEW n \in Cores, NEW m \in msgs \cup EnvironmentMessages,
         m.code \in {"prepare", "commit"}, CheckMessage(n, m), SubjectMatches(n, m)
  PROVE  m.src \in Voters(msgs, sequence[n], round[n], preprepare[n])
<1>1. m.seq = sequence[n] /\ m.round = round[n] /\ m.digest = preprepare[n]
  BY Zenon DEF CheckMessage, SubjectMatches
<1>2. CASE m \in msgs
  BY <1>1, <1>2, Zenon DEF Voters
<1>3. CASE m \in EnvironmentMessages
  BY <1>3, EnvironmentType, Zenon DEF Voters
<1>. QED
  BY <1>2, <1>3, Zenon

\* A step of n in its view that takes votes for its proposal, or a lock the votes
\* of a quorum justify.
LEMMA TakeVotes ==
  ASSUME VoteInd, CoreInd', NEW n \in Cores, OthersKept(n),
         UNCHANGED <<sequence, round, preprepare, waitingForRoundChange, badBlocks>>,
         state[n] # "AcceptRequest", state'[n] # "AcceptRequest", ~waitingForRoundChange[n],
         msgs \subseteq msgs', \A m \in msgs' : m \in msgs \/ m.code # "prepare",
         prepares'[n] \subseteq Voters(msgs, sequence[n], round[n], preprepare[n]),
         \A c \in commits'[n] : c.src \in Voters(msgs, sequence[n], round[n], preprepare[n]),
         \A c, d \in commits'[n] : c.src = d.src => c = d,
         \/ lockedHash'[n] = lockedHash[n]
         \/ /\ lockedHash'[n] = preprepare[n]
            /\ Cardinality(Voters(msgs, sequence[n], round[n], preprepare[n])) >= Quorum
  PROVE  VoteInd'
<1>1. TypeOK' /\ round[n] \in Nat
  BY Zenon DEF VoteInd, CoreInd, TypeOK
<1>2. Voters(msgs, sequence[n], round[n], preprepare[n])
        \subseteq Voters(msgs', sequence'[n], round'[n], preprepare'[n])
  BY <1>1, VotersGrow, Zenon
<1>3. VotesInv'
  <2>1. ASSUME NEW k \in Cores, k # n
        PROVE  /\ prepares'[k] \subseteq Voters(msgs', sequence'[k], round'[k], preprepare'[k])
               /\ \A c \in commits'[k] : c.src \in Voters(msgs', sequence'[k], round'[k], preprepare'[k])
               /\ \A c, d \in commits'[k] : c.src = d.src => c = d
    BY <1>1, <2>1, VotesFrame, Zenon
  <2>. QED
    BY <1>2, <2>1, ZenonT(30) DEF VotesInv
<1>4. LockCertified'
  <2>1. ASSUME NEW k \in Cores, lockedHash'[k] # NoBlock
        PROVE  \E r \in 0 .. round'[k] :
                 Cardinality(Voters(msgs', sequence'[k], r, lockedHash'[k])) >= Quorum
    <3>1. CASE k # n \/ lockedHash'[n] = lockedHash[n]
      <4>1. sequence'[n] = sequence[n] /\ round'[n] >= round[n] /\ preprepare'[n] = preprepare[n]
        <5>1. round[n] >= round[n]
          BY ONLY <1>1
        <5>. QED
          BY Zenon, <5>1
      <4>2. k # n \/ LockKept(n)
        BY Zenon, <3>1, <4>1 DEF LockKept
      <4>. QED
        BY <1>1, <2>1, <4>2, LockFrame, Zenon
    <3>2. CASE k = n /\ lockedHash'[n] # lockedHash[n]
      <4>1. /\ lockedHash'[n] = preprepare[n]
            /\ Cardinality(Voters(msgs, sequence[n], round[n], preprepare[n])) >= Quorum
        BY Zenon, <3>2
      <4>2. Cardinality(Voters(msgs', sequence[n], round[n], preprepare[n])) >= Quorum
        <5>1. /\ Voters(msgs, sequence[n], round[n], preprepare[n])
                   \subseteq Voters(msgs', sequence[n], round[n], preprepare[n])
              /\ Voters(msgs', sequence[n], round[n], preprepare[n]) \in SUBSET Fullnodes
          BY Zenon, <1>1, VotersGrow
        <5>. QED
          BY Zenon, <4>1, <5>1, QuorumGrows
      <4>3. round'[n] \in 0 .. round'[n]
        <5>1. round[n] \in 0 .. round[n]
          BY ONLY <1>1
        <5>. QED
          BY Zenon, <5>1
      <4>. QED
        BY <3>2, <4>1, <4>2, <4>3, Zenon
    <3>. QED
      BY <3>1, <3>2, Zenon
  <2>. QED
    BY <2>1, LockCertifiedVoters, Zenon
<1>5. PrepareInv' /\ OnePreparePerView'
  BY <1>1, PrepareFrame, Zenon DEF ViewKept
<1>6. LockedOnProposal'
  BY Zenon DEF VoteInd, LockedOnProposal, IsHashLocked, OthersKept
<1>. QED
  BY <1>3, <1>4, <1>5, <1>6, Zenon DEF VoteInd

\* handlePrepare locks when the senders of PREPAREs and COMMITs are a quorum, or
\* when the proposal is the one it is locked on.
LEMMA HandlePrepareVotes ==
  ASSUME VoteInd, CoreInd', NEW n \in Cores, NEW m \in msgs \cup EnvironmentMessages,
         HandlePrepare(n, m)
  PROVE  VoteInd'
<1>. DEFINE V == Voters(msgs, sequence[n], round[n], preprepare[n])
<1>1. m.src \in V
  BY Zenon, AcceptedVote DEF HandlePrepare
<1>2. /\ UNCHANGED <<sequence, round, preprepare, commits, waitingForRoundChange, badBlocks>>
      /\ prepares' = [prepares EXCEPT ![n] = @ \cup {m.src}]
      /\ state[n] # "AcceptRequest" /\ ~waitingForRoundChange[n] /\ m.digest = preprepare[n]
  BY Zenon DEF HandlePrepare, CheckMessage, SubjectMatches, chainVars
<1>3. \/ UNCHANGED <<lockedHash, state, msgs>>
      \/ /\ \/ m.digest = lockedHash[n]
            \/ Cardinality(prepares'[n] \cup Senders(commits[n])) >= Quorum
         /\ lockedHash' = [lockedHash EXCEPT ![n] = preprepare[n]]
         /\ state' = [state EXCEPT ![n] = "Prepared"]
         /\ BroadcastCommit(n, sequence[n], round[n], preprepare[n], preprepare[n])
  BY Zenon DEF HandlePrepare, PrepareOrCommitSize
<1>4. prepares'[n] = prepares[n] \cup {m.src}
  BY <1>2, Zenon DEF VoteInd, CoreInd, TypeOK
<1>5. /\ prepares'[n] \subseteq V /\ Senders(commits[n]) \subseteq V
      /\ \A c \in commits'[n] : c.src \in V
      /\ \A c, d \in commits'[n] : c.src = d.src => c = d
  BY <1>1, <1>2, <1>4, Zenon DEF VoteInd, VotesInv, Senders
<1>6. V \subseteq Fullnodes
  BY Zenon DEF Voters, VoteInd, CoreInd, TypeOK, Message
<1>7. OthersKept(n) /\ state'[n] # "AcceptRequest"
  BY <1>2, <1>3 DEF OthersKept, VoteInd, CoreInd, TypeOK
<1>8. msgs \subseteq msgs' /\ \A k \in msgs' : k \in msgs \/ k.code # "prepare"
  <2>. DEFINE p == CommitMsg(n, sequence[n], round[n], preprepare[n], preprepare[n])
  <2>1. p.code # "prepare"
    BY Zenon DEF CommitMsg
  <2>2. msgs' = msgs \/ msgs' = msgs \cup {p}
    BY Zenon, <1>3 DEF BroadcastCommit, Broadcast
  <2>. HIDE DEF p
  <2>. QED
    BY <2>1, <2>2, Zenon
<1>9. \/ lockedHash'[n] = lockedHash[n]
      \/ lockedHash'[n] = preprepare[n] /\ Cardinality(V) >= Quorum
  <2>1. CASE Cardinality(prepares'[n] \cup Senders(commits[n])) >= Quorum
    <3>1. Cardinality(V) >= Quorum
      BY <1>5, <1>6, <2>1, QuorumGrows, Zenon
    <3>2. lockedHash'[n] = lockedHash[n] \/ lockedHash'[n] = preprepare[n]
      BY <1>3, Zenon DEF VoteInd, CoreInd, TypeOK
    <3>. QED
      BY <3>1, <3>2, Zenon
  <2>2. CASE m.digest = lockedHash[n] \/ UNCHANGED lockedHash
    BY <1>2, <1>3, <2>2 DEF VoteInd, CoreInd, TypeOK
  <2>. QED
    BY <1>3, <2>1, <2>2, Zenon
<1>. QED
  BY <1>2, <1>5, <1>7, <1>8, <1>9, TakeVotes, Zenon

\* handleCommit locks when the senders of COMMITs are a quorum.
LEMMA HandleCommitVotes ==
  ASSUME VoteInd, CoreInd', NEW n \in Cores, NEW m \in msgs \cup EnvironmentMessages,
         HandleCommit(n, m)
  PROVE  VoteInd'
<1>. DEFINE V == Voters(msgs, sequence[n], round[n], preprepare[n])
            cs == AddCommit(commits[n], m)
<1>1. m.src \in V /\ m \in Message
  BY Zenon, AcceptedVote, EnvironmentType DEF HandleCommit, VoteInd, CoreInd, TypeOK
<1>2. state[n] # "AcceptRequest" /\ ~waitingForRoundChange[n]
  BY Zenon DEF HandleCommit, CheckMessage
<1>3. UNCHANGED state \/ state' = [state EXCEPT ![n] = "Committed"]
  BY Zenon DEF HandleCommit
<1>4. /\ \A c \in cs : c.src \in V
      /\ \A c, d \in cs : c.src = d.src => c = d
  <2>1. /\ \A c \in commits[n] : c.src \in V
        /\ \A c, d \in commits[n] : c.src = d.src => c = d
    BY Zenon DEF VoteInd, VotesInv
  <2>. HIDE DEF V
  <2>. QED
    BY <1>1, <2>1 DEF AddCommit
<1>5. cs \in SUBSET Commit
  BY <1>1 DEF AddCommit, VoteInd, CoreInd, TypeOK, Commit, Message
<1>6. V \subseteq Fullnodes
  BY DEF Voters, VoteInd, CoreInd, TypeOK, Message
<1>7. CASE FailToDeliver(n)
  <2>1. round[n] + 1 \in Nat
    BY DEF VoteInd, CoreInd, TypeOK
  <2>. QED
    BY Zenon, <1>3, <1>7, <2>1, SendRoundChangeVotes DEF FailToDeliver
<1>8. CASE ~FailToDeliver(n)
  <2>1. /\ UNCHANGED <<sequence, round, preprepare, prepares, waitingForRoundChange, badBlocks, msgs>>
        /\ commits' = [commits EXCEPT ![n] = cs]
        /\ \/ UNCHANGED lockedHash
           \/ /\ lockedHash' = [lockedHash EXCEPT ![n] = preprepare[n]]
              /\ Cardinality(cs) >= Quorum
    BY Zenon, <1>8 DEF HandleCommit, DeliverBlock, chainVars
  <2>. HIDE DEF cs
  <2>2. commits'[n] = cs
    BY <2>1, Zenon DEF VoteInd, CoreInd, TypeOK
  <2>3. prepares'[n] \subseteq V
    BY <2>1, Zenon DEF VoteInd, VotesInv
  <2>4. OthersKept(n) /\ state'[n] # "AcceptRequest"
    BY <1>2, <1>3, <2>1, Zenon DEF OthersKept, VoteInd, CoreInd, TypeOK
  <2>5. Cardinality(cs) >= Quorum => Cardinality(V) >= Quorum
    <3>1. Senders(cs) \subseteq V
      BY <1>4, Zenon DEF Senders
    <3>. QED
      BY <1>4, <1>5, <1>6, <3>1, SendersCount, QuorumGrows, Zenon
  <2>6. \/ lockedHash'[n] = lockedHash[n]
        \/ lockedHash'[n] = preprepare[n] /\ Cardinality(V) >= Quorum
    BY <2>1, <2>5, Zenon DEF VoteInd, CoreInd, TypeOK
  <2>. HIDE DEF V
  <2>. QED
    BY <1>2, <1>4, <2>1, <2>2, <2>3, <2>4, <2>6, TakeVotes, Zenon DEF V
<1>. QED
  BY <1>7, <1>8, Zenon

\* The handlers of messages.
LEMMA HandleVotes ==
  ASSUME VoteInd, CoreInd', NEW n \in Cores, NEW m \in msgs \cup EnvironmentMessages,
         Handle(n, m)
  PROVE  VoteInd'
<1>1. m \in Message /\ m.round \in Nat /\ round[n] + 1 \in Nat
  BY EnvironmentType DEF VoteInd, CoreInd, TypeOK, Message
<1>2. SendNextRoundChange(n) => VoteInd'
  BY Zenon, <1>1, SendRoundChangeVotes DEF SendNextRoundChange
<1>3. CASE HandleOldPreprepare(n, m)
  <2>1. /\ UNCHANGED <<state, current, waitingForRoundChange, badBlocks>>
        /\ msgs \subseteq msgs' /\ \A k \in msgs' : k \in msgs \/ k.code # "prepare"
    BY <1>3 DEF HandleOldPreprepare, BroadcastCommit, Broadcast, CommitMsg, coreVars, chainVars
  <2>. QED
    BY <2>1, IdleVotes, Zenon
<1>4. CASE HandleRoundChange(n, m)
  <2>. DEFINE rcs == roundChanges[n] \cup {<<m.round, m.src>>}
  <2>1. CASE SendRoundChange(n, m.round, rcs, IsHashLocked(n)) /\ UNCHANGED <<state, chainVars>>
    BY Zenon, <1>1, <2>1, SendRoundChangeVotes
  <2>2. CASE UNCHANGED <<state, current, waitingForRoundChange, chainVars, msgs>>
    BY <2>2, IdleVotes, Zenon DEF chainVars
  <2>3. CASE StartNewRound(n, m.round) /\ (waitingForRoundChange[n] \/ round[n] < m.round)
    BY Zenon, <1>1, <2>3, StartNewSequenceVotes, StartNextRoundVotes DEF StartNewRound
  <2>. QED
    BY <1>4, <2>1, <2>2, <2>3, Zenon DEF HandleRoundChange
<1>. QED
  BY Zenon, <1>2, <1>3, <1>4, CommitLockedPreprepareVotes, AcceptPreprepareVotes, HandlePrepareVotes,
     HandleCommitVotes DEF Handle, HandlePreprepare, RejectPreprepare, RefuseUnlockedPreprepare

\* The invariant is inductive.
LEMMA VoteStep ==
  ASSUME VoteInd, [Next]_vars
  PROVE  VoteInd'
<1>1. CoreInd'
  BY CoreStep, Zenon DEF VoteInd
<1>2. CASE UNCHANGED vars
  BY <1>1, <1>2, IdleVotes, Zenon DEF vars, coreVars, chainVars
<1>3. ASSUME NEW n \in Cores, NEW b \in BoundedBlock, HandleRequest(n, b)
      PROVE  VoteInd'
  <2>1. /\ UNCHANGED <<sequence, round, state, waitingForRoundChange, preprepare, lockedHash,
                       prepares, commits, badBlocks>>
        /\ msgs \subseteq msgs' /\ \A k \in msgs' : k \in msgs \/ k.code # "prepare"
    <3>. DEFINE p == Preprepare(n, sequence[n], round[n], b)
    <3>1. p.code # "prepare"
      BY Zenon DEF Preprepare
    <3>2. msgs' = msgs \/ msgs' = msgs \cup {p}
      BY Zenon, <1>3 DEF HandleRequest, Broadcast
    <3>. HIDE DEF p
    <3>. QED
      BY <1>3, <3>1, <3>2, Zenon DEF HandleRequest, chainVars
  <2>2. round[n] \in Nat
    BY Zenon DEF VoteInd, CoreInd, TypeOK
  <2>3. OthersKept(n) /\ ViewKept(n) /\ VotesKept(n) /\ LockKept(n)
    BY <2>1, <2>2 DEF OthersKept, VotesKept, ViewKept, LockKept
  <2>. QED
    BY <1>1, <2>1, <2>3, VoteFrame, Zenon
<1>4. ASSUME NEW n \in Cores, HandleTimeout(n)
      PROVE  VoteInd'
  <2>1. CertifiedRounds(n) \subseteq Nat /\ round[n] + 1 \in Nat
    <3>1. roundChanges[n] \in SUBSET (Nat \X Fullnodes) /\ round[n] \in Nat
      BY Zenon DEF VoteInd, CoreInd, TypeOK
    <3>. QED
      BY <3>1 DEF CertifiedRounds
  <2>2. \/ \E r \in Nat : /\ SendRoundChange(n, r, roundChanges[n], IsHashLocked(n))
                           /\ UNCHANGED <<state, chainVars>>
        \/ StartNewSequence(n)
    BY <1>4, <2>1, Zenon DEF HandleTimeout, SendNextRoundChange
  <2>. QED
    BY <1>1, <2>2, SendRoundChangeVotes, StartNewSequenceVotes, Zenon
<1>5. ASSUME NEW n \in Cores, NEW b \in BoundedBlock, InsertBlock(n, b) \/ RejectBlock(n, b)
      PROVE  VoteInd'
  <2>1. /\ UNCHANGED <<state, current, waitingForRoundChange, msgs>>
        /\ \A k \in Cores : badBlocks[k] \subseteq badBlocks'[k]
    BY <1>5, ZenonT(30) DEF InsertBlock, RejectBlock, coreVars, VoteInd, CoreInd, TypeOK
  <2>. QED
    BY <1>1, <2>1, IdleVotes, Zenon
<1>6. ASSUME NEW n \in Cores, NEW d \in delivered, RejectCopy(n, d)
      PROVE  VoteInd'
  <2>1. /\ UNCHANGED <<state, current, waitingForRoundChange, msgs>>
        /\ \A k \in Cores : badBlocks[k] \subseteq badBlocks'[k]
    BY <1>6, Zenon DEF RejectCopy, coreVars, VoteInd, CoreInd, TypeOK
  <2>. QED
    BY <1>1, <2>1, IdleVotes, Zenon
<1>7. CASE Next
  BY <1>1, <1>3, <1>4, <1>5, <1>6, <1>7, HandleVotes, StartNewSequenceVotes, Zenon
     DEF Next, HandleFinalCommitted
<1>. QED
  BY <1>2, <1>7, Zenon

\* And holds at the start.
LEMMA VoteInit == Init => VoteInd
  BY Zenon, CoreInit DEF Init, VoteInd, PrepareInv, OnePreparePerView, VotesInv, LockedOnProposal,
     IsHashLocked, LockCertified

\* No core ever PREPAREs two different blocks in a view, whatever PRE-PREPAREs
\* it is sent.
THEOREM PrepareSafety == Spec => []OnePreparePerView
<1>1. VoteInd => OnePreparePerView
  BY Zenon DEF VoteInd
<1>2. VoteInd /\ [Next]_vars => VoteInd'
  BY VoteStep, Zenon
<1>. QED
  BY <1>1, <1>2, VoteInit, PTL DEF Spec

\* A core that is locked on a block has seen a quorum vote for it in one view of
\* its sequence, through any number of round changes.
THEOREM LockQuorum == Spec => []LockCertified
<1>1. VoteInd => LockCertified
  BY Zenon DEF VoteInd
<1>2. VoteInd /\ [Next]_vars => VoteInd'
  BY VoteStep
<1>. QED
  BY <1>1, <1>2, VoteInit, PTL DEF Spec

\* The proposal that startNewRound proposes again is the locked one.
THEOREM LockSafety == Spec => []LockedOnProposal
<1>1. VoteInd => LockedOnProposal
  BY Zenon DEF VoteInd
<1>2. VoteInd /\ [Next]_vars => VoteInd'
  BY VoteStep
<1>. QED
  BY <1>1, <1>2, VoteInit, PTL DEF Spec

-----------------------------------------------------------------------------
(* ROUND CHANGEs.                                                          *)

\* The weak certificate on which a core catches up is no quorum.
WeakIsNoQuorum == N \notin {1, 3}

\* For a round ahead, or the one it waits for, a core holds no quorum of ROUND
\* CHANGEs.
RoundsInv ==
  \A n \in Cores : \A r \in Nat :
    \/ r > round[n]
    \/ waitingForRoundChange[n] /\ r = round[n]
    => RoundChangeCount(roundChanges[n], r) < Quorum

\* The arithmetic of F + E and 2F + E.
LEMMA WeakBelowQuorum ==
  ASSUME WeakIsNoQuorum
  PROVE  WeakCertificate < Quorum
  BY NAssumption DEF WeakIsNoQuorum, WeakCertificate, Quorum, MaxFaulty, MinApprovers, CeilDiv, E

\* A ROUND CHANGE counts at most once.
LEMMA CountAfter ==
  ASSUME NEW rcs \in SUBSET (Nat \X Fullnodes), NEW r \in Nat, NEW v \in Fullnodes, NEW q \in Nat
  PROVE  /\ RoundChangeCount(rcs, q) \in Nat
         /\ RoundChangeCount(rcs \cup {<<r, v>>}, q) \in Nat
         /\ RoundChangeCount(rcs \cup {<<r, v>>}, q) <= RoundChangeCount(rcs, q) + 1
<1>. DEFINE S == {p \in rcs : p[1] = q}
            T == {p \in rcs \cup {<<r, v>>} : p[1] = q}
<1>1. IsFiniteSet({q} \X Fullnodes)
  BY FullnodesFinite, FS_Singleton, FS_Product, Zenon
<1>2. IsFiniteSet(S) /\ IsFiniteSet(T)
  <2>1. S \subseteq {q} \X Fullnodes /\ T \subseteq {q} \X Fullnodes
    OBVIOUS
  <2>. QED
    BY <1>1, <2>1, FS_Subset, Zenon
<1>3. Cardinality(S) \in Nat /\ Cardinality(T) \in Nat
  BY <1>2, FS_CardinalityType, Zenon
<1>4. /\ RoundChangeCount(rcs, q) = Cardinality(S)
      /\ RoundChangeCount(rcs \cup {<<r, v>>}, q) = Cardinality(T)
  BY Zenon DEF RoundChangeCount
<1>5. T = S \/ (T = S \cup {<<r, v>>} /\ <<r, v>> \notin S)
  BY Zenon
<1>. HIDE DEF S, T
<1>6. T # S => Cardinality(T) = Cardinality(S) + 1
  BY <1>2, <1>5, FS_AddElement, Zenon
<1>. QED
  BY <1>3, <1>4, <1>6

\* A step of n that leaves the other cores' ROUND CHANGEs alone.
LEMMA RoundsFrame ==
  ASSUME TypeOK, RoundsInv, NEW n \in Cores,
         \A k \in Cores : k # n =>
           /\ round'[k] = round[k] /\ roundChanges'[k] = roundChanges[k]
           /\ waitingForRoundChange'[k] = waitingForRoundChange[k],
         \A r \in Nat :
           \/ r > round'[n]
           \/ waitingForRoundChange'[n] /\ r = round'[n]
           => RoundChangeCount(roundChanges'[n], r) < Quorum
  PROVE  RoundsInv'
  BY Zenon DEF RoundsInv

\* catchUpRound clears the smaller rounds; the certificate it follows is no quorum.
LEMMA SendRoundChangeRounds ==
  ASSUME TypeOK, RoundsInv, NEW n \in Cores, NEW r \in Nat, NEW rcs, NEW locked,
         SendRoundChange(n, r, rcs, locked),
         \A q \in Nat : q >= r => RoundChangeCount(rcs, q) < Quorum
  PROVE  RoundsInv'
<1>1. /\ round'[n] = r /\ roundChanges'[n] = {p \in rcs : p[1] >= r} /\ waitingForRoundChange'[n]
      /\ \A k \in Cores : k # n =>
           /\ round'[k] = round[k] /\ roundChanges'[k] = roundChanges[k]
           /\ waitingForRoundChange'[k] = waitingForRoundChange[k]
  BY Zenon DEF TypeOK, SendRoundChange, UpdateRoundState
<1>2. ASSUME NEW q \in Nat, q >= r
      PROVE  RoundChangeCount(roundChanges'[n], q) < Quorum
  <2>1. {p \in roundChanges'[n] : p[1] = q} = {p \in rcs : p[1] = q}
    BY <1>1, <1>2, Zenon
  <2>. QED
    BY <1>2, <2>1, Zenon DEF RoundChangeCount
<1>. QED
  BY <1>1, <1>2, RoundsFrame

\* A round or a sequence starts without ROUND CHANGEs.
LEMMA StartRounds ==
  ASSUME TypeOK, RoundsInv, NEW n \in Cores, NEW r, StartNewRound(n, r)
  PROVE  RoundsInv'
<1>1. /\ roundChanges'[n] = {}
      /\ \A k \in Cores : k # n =>
           /\ round'[k] = round[k] /\ roundChanges'[k] = roundChanges[k]
           /\ waitingForRoundChange'[k] = waitingForRoundChange[k]
  BY DEF TypeOK, StartNewRound, StartNewSequence, StartNextRound, UpdateRoundState
<1>2. \A q \in Nat : RoundChangeCount(roundChanges'[n], q) < Quorum
  <2>1. \A q \in Nat : {p \in roundChanges'[n] : p[1] = q} = {}
    BY <1>1, Zenon
  <2>. QED
    BY <2>1, QuorumType, FS_EmptySet, Zenon DEF RoundChangeCount
<1>. QED
  BY <1>1, <1>2, RoundsFrame, Zenon

\* handleRoundChange acts on the ROUND CHANGE that completes a quorum.
LEMMA HandleRoundChangeRounds ==
  ASSUME WeakIsNoQuorum, TypeOK, RoundsInv, NEW n \in Cores, NEW m \in Message,
         HandleRoundChange(n, m)
  PROVE  RoundsInv'
<1>. DEFINE rcs == roundChanges[n] \cup {<<m.round, m.src>>}
            count == RoundChangeCount(rcs, m.round)
<1>1. /\ roundChanges[n] \in SUBSET (Nat \X Fullnodes) /\ m.round \in Nat /\ m.src \in Fullnodes
      /\ round[n] \in Nat /\ m.round >= round[n]
  BY Zenon DEF TypeOK, Message, HandleRoundChange, CheckMessage
<1>2. ASSUME NEW q \in Nat
      PROVE  /\ RoundChangeCount(roundChanges[n], q) \in Nat /\ RoundChangeCount(rcs, q) \in Nat
             /\ q # m.round => RoundChangeCount(rcs, q) = RoundChangeCount(roundChanges[n], q)
             /\ RoundChangeCount(rcs, q) <= RoundChangeCount(roundChanges[n], q) + 1
  <2>1. RoundChangeCount(roundChanges[n], q) \in Nat /\ RoundChangeCount(rcs, q) \in Nat
    BY <1>1, CountAfter, Zenon
  <2>2. ASSUME q # m.round
        PROVE  RoundChangeCount(rcs, q) = RoundChangeCount(roundChanges[n], q)
    <3>1. {p \in rcs : p[1] = q} = {p \in roundChanges[n] : p[1] = q}
      BY <2>2
    <3>. QED
      BY <3>1, Zenon DEF RoundChangeCount
  <2>3. RoundChangeCount(rcs, q) <= RoundChangeCount(roundChanges[n], q) + 1
    BY <1>1, CountAfter, Zenon
  <2>. QED
    BY <2>1, <2>2, <2>3, Zenon
<1>3. \A q \in Nat :
        q > round[n] \/ (waitingForRoundChange[n] /\ q = round[n]) =>
          RoundChangeCount(roundChanges[n], q) < Quorum
  BY Zenon DEF RoundsInv
<1>4. count \in Nat /\ WeakCertificate < Quorum
  BY <1>1, <1>2, WeakBelowQuorum, Zenon
<1>5. \/ /\ waitingForRoundChange[n] /\ count = WeakCertificate /\ round[n] < m.round
         /\ SendRoundChange(n, m.round, rcs, IsHashLocked(n))
      \/ StartNewRound(n, m.round)
      \/ /\ \/ waitingForRoundChange[n] /\ count = WeakCertificate
            \/ count # Quorum
            \/ ~waitingForRoundChange[n] /\ ~(round[n] < m.round)
         /\ roundChanges' = [roundChanges EXCEPT ![n] = rcs]
         /\ UNCHANGED <<round, waitingForRoundChange>>
  BY Zenon DEF HandleRoundChange, current
<1>. HIDE DEF rcs
<1>6. CASE /\ waitingForRoundChange[n] /\ count = WeakCertificate /\ round[n] < m.round
           /\ SendRoundChange(n, m.round, rcs, IsHashLocked(n))
  <2>1. ASSUME NEW q \in Nat, q >= m.round
        PROVE  RoundChangeCount(rcs, q) < Quorum
    <3>1. CASE q = m.round
      BY <1>4, <1>6, <3>1, Zenon
    <3>2. CASE q # m.round
      <4>1. q > round[n]
        BY <1>1, <1>6, <2>1
      <4>. QED
        BY <1>2, <1>3, <3>2, <4>1, Zenon
    <3>. QED
      BY <3>1, <3>2, Zenon
  <2>. QED
    BY <1>1, <1>6, <2>1, SendRoundChangeRounds, Zenon
<1>7. CASE StartNewRound(n, m.round)
  BY <1>7, StartRounds, Zenon
<1>8. CASE /\ \/ waitingForRoundChange[n] /\ count = WeakCertificate
              \/ count # Quorum
              \/ ~waitingForRoundChange[n] /\ ~(round[n] < m.round)
           /\ roundChanges' = [roundChanges EXCEPT ![n] = rcs]
           /\ UNCHANGED <<round, waitingForRoundChange>>
  <2>1. roundChanges'[n] = rcs /\ \A k \in Cores : k # n => roundChanges'[k] = roundChanges[k]
    BY <1>8, Zenon DEF TypeOK
  <2>2. ASSUME NEW q \in Nat, q > round[n] \/ (waitingForRoundChange[n] /\ q = round[n])
        PROVE  RoundChangeCount(rcs, q) < Quorum
    <3>1. CASE q # m.round
      BY <1>2, <1>3, <2>2, <3>1, Zenon
    <3>2. CASE q = m.round
      <4>1. count # Quorum
        <5>1. q > round[n] <=> round[n] < m.round
          BY ONLY <1>1, <2>2, <3>2, Zenon
        <5>2. WeakCertificate # Quorum
          BY ONLY <1>4, QuorumType
        <5>. QED
          BY Zenon, <1>8, <2>2, <5>1, <5>2
      <4>2. RoundChangeCount(roundChanges[n], q) < Quorum /\ Quorum \in Nat
        BY <1>3, <2>2, QuorumType, Zenon
      <4>3. /\ count <= RoundChangeCount(roundChanges[n], q) + 1
            /\ RoundChangeCount(roundChanges[n], q) \in Nat
        BY <1>2, <3>2, Zenon
      <4>. QED
        BY <1>4, <3>2, <4>1, <4>2, <4>3
    <3>. QED
      BY <3>1, <3>2, Zenon
  <2>. QED
    BY <1>8, <2>1, <2>2, RoundsFrame, Zenon
<1>. QED
  BY <1>5, <1>6, <1>7, <1>8, Zenon

\* The invariant is inductive.
LEMMA RoundsStep ==
  ASSUME WeakIsNoQuorum, CoreInd, RoundsInv, [Next]_vars
  PROVE  RoundsInv'
<1>1. TypeOK
  BY Zenon DEF CoreInd
<1>2. UNCHANGED <<round, roundChanges, waitingForRoundChange>> => RoundsInv'
  BY Zenon DEF RoundsInv
<1>3. ASSUME NEW n \in Cores, NEW r \in Nat, NEW locked, SendRoundChange(n, r, roundChanges[n], locked)
      PROVE  RoundsInv'
  <2>1. r > round[n] /\ round[n] \in Nat
    BY <1>1, <1>3, Zenon DEF TypeOK, SendRoundChange
  <2>2. \A q \in Nat : q >= r => RoundChangeCount(roundChanges[n], q) < Quorum
    BY <2>1 DEF RoundsInv
  <2>. QED
    BY <1>1, <1>3, <2>2, SendRoundChangeRounds, Zenon
<1>4. ASSUME NEW n \in Cores, NEW m \in msgs \cup EnvironmentMessages, Handle(n, m)
      PROVE  RoundsInv'
  <2>1. m \in Message /\ round[n] + 1 \in Nat
    <3>1. m \in Message
      BY Zenon, <1>1, EnvironmentType DEF TypeOK
    <3>2. round[n] \in Nat
      BY Zenon, <1>1 DEF TypeOK
    <3>. QED
      BY <3>1, <3>2
  <2>2. CASE HandleRoundChange(n, m)
    BY <1>1, <2>1, <2>2, HandleRoundChangeRounds, Zenon
  <2>3. SendNextRoundChange(n) \/ FailToDeliver(n) => RoundsInv'
    BY <1>3, <2>1, Zenon DEF SendNextRoundChange, FailToDeliver
  <2>4. \/ HandleRoundChange(n, m) \/ SendNextRoundChange(n) \/ FailToDeliver(n)
        \/ UNCHANGED <<round, roundChanges, waitingForRoundChange>>
    BY Zenon, <1>4 DEF Handle, HandlePreprepare, HandleOldPreprepare, RejectPreprepare,
       CommitLockedPreprepare, RefuseUnlockedPreprepare, AcceptPreprepare, HandlePrepare,
       HandleCommit, DeliverBlock, coreVars, current
  <2>. QED
    BY <1>2, <2>2, <2>3, <2>4, Zenon
<1>5. ASSUME NEW n \in Cores, HandleTimeout(n)
      PROVE  RoundsInv'
  <2>1. CertifiedRounds(n) \subseteq Nat /\ round[n] + 1 \in Nat
    <3>1. round[n] \in Nat /\ roundChanges[n] \in SUBSET (Nat \X Fullnodes)
      BY Zenon, <1>1 DEF TypeOK
    <3>2. \A rc \in roundChanges[n] : rc[1] \in Nat
      BY <3>1, Zenon
    <3>3. CertifiedRounds(n) \subseteq Nat
      BY <3>2, Zenon DEF CertifiedRounds
    <3>. QED
      BY <3>1, <3>3
  <2>2. \/ \E r \in Nat : SendRoundChange(n, r, roundChanges[n], IsHashLocked(n))
        \/ StartNewSequence(n)
    BY <1>5, <2>1, Zenon DEF HandleTimeout, SendNextRoundChange
  <2>. QED
    BY <1>1, <1>3, <2>2, StartRounds, Zenon DEF StartNewRound
<1>6. ASSUME NEW n \in Cores, HandleFinalCommitted(n)
      PROVE  RoundsInv'
  BY <1>1, <1>6, StartRounds, Zenon DEF HandleFinalCommitted, StartNewRound
<1>7. ASSUME NEW n \in Cores, NEW b \in BoundedBlock,
             HandleRequest(n, b) \/ InsertBlock(n, b) \/ RejectBlock(n, b)
      PROVE  RoundsInv'
  BY <1>2, <1>7, Zenon DEF HandleRequest, InsertBlock, RejectBlock, coreVars, current
<1>8. ASSUME NEW n \in Cores, NEW d \in delivered, RejectCopy(n, d)
      PROVE  RoundsInv'
  BY <1>2, <1>8, Zenon DEF RejectCopy, coreVars, current
<1>9. CASE Next
  BY <1>4, <1>5, <1>6, <1>7, <1>8, <1>9, Zenon DEF Next
<1>10. CASE UNCHANGED vars
  BY <1>2, <1>10, Zenon DEF vars, coreVars, current
<1>. QED
  BY <1>9, <1>10, Zenon

\* And holds at the start.
LEMMA RoundsInit == Init => RoundsInv
<1>. SUFFICES ASSUME Init, NEW n \in Cores, NEW r \in Nat
              PROVE  RoundChangeCount(roundChanges[n], r) < Quorum
  BY Zenon DEF RoundsInv
<1>1. {p \in roundChanges[n] : p[1] = r} = {}
  BY Zenon DEF Init
<1>. QED
  BY <1>1, QuorumType, FS_EmptySet, Zenon DEF RoundChangeCount

\* A core that waits for a round never sits on the ROUND CHANGEs that would start
\* it: handleRoundChange acts on the one that completes the quorum.
THEOREM RoundsStart ==
  ASSUME WeakIsNoQuorum
  PROVE  Spec => []RoundChangeQuorumStarts
<1>1. CoreInd /\ RoundsInv => RoundChangeQuorumStarts
  <2>1. TypeOK => \A n \in Cores : round[n] \in Nat
    BY Zenon DEF TypeOK
  <2>. QED
    BY <2>1, Zenon DEF CoreInd, RoundsInv, RoundChangeQuorumStarts
<1>2. CoreInd /\ RoundsInv /\ [Next]_vars => CoreInd' /\ RoundsInv'
  BY CoreStep, RoundsStep, Zenon
<1>. QED
  BY <1>1, <1>2, CoreInit, RoundsInit, PTL DEF Spec
=============================================================================
