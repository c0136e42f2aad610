------------------------ MODULE SportAgreementProofs ------------------------
(***************************************************************************)
(* Agreement of the chains that SportCore builds, for every number of      *)
(* fullnodes of which less than a third are outside the model.             *)
(***************************************************************************)
EXTENDS SportCoreProofs

\* The fullnodes that do not run the modelled code are less than a third.
FewOutside == 3 * Cardinality(Fullnodes \ Cores) < N

-----------------------------------------------------------------------------
(* Quorums.                                                                *)

\* Any two sets of MinApprovers fullnodes have a core in common.
LEMMA QuorumsMeet ==
  ASSUME FewOutside, NEW A \in SUBSET Fullnodes, NEW B \in SUBSET Fullnodes,
         Cardinality(A) >= Quorum, Cardinality(B) >= Quorum
  PROVE  \E n \in Cores : n \in A /\ n \in B
<1>. DEFINE Env == Fullnodes \ Cores
<1>1. IsFiniteSet(A) /\ IsFiniteSet(B) /\ IsFiniteSet(A \cup B) /\ IsFiniteSet(Env)
  BY FullnodesFinite, FS_Subset
<1>2. /\ Cardinality(A) \in Nat /\ Cardinality(B) \in Nat /\ Cardinality(A \cap B) \in Nat
      /\ Cardinality(A \cup B) \in Nat /\ Cardinality(Env) \in Nat
  BY Zenon, <1>1, FS_CardinalityType, FS_Intersection
<1>3. Cardinality(A \cup B) <= N
  BY FullnodesFinite, FS_Subset
<1>4. Cardinality(A \cup B) = Cardinality(A) + Cardinality(B) - Cardinality(A \cap B)
  BY <1>1, FS_Union
<1>5. Quorum \in Nat /\ 3 * Quorum >= 2 * N
  BY NAssumption DEF Quorum, MinApprovers, CeilDiv
<1>6. Cardinality(A \cap B) > Cardinality(Env)
  <2>. DEFINE a == Cardinality(A)  b == Cardinality(B)  c == Cardinality(A \cap B)
              u == Cardinality(A \cup B)  e == Cardinality(Env)
  <2>1. /\ a \in Nat /\ b \in Nat /\ c \in Nat /\ u \in Nat /\ e \in Nat /\ Quorum \in Nat /\ N \in Nat
        /\ u <= N /\ u = a + b - c /\ 3 * Quorum >= 2 * N /\ a >= Quorum /\ b >= Quorum /\ 3 * e < N
    BY <1>2, <1>3, <1>4, <1>5, NAssumption DEF FewOutside
  <2>. HIDE DEF a, b, c, u, e
  <2>2. c > e
    BY <2>1
  <2>. QED
    BY <2>2 DEF c, e
<1>7. ASSUME A \cap B \subseteq Env
      PROVE  FALSE
  <2>1. Cardinality(A \cap B) <= Cardinality(Env)
    BY <1>1, <1>7, FS_Subset
  <2>. QED
    BY <1>2, <1>6, <2>1
<1>. QED
  BY <1>7

\* Seals are never taken back.
LEMMA SealQuorumStable ==
  ASSUME NEW b, msgs \subseteq msgs', SealQuorum(b)
  PROVE  SealQuorum(b)'
<1>1. Sealers(b) \subseteq Sealers(b)' /\ Sealers(b)' \subseteq Fullnodes
  BY CoresAssumption DEF Sealers
<1>2. /\ IsFiniteSet(Sealers(b)') /\ Cardinality(Sealers(b)) <= Cardinality(Sealers(b)')
      /\ IsFiniteSet(Sealers(b))
  BY <1>1, FullnodesFinite, FS_Subset
<1>3. Cardinality(Sealers(b)) \in Nat /\ Cardinality(Sealers(b)') \in Nat
  BY <1>2, FS_CardinalityType
<1>4. Quorum \in Nat
  BY NAssumption DEF Quorum, MinApprovers, CeilDiv
<1>. QED
  BY <1>2, <1>3, <1>4 DEF SealQuorum

\* Two valid blocks of a height with a quorum of seals are the same block.
LEMMA SealedBlocksAgree ==
  ASSUME FewOutside, SealInd, NEW b1 \in Block, NEW b2 \in Block,
         Valid(b1), Valid(b2), b1.number = b2.number, SealQuorum(b1), SealQuorum(b2)
  PROVE  b1 = b2
<1>1. Sealers(b1) \subseteq Fullnodes /\ Sealers(b2) \subseteq Fullnodes
  BY CoresAssumption DEF Sealers
<1>2. PICK n \in Cores : n \in Sealers(b1) /\ n \in Sealers(b2)
  BY <1>1, QuorumsMeet DEF SealQuorum
<1>3. PICK m1 \in msgs : m1.code = "commit" /\ m1.src = n /\ m1.digest = b1 /\ m1.seal = b1
  BY <1>2 DEF Sealers
<1>4. PICK m2 \in msgs : m2.code = "commit" /\ m2.src = n /\ m2.digest = b2 /\ m2.seal = b2
  BY <1>2 DEF Sealers
<1>5. m1.seq = b1.number /\ m2.seq = b2.number
  BY <1>3, <1>4 DEF SealInd, MessagesInv
<1>. QED
  BY <1>3, <1>4, <1>5 DEF SealInd, OneSealPerHeight, IsSealedCommit

-----------------------------------------------------------------------------
(* Every step keeps the second half of the invariant.                      *)

\* What a step that writes no block keeps of the chain's own invariant.
LEMMA ChainInvFrame ==
  ASSUME CoreInd, ChainInd, UNCHANGED chain, msgs \subseteq msgs'
  PROVE  /\ ChainInv'
         /\ \A d \in delivered : SealQuorum(d.block)'
<1>1. \A b \in Block : SealQuorum(b) => SealQuorum(b)'
  BY SealQuorumStable
<1>2. \A d \in delivered : d.block \in Block
  BY DEF CoreInd, TypeOK
<1>3. \A n \in Cores : \A h \in 1 .. Len(chain[n]) : chain[n][h] \in Block
  BY DEF CoreInd, TypeOK
<1>. QED
  BY <1>1, <1>2, <1>3 DEF ChainInd, ChainInv, DeliveredInv

\* A step that writes no block and delivers none, sends no COMMIT but for its
\* own proposal or for a block of the chain, and drops the COMMITs collected
\* for a proposal when it changes the proposal.
LEMMA ChainFrame ==
  ASSUME CoreInd, ChainInd, UNCHANGED <<chain, delivered>>, msgs \subseteq msgs',
         \A m \in msgs' \ msgs :
           m.code = "commit" =>
             \/ m.seal = m.digest
             \/ /\ m.digest.number \in 1 .. Len(chain[m.src])
                /\ chain[m.src][m.digest.number] = m.digest,
         \A n \in Cores : \/ commits'[n] = {}
                          \/ commits'[n] = commits[n] /\ preprepare'[n] = preprepare[n]
  PROVE  ChainInd'
<1>. USE DEF ChainInd
<1>1. OldCommitsInv'
  BY DEF OldCommitsInv
<1>2. CommitsInv'
  BY DEF CommitsInv
<1>3. DeliveredInv' /\ ChainInv'
  BY ChainInvFrame DEF DeliveredInv
<1>. QED
  BY <1>1, <1>2, <1>3

\* A delivered block has a quorum of seals: either every COMMIT collected from
\* a core seals it, or one of them comes from a core that has it in its chain.
LEMMA CommitQuorumSeals ==
  ASSUME CoreInd, ChainInd, NEW n \in Cores, NEW cs \in SUBSET Commit,
         \A c \in cs :
           /\ \/ c.src \notin Cores
              \/ \E m \in msgs : /\ m.code = "commit" /\ m.src = c.src
                                 /\ m.digest = preprepare[n] /\ m.seal = c.seal
           /\ \A d \in cs : d.src = c.src => d = c,
         Cardinality(cs) >= Quorum
  PROVE  SealQuorum(preprepare[n])
<1>. DEFINE b == preprepare[n]
<1>1. CASE \A c \in cs : c.src \in Sealers(b)
  <2>. DEFINE f == [c \in cs |-> c.src]
  <2>1. f \in Injection(cs, Sealers(b))
    BY <1>1 DEF Injection, IsInjective
  <2>2. IsFiniteSet(Sealers(b))
    BY FullnodesFinite, FS_Subset, CoresAssumption DEF Sealers
  <2>3. Cardinality(cs) <= Cardinality(Sealers(b)) /\ IsFiniteSet(cs)
    BY <2>1, <2>2, FS_Injection
  <2>4. Cardinality(cs) \in Nat /\ Cardinality(Sealers(b)) \in Nat /\ Quorum \in Nat
    BY <2>2, <2>3, FS_CardinalityType, NAssumption DEF Quorum, MinApprovers, CeilDiv
  <2>. QED
    BY <2>3, <2>4 DEF SealQuorum
<1>2. CASE \E c \in cs : c.src \notin Sealers(b)
  <2>1. PICK c \in cs : c.src \notin Sealers(b)
    BY <1>2
  <2>2. c.src \in Cores
    BY <2>1 DEF Sealers, Commit
  <2>3. PICK m \in msgs : m.code = "commit" /\ m.src = c.src /\ m.digest = b /\ m.seal = c.seal
    BY <2>2
  <2>4. m.seal # m.digest
    BY <2>1, <2>2, <2>3 DEF Sealers
  <2>5. m.digest.number \in 1 .. Len(chain[c.src]) /\ chain[c.src][m.digest.number] = b
    BY <2>3, <2>4 DEF ChainInd, OldCommitsInv
  <2>. QED
    BY <2>2, <2>5 DEF ChainInd, ChainInv
<1>. QED
  BY <1>1, <1>2

\* Handling a COMMIT.
LEMMA HandleCommitChain ==
  ASSUME CoreInd, ChainInd, NEW n \in Cores, NEW m \in msgs \cup EnvironmentMessages,
         HandleCommit(n, m)
  PROVE  ChainInd'
<1>. DEFINE cs == AddCommit(commits[n], m)
<1>1. m.src \in Cores => m \in msgs
  BY EnvironmentType
<1>2. m \in Message /\ m.code = "commit" /\ m.digest = preprepare[n] /\ preprepare[n] # NoBlock
  BY EnvironmentType DEF CoreInd, TypeOK, HandleCommit, SubjectMatches
<1>3. \A c \in cs :
        /\ \/ c.src \notin Cores
           \/ \E k \in msgs : /\ k.code = "commit" /\ k.src = c.src
                              /\ k.digest = preprepare[n] /\ k.seal = c.seal
        /\ \A d \in cs : d.src = c.src => d = c
  BY <1>1, <1>2 DEF ChainInd, CommitsInv, AddCommit
<1>4. cs \in SUBSET Commit
  BY <1>2 DEF AddCommit, CoreInd, TypeOK, Commit, Message
<1>5. commits' = [commits EXCEPT ![n] = cs] =>
        commits'[n] = cs /\ \A k \in Cores : k # n => commits'[k] = commits[k]
  BY DEF CoreInd, TypeOK
<1>. HIDE DEF cs
<1>6. CASE DeliverBlock(n, cs) /\ Cardinality(cs) >= Quorum
  <2>1. UNCHANGED <<chain, preprepare, msgs>> /\ commits' = [commits EXCEPT ![n] = cs]
    BY <1>6 DEF DeliverBlock
  <2>2. CommitsInv'
    BY <1>3, <1>5, <2>1 DEF ChainInd, CommitsInv
  <2>3. OldCommitsInv' /\ ChainInv' /\ \A d \in delivered : SealQuorum(d.block)'
    BY <2>1, ChainInvFrame DEF ChainInd, OldCommitsInv
  <2>4. SealQuorum(preprepare[n])
    BY <1>3, <1>4, <1>6, CommitQuorumSeals
  <2>5. \A d \in delivered' : d \in delivered \/ d.block = preprepare[n]
    BY <1>6 DEF DeliverBlock
  <2>6. ASSUME NEW d \in delivered'
        PROVE  SealQuorum(d.block)'
    <3>1. CASE d \in delivered
      BY <2>3, <3>1
    <3>2. CASE d.block = preprepare[n]
      <4>1. SealQuorum(d.block)
        BY <2>4, <3>2
      <4>. QED
        BY <2>1, <4>1, SealQuorumStable
    <3>. QED
      BY <2>5, <3>1, <3>2
  <2>. QED
    BY <2>2, <2>3, <2>6 DEF ChainInd, DeliveredInv
<1>7. CASE FailToDeliver(n)
  <2>1. UNCHANGED <<chain, delivered>> /\ commits' = [commits EXCEPT ![n] = {}]
    BY <1>7 DEF FailToDeliver, SendRoundChange, UpdateRoundState, chainVars
  <2>2. \A k \in Cores : k # n => preprepare'[k] = preprepare[k]
    BY <1>7 DEF FailToDeliver, SendRoundChange, UpdateRoundState, CoreInd, TypeOK
  <2>3. msgs \subseteq msgs' /\ \A k \in msgs' \ msgs : k.code # "commit"
    BY <1>7 DEF FailToDeliver, SendRoundChange, Broadcast, RoundChange
  <2>. QED
    BY <2>1, <2>2, <2>3, ChainFrame DEF CoreInd, TypeOK
<1>8. CASE /\ commits' = [commits EXCEPT ![n] = cs]
           /\ UNCHANGED <<state, sequence, round, preprepare, prepares, lockedHash,
                          pendingRequest, roundChanges, waitingForRoundChange,
                          speaker, chainVars, msgs>>
  <2>1. CommitsInv'
    BY <1>3, <1>8, <1>5 DEF ChainInd, CommitsInv
  <2>2. OldCommitsInv' /\ DeliveredInv' /\ ChainInv'
    BY <1>8, ChainInvFrame DEF ChainInd, OldCommitsInv, DeliveredInv, chainVars
  <2>. QED
    BY <2>1, <2>2 DEF ChainInd
<1>. QED
  BY <1>6, <1>7, <1>8 DEF HandleCommit, cs

\* A step of a round or sequence change empties the set of COMMITs.
LEMMA ResetCommitsChain ==
  ASSUME CoreInd, ChainInd, NEW n \in Cores, NEW r, NEW locked,
         UpdateRoundState(n, r, locked), UNCHANGED chainVars, msgs \subseteq msgs',
         \A m \in msgs' \ msgs : m.code # "commit"
  PROVE  ChainInd'
<1>1. commits'[n] = {} /\ \A k \in Cores : k # n => /\ commits'[k] = commits[k]
                                                  /\ preprepare'[k] = preprepare[k]
  BY DEF UpdateRoundState, CoreInd, TypeOK
<1>2. UNCHANGED <<chain, delivered>>
  BY DEF chainVars
<1>. QED
  BY <1>1, <1>2, ChainFrame

\* So do sendRoundChange and both cases of startNewRound.
LEMMA RoundChangesChain ==
  ASSUME CoreInd, ChainInd, NEW n \in Cores, NEW r, NEW rcs, NEW locked,
         \/ SendRoundChange(n, r, rcs, locked) /\ UNCHANGED chainVars
         \/ StartNewSequence(n)
         \/ StartNextRound(n, r)
  PROVE  ChainInd'
<1>1. CASE SendRoundChange(n, r, rcs, locked) /\ UNCHANGED chainVars
  <2>1. msgs \subseteq msgs' /\ \A m \in msgs' \ msgs : m.code # "commit"
    BY <1>1 DEF SendRoundChange, Broadcast, RoundChange
  <2>. QED
    BY <1>1, <2>1, ResetCommitsChain DEF SendRoundChange
<1>2. CASE StartNewSequence(n)
  BY Zenon, <1>2, ResetCommitsChain DEF StartNewSequence
<1>3. CASE StartNextRound(n, r)
  <2>1. msgs \subseteq msgs' /\ \A m \in msgs' \ msgs : m.code # "commit"
    <3>. DEFINE p == Preprepare(n, sequence[n], r, Reproposal(n))
    <3>1. p.code # "commit"
      BY DEF Preprepare
    <3>2. msgs' = msgs \/ msgs' = msgs \cup {p}
      BY Zenon, <1>3 DEF StartNextRound, Broadcast
    <3>. HIDE DEF p
    <3>. QED
      BY <3>1, <3>2
  <2>. QED
    BY <1>3, <2>1, ResetCommitsChain DEF StartNextRound
<1>. QED
  BY <1>1, <1>2, <1>3

\* Handling any other message.
LEMMA HandleChain ==
  ASSUME CoreInd, ChainInd, NEW n \in Cores, NEW m \in msgs \cup EnvironmentMessages,
         Handle(n, m)
  PROVE  ChainInd'
<1>1. m \in Message /\ (m.code # "roundchange" => m.digest \in Block /\ m.digest.number = m.seq)
  BY EnvironmentType DEF CoreInd, TypeOK, MessagesInv
<1>2. CASE HandleOldPreprepare(n, m) /\ m.code = "preprepare"
  <2>1. UNCHANGED <<chain, delivered, commits, preprepare>> /\ msgs \subseteq msgs'
    BY <1>2 DEF HandleOldPreprepare, BroadcastCommit, Broadcast, coreVars, chainVars, current
  <2>2. ASSUME NEW k \in msgs' \ msgs
        PROVE  /\ k.digest.number \in 1 .. Len(chain[k.src])
               /\ chain[k.src][k.digest.number] = k.digest
    <3>1. k.src = n /\ k.digest = m.digest
      BY <1>2 DEF HandleOldPreprepare, BroadcastCommit, Broadcast, CommitMsg
    <3>2. m.digest.number \in Nat \ {0} /\ Len(chain[n]) \in Nat
      BY <1>1, <1>2 DEF Block, CoreInd, TypeOK
    <3>. QED
      BY <1>2, <3>1, <3>2 DEF HandleOldPreprepare
  <2>. QED
    BY <2>1, <2>2, ChainFrame
<1>3. CASE SendNextRoundChange(n)
  BY <1>3, RoundChangesChain DEF SendNextRoundChange
<1>4. CASE (CommitLockedPreprepare(n, m) \/ AcceptPreprepare(n, m)) /\ m.code = "preprepare"
  <2>1. /\ UNCHANGED <<chain, delivered, commits>> /\ msgs \subseteq msgs'
        /\ \A k \in msgs' \ msgs : k.code = "commit" => k.seal = k.digest
    BY <1>4 DEF CommitLockedPreprepare, AcceptPreprepare, BroadcastCommit, Broadcast, CommitMsg,
       Prepare, chainVars
  <2>2. commits[n] = {}
    BY <1>4 DEF CommitLockedPreprepare, AcceptPreprepare, CoreInd, NoVotesInv
  <2>3. \A k \in Cores : k # n => preprepare'[k] = preprepare[k]
    BY <1>4 DEF CommitLockedPreprepare, AcceptPreprepare, CoreInd, TypeOK
  <2>. QED
    BY <2>1, <2>2, <2>3, ChainFrame
<1>5. CASE HandlePreprepare(n, m)
  BY <1>2, <1>3, <1>4, <1>5 DEF HandlePreprepare, RejectPreprepare, RefuseUnlockedPreprepare
<1>6. CASE HandlePrepare(n, m)
  <2>1. /\ UNCHANGED <<chain, delivered, commits, preprepare>> /\ msgs \subseteq msgs'
        /\ \A k \in msgs' \ msgs : k.code = "commit" => k.seal = k.digest
    BY <1>6 DEF HandlePrepare, BroadcastCommit, Broadcast, CommitMsg, chainVars
  <2>. QED
    BY <2>1, ChainFrame
<1>7. CASE HandleCommit(n, m)
  BY <1>7, HandleCommitChain
<1>8. CASE HandleRoundChange(n, m)
  <2>. DEFINE rcs == roundChanges[n] \cup {<<m.round, m.src>>}
  <2>1. \/ SendRoundChange(n, m.round, rcs, IsHashLocked(n)) /\ UNCHANGED <<state, chainVars>>
        \/ UNCHANGED <<state, current, waitingForRoundChange, speaker, chainVars, msgs>>
        \/ StartNewRound(n, m.round)
    BY <1>8 DEF HandleRoundChange
  <2>2. CASE UNCHANGED <<state, current, waitingForRoundChange, speaker, chainVars, msgs>>
    BY <2>2, ChainFrame DEF current, chainVars
  <2>. QED
    BY <2>1, <2>2, RoundChangesChain DEF StartNewRound
<1>. QED
  BY <1>5, <1>6, <1>7, <1>8 DEF Handle

\* The blockchain writes a block that a quorum has sealed, or that the core
\* has delivered to it.
LEMMA InsertBlockChain ==
  ASSUME CoreInd, ChainInd, NEW n \in Cores, NEW b \in BoundedBlock, InsertBlock(n, b)
  PROVE  ChainInd'
<1>1. UNCHANGED <<coreVars, delivered, badBlocks, msgs>> /\ UNCHANGED <<preprepare, commits>>
  BY DEF InsertBlock, coreVars, current
<1>2. b \in Block /\ b.number = Len(chain[n]) + 1 /\ Valid(b)
  BY BoundsAssumption DEF BoundedBlock, Block, InsertBlock
<1>3. SealQuorum(b)
  BY DEF InsertBlock, ChainInd, DeliveredInv
<1>4. chain'[n] = Append(chain[n], b) /\ \A k \in Cores : k # n => chain'[k] = chain[k]
  BY DEF InsertBlock, CoreInd, TypeOK
<1>5. \A k \in Cores : chain[k] \in Seq(Block) /\ Len(chain[k]) \in Nat
  BY DEF CoreInd, TypeOK
<1>6. /\ Len(chain'[n]) = Len(chain[n]) + 1
      /\ \A h \in 1 .. Len(chain[n]) : chain'[n][h] = chain[n][h]
      /\ chain'[n][Len(chain[n]) + 1] = b
  BY <1>2, <1>4, <1>5
<1>7. \A k \in Cores : \A h \in 1 .. Len(chain[k]) :
        h \in 1 .. Len(chain'[k]) /\ chain'[k][h] = chain[k][h]
  BY <1>4, <1>5, <1>6
<1>8. OldCommitsInv'
  BY <1>1, <1>7 DEF ChainInd, OldCommitsInv, CoreInd, MessagesInv
<1>9. CommitsInv'
  BY <1>1 DEF ChainInd, CommitsInv
<1>10. \A a : SealQuorum(a) => SealQuorum(a)'
  BY <1>1, SealQuorumStable
<1>11. DeliveredInv'
  BY <1>1, <1>10 DEF ChainInd, DeliveredInv
<1>12. ASSUME NEW k \in Cores, NEW h \in 1 .. Len(chain'[k]), NEW a, a = chain'[k][h]
       PROVE  a.number = h /\ Valid(a) /\ SealQuorum(a)
  <2>1. CASE h \in 1 .. Len(chain[k])
    BY <1>7, <1>12, <2>1 DEF ChainInd, ChainInv
  <2>2. CASE h \notin 1 .. Len(chain[k])
    <3>1. k = n /\ h = Len(chain[n]) + 1
      BY <1>4, <1>5, <1>6, <2>2
    <3>. QED
      BY <1>2, <1>3, <1>6, <1>12, <3>1
  <2>. QED
    BY <2>1, <2>2
<1>13. ChainInv'
  BY <1>10, <1>12 DEF ChainInv
<1>. QED
  BY <1>8, <1>9, <1>11, <1>13 DEF ChainInd

\* The second half of the invariant is inductive, given the first.
LEMMA ChainStep ==
  ASSUME CoreInd, ChainInd, [Next]_vars
  PROVE  ChainInd'
<1>1. CASE UNCHANGED vars
  BY <1>1, ChainFrame DEF vars, coreVars, current, chainVars
<1>2. ASSUME NEW n \in Cores, NEW b \in BoundedBlock, HandleRequest(n, b)
      PROVE  ChainInd'
  <2>1. /\ UNCHANGED <<chain, delivered, commits, preprepare>> /\ msgs \subseteq msgs'
        /\ \A k \in msgs' \ msgs : k.code # "commit"
    BY <1>2 DEF HandleRequest, Broadcast, Preprepare, chainVars
  <2>. QED
    BY <2>1, ChainFrame
<1>3. ASSUME NEW n \in Cores, HandleTimeout(n)
      PROVE  ChainInd'
  BY <1>3, RoundChangesChain DEF HandleTimeout, SendNextRoundChange
<1>4. ASSUME NEW n \in Cores, NEW b \in BoundedBlock, RejectBlock(n, b)
      PROVE  ChainInd'
  BY <1>4, ChainFrame DEF RejectBlock, coreVars, current
<1>5. ASSUME NEW n \in Cores, NEW d \in delivered, RejectCopy(n, d)
      PROVE  ChainInd'
  BY <1>5, ChainFrame DEF RejectCopy, coreVars, current
<1>6. ASSUME NEW n \in Cores, HandleFinalCommitted(n)
      PROVE  ChainInd'
  BY <1>6, RoundChangesChain DEF HandleFinalCommitted
<1>7. CASE Next
  BY <1>2, <1>3, <1>4, <1>5, <1>6, <1>7, HandleChain, InsertBlockChain DEF Next
<1>. QED
  BY <1>1, <1>7

\* And holds at the start.
LEMMA ChainInit == Init => ChainInd
  BY DEF Init, ChainInd, OldCommitsInv, CommitsInv, DeliveredInv, ChainInv

\* A quorum cannot seal two valid blocks of a height.
THEOREM SealsAgree ==
  ASSUME FewOutside, ~Downloads
  PROVE  Spec => []SealAgreement
<1>1. SealInd => SealAgreement
  <2>. SUFFICES ASSUME SealInd, NEW m1 \in msgs, NEW m2 \in msgs,
                       IsSealedCommit(m1), IsSealedCommit(m2),
                       Valid(m1.digest), Valid(m2.digest),
                       m1.digest.number = m2.digest.number,
                       SealQuorum(m1.digest), SealQuorum(m2.digest)
                PROVE  m1.digest = m2.digest
    BY DEF SealAgreement
  <2>1. m1.digest \in Block /\ m2.digest \in Block
    BY DEF SealInd, MessagesInv, IsSealedCommit
  <2>. QED
    BY <2>1, SealedBlocksAgree
<1>2. CoreInd /\ SealInd /\ [Next]_vars => CoreInd' /\ SealInd'
  BY CoreStep, SealStep
<1>. QED
  BY <1>1, <1>2, CoreInit, SealInit, PTL DEF Spec

\* A quorum has sealed every block handleCommit delivers, whether or not the
\* seals it delivers with the block verify, and whatever the downloader does.
THEOREM DeliveredQuorum == Spec => []DeliveredInv
<1>1. CoreInd /\ ChainInd => DeliveredInv
  BY DEF ChainInd
<1>2. CoreInd /\ ChainInd /\ [Next]_vars => CoreInd' /\ ChainInd'
  BY CoreStep, ChainStep
<1>. QED
  BY <1>1, <1>2, CoreInit, ChainInit, PTL DEF Spec

\* The chains of the cores never differ at a height, however messages are
\* lost, repeated and reordered and whenever timers expire.
THEOREM Agreement ==
  ASSUME FewOutside, ~Downloads
  PROVE  Spec => []ChainAgreement
<1>1. SealInd /\ ChainInd => ChainAgreement
  <2>. SUFFICES ASSUME SealInd, ChainInd, NEW n1 \in Cores, NEW n2 \in Cores,
                       NEW h \in 1 .. Len(chain[n1]), h <= Len(chain[n2])
                PROVE  chain[n1][h] = chain[n2][h]
    BY DEF ChainAgreement
  <2>1. h \in 1 .. Len(chain[n2]) /\ chain[n1][h] \in Block /\ chain[n2][h] \in Block
    BY DEF SealInd, TypeOK
  <2>. QED
    BY <2>1, SealedBlocksAgree DEF ChainInd, ChainInv
<1>2. SealInd /\ CoreInd /\ ChainInd /\ [Next]_vars => SealInd' /\ CoreInd' /\ ChainInd'
  BY SealStep, CoreStep, ChainStep
<1>. QED
  BY <1>1, <1>2, SealInit, CoreInit, ChainInit, PTL DEF Spec

\* The cores implement the ledger: every write to a chain is a write the ledger
\* allows, and every other step leaves all chains alone.
THEOREM LedgerRefinement ==
  ASSUME FewOutside, ~Downloads
  PROVE  Spec => ImplementsLedger
<1>1. Init => L!Init
  BY DEF Init, L!Init
<1>2. SealInd /\ ChainInd /\ [Next]_vars => [L!Next]_chain
  <2>. SUFFICES ASSUME SealInd, ChainInd, [Next]_vars
                PROVE  [L!Next]_chain
    OBVIOUS
  <2>1. ASSUME NEW n \in Cores, NEW b \in BoundedBlock, InsertBlock(n, b)
        PROVE  L!Next
    <3>1. b \in Block /\ b.number = Len(chain[n]) + 1 /\ Valid(b)
      BY <2>1, BoundsAssumption DEF BoundedBlock, Block, InsertBlock
    <3>2. SealQuorum(b)
      BY <2>1 DEF InsertBlock, ChainInd, DeliveredInv
    <3>3. ASSUME NEW k \in Cores, Len(chain[k]) >= Len(chain[n]) + 1
          PROVE  chain[k][Len(chain[n]) + 1] = b
      <4>1. Len(chain[n]) + 1 \in 1 .. Len(chain[k]) /\ chain[k][Len(chain[n]) + 1] \in Block
        BY <3>3 DEF SealInd, TypeOK
      <4>. QED
        BY <3>1, <3>2, <4>1, SealedBlocksAgree DEF ChainInd, ChainInv
    <3>4. L!Write(n, b)
      BY <2>1, <3>3 DEF L!Write, L!Agreed, InsertBlock
    <3>. QED
      BY <3>4 DEF L!Next
  <2>2. (\A n \in Cores : \A b \in BoundedBlock : ~InsertBlock(n, b)) => UNCHANGED chain
    <3>1. ASSUME NEW n \in Cores, NEW m \in msgs \cup EnvironmentMessages, Handle(n, m)
          PROVE  UNCHANGED chain
      BY Zenon, <3>1 DEF Handle, HandlePreprepare, HandleOldPreprepare, RejectPreprepare,
         CommitLockedPreprepare, RefuseUnlockedPreprepare, AcceptPreprepare, HandlePrepare,
         HandleCommit, DeliverBlock, FailToDeliver, HandleRoundChange, SendNextRoundChange,
         StartNewRound, StartNewSequence, StartNextRound, chainVars
    <3>. QED
      BY Zenon, <3>1 DEF Next, HandleRequest, HandleTimeout, HandleFinalCommitted, SendNextRoundChange,
         StartNewSequence, RejectBlock, RejectCopy, vars, chainVars
  <2>. QED
    BY <2>1, <2>2
<1>3. SealInd /\ CoreInd /\ ChainInd /\ [Next]_vars => SealInd' /\ CoreInd' /\ ChainInd'
  BY SealStep, CoreStep, ChainStep
<1>. QED
  BY <1>1, <1>2, <1>3, SealInit, CoreInit, ChainInit, PTL DEF Spec, ImplementsLedger, L!Spec

\* The view of a core never goes back to an earlier sequence or round.
THEOREM ViewMonotone == Spec => ViewNeverDecreases
<1>. DEFINE Forward == \A n \in Cores :
              \/ sequence'[n] > sequence[n]
              \/ sequence'[n] = sequence[n] /\ round'[n] >= round[n]
<1>1. CoreInd /\ [Next]_vars => [Forward]_vars
  <2>. SUFFICES ASSUME CoreInd, Next
                PROVE  Forward
    OBVIOUS
  <2>1. \A n \in Cores : sequence[n] \in Nat /\ round[n] \in Nat /\ Len(chain[n]) \in Nat
    BY DEF CoreInd, TypeOK
  <2>2. ASSUME NEW n \in Cores, NEW r \in Nat, NEW rcs, NEW locked,
               \/ SendRoundChange(n, r, rcs, locked)
               \/ StartNewSequence(n)
               \/ StartNextRound(n, r)
        PROVE  Forward
    <3>1. sequence \in [Cores -> Nat \ {0}] /\ round \in [Cores -> Nat]
      BY DEF CoreInd, TypeOK
    <3>2. CASE \/ SendRoundChange(n, r, rcs, locked)
               \/ StartNextRound(n, r)
      <4>1. UNCHANGED sequence /\ round' = [round EXCEPT ![n] = r] /\ r >= round[n]
        BY <2>1, <3>2 DEF SendRoundChange, StartNextRound, UpdateRoundState
      <4>. QED
        BY <2>1, <3>1, <4>1
    <3>3. CASE StartNewSequence(n)
      <4>1. /\ sequence' = [sequence EXCEPT ![n] = Len(chain[n]) + 1]
            /\ round' = [round EXCEPT ![n] = 0] /\ Len(chain[n]) >= sequence[n]
        BY <3>3 DEF StartNewSequence, UpdateRoundState
      <4>. QED
        BY <2>1, <3>1, <4>1
    <3>. QED
      BY <2>2, <3>2, <3>3
  <2>3. UNCHANGED <<sequence, round>> => Forward
    BY <2>1
  <2>. HIDE DEF Forward
  <2>4. ASSUME NEW n \in Cores, NEW m \in msgs \cup EnvironmentMessages, Handle(n, m)
        PROVE  Forward
    <3>1. m \in Message /\ m.round \in Nat /\ round[n] + 1 \in Nat
      BY <2>1, EnvironmentType DEF CoreInd, TypeOK, Message
    <3>2. SendNextRoundChange(n) => Forward
      BY <2>2, <3>1 DEF SendNextRoundChange
    <3>3. CASE HandlePreprepare(n, m) \/ HandlePrepare(n, m)
      BY Zenon, <2>3, <3>2, <3>3 DEF HandlePreprepare, HandleOldPreprepare, RejectPreprepare,
         CommitLockedPreprepare, RefuseUnlockedPreprepare, AcceptPreprepare, HandlePrepare,
         coreVars, current
    <3>4. CASE HandleCommit(n, m)
      BY Zenon, <2>2, <2>3, <3>1, <3>4 DEF HandleCommit, DeliverBlock, FailToDeliver
    <3>5. CASE HandleRoundChange(n, m)
      BY <2>2, <2>3, <3>1, <3>5 DEF HandleRoundChange, StartNewRound, current
    <3>. QED
      BY <2>4, <3>3, <3>4, <3>5 DEF Handle
  <2>5. ASSUME NEW n \in Cores, HandleTimeout(n)
        PROVE  Forward
    <3>1. CertifiedRounds(n) \subseteq Nat /\ round[n] + 1 \in Nat
      BY <2>1 DEF CoreInd, TypeOK, CertifiedRounds
    <3>2. ASSUME NEW r \in Nat, SendRoundChange(n, r, roundChanges[n], IsHashLocked(n))
          PROVE  Forward
      BY <2>2, <3>2
    <3>3. \/ \E r \in Nat : SendRoundChange(n, r, roundChanges[n], IsHashLocked(n))
          \/ StartNewSequence(n)
      BY <2>5, <3>1 DEF HandleTimeout, SendNextRoundChange
    <3>. QED
      BY <2>2, <3>2, <3>3
  <2>6. ASSUME NEW n \in Cores, NEW b \in BoundedBlock,
               HandleRequest(n, b) \/ InsertBlock(n, b) \/ RejectBlock(n, b)
        PROVE  Forward
    BY <2>3, <2>6 DEF HandleRequest, InsertBlock, RejectBlock, coreVars, current
  <2>7. ASSUME NEW n \in Cores, NEW d \in delivered, RejectCopy(n, d)
        PROVE  Forward
    BY <2>3, <2>7 DEF RejectCopy, coreVars, current
  <2>. QED
    BY <2>2, <2>4, <2>5, <2>6, <2>7 DEF Next, HandleFinalCommitted
<1>2. CoreInd /\ [Next]_vars => CoreInd'
  BY CoreStep
<1>. QED
  BY <1>1, <1>2, CoreInit, PTL DEF Spec, ViewNeverDecreases
=============================================================================
