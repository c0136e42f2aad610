--------------------------- MODULE SportCoreProofs ---------------------------
(***************************************************************************)
(* Theorems about SportCore, for every number of fullnodes, of rounds and  *)
(* of heights.                                                             *)
(***************************************************************************)
EXTENDS SportCore, FiniteSetTheorems, TLAPS

-----------------------------------------------------------------------------
(* Facts about the constants and the operators.                            *)

\* The fullnodes of a set are finitely many.
LEMMA FullnodesFinite == IsFiniteSet(Fullnodes) /\ Cardinality(Fullnodes) = N
<1>1. 0 \in Int /\ N - 1 \in Int
  BY NAssumption
<1>. QED
  BY <1>1, NAssumption, FS_Interval DEF Fullnodes

\* roundRobinSpeaker picks a fullnode.
LEMMA SpeakerIsFullnode ==
  ASSUME NEW offset \in Fullnodes \cup {EmptyAddress}, NEW r \in Nat
  PROVE  roundRobinSpeaker(N, offset, r) \in Fullnodes
<1>1. (IF offset = EmptyAddress THEN r ELSE calcSeed(offset, r) + 1) \in Nat
  BY NAssumption DEF Fullnodes, EmptyAddress, calcSeed
<1>. QED
  BY <1>1, NAssumption DEF roundRobinSpeaker, Fullnodes

\* The last block's author is a fullnode, or there is no block.
LEMMA LastSpeakerType ==
  ASSUME NEW c \in Seq(Block)
  PROVE  LastSpeaker(c) \in Fullnodes \cup {EmptyAddress}
<1>1. c # <<>> => c[Len(c)] \in Block
  OBVIOUS
<1>. QED
  BY <1>1 DEF LastSpeaker, Block

\* The messages from outside the model are messages about bounded blocks.
LEMMA EnvironmentType ==
  ASSUME NEW m \in EnvironmentMessages
  PROVE  /\ m \in Message
         /\ m.src \in Fullnodes \ Cores
         /\ m.code # "roundchange" => m.digest \in Block /\ m.digest.number = m.seq
<1>1. BoundedBlock \subseteq Block
  BY BoundsAssumption DEF BoundedBlock, Block
<1>2. 0 .. MaxRound \subseteq Nat /\ 1 .. MaxSequence \subseteq Nat
  OBVIOUS
<1>3. \A b \in Block : b.number \in Nat
  BY DEF Block
<1>4. CASE \E n \in Fullnodes \ Cores, r \in 0 .. MaxRound, b \in BoundedBlock :
             \/ m = Preprepare(n, b.number, r, b)
             \/ m = Prepare(n, b.number, r, b)
             \/ m = CommitMsg(n, b.number, r, b, b)
  BY <1>1, <1>2, <1>3, <1>4
     DEF Message, Codes, MaybeBlock, Preprepare, Prepare, CommitMsg
<1>5. CASE \E n \in Fullnodes \ Cores, s \in 1 .. MaxSequence, r \in 0 .. MaxRound :
             m = RoundChange(n, s, r)
  BY <1>2, <1>5 DEF Message, Codes, MaybeBlock, RoundChange
<1>. QED
  BY <1>4, <1>5 DEF EnvironmentMessages

-----------------------------------------------------------------------------
(* Type correctness.                                                       *)

\* catchUpRound and the ROUND CHANGE it ends with keep the types.
LEMMA SendRoundChangeType ==
  ASSUME TypeOK, NEW n \in Cores, NEW r \in Nat,
         NEW rcs \in SUBSET (Nat \X Fullnodes), NEW locked \in BOOLEAN,
         SendRoundChange(n, r, rcs, locked), state' \in [Cores -> States],
         UNCHANGED chainVars
  PROVE  TypeOK'
<1>1. RoundChange(n, sequence[n], r) \in Message
  BY CoresAssumption DEF TypeOK, RoundChange, Message, Codes, MaybeBlock
<1>2. msgs' \in SUBSET Message
  BY <1>1 DEF TypeOK, SendRoundChange, Broadcast
<1>3. /\ round' \in [Cores -> Nat]
      /\ preprepare' \in [Cores -> MaybeBlock]
      /\ lockedHash' \in [Cores -> MaybeBlock]
      /\ prepares' \in [Cores -> SUBSET Fullnodes]
      /\ commits' \in [Cores -> SUBSET Commit]
  BY DEF TypeOK, SendRoundChange, UpdateRoundState, MaybeBlock
<1>4. /\ waitingForRoundChange' \in [Cores -> BOOLEAN]
      /\ roundChanges' \in [Cores -> SUBSET (Nat \X Fullnodes)]
  BY DEF TypeOK, SendRoundChange
<1>. QED
  BY <1>2, <1>3, <1>4 DEF TypeOK, SendRoundChange, chainVars

\* So does startNewRound when it begins a sequence.
LEMMA StartNewSequenceType ==
  ASSUME TypeOK, NEW n \in Cores, StartNewSequence(n)
  PROVE  TypeOK'
<1>1. roundRobinSpeaker(N, LastSpeaker(chain[n]), 0) \in Fullnodes
  BY Zenon, LastSpeakerType, SpeakerIsFullnode DEF TypeOK
<1>2. Len(chain[n]) + 1 \in Nat \ {0}
  BY DEF TypeOK
<1>. QED
  BY <1>1, <1>2 DEF TypeOK, StartNewSequence, UpdateRoundState, chainVars, MaybeBlock, States

\* And when it begins a round.
LEMMA StartNextRoundType ==
  ASSUME TypeOK, NEW n \in Cores, NEW r \in Nat, StartNextRound(n, r)
  PROVE  TypeOK'
<1>1. roundRobinSpeaker(N, LastSpeaker(chain[n]), r) \in Fullnodes
  BY Zenon, LastSpeakerType, SpeakerIsFullnode DEF TypeOK
<1>2. Preprepare(n, sequence[n], r, Reproposal(n)) \in Message
  BY CoresAssumption DEF TypeOK, Reproposal, Preprepare, Message, Codes, MaybeBlock
<1>3. msgs' \in SUBSET Message
  BY <1>2 DEF TypeOK, StartNextRound, Broadcast
<1>. QED
  BY <1>1, <1>3 DEF TypeOK, StartNextRound, UpdateRoundState, chainVars, MaybeBlock, States

\* The handlers of PRE-PREPARE, PREPARE, COMMIT and ROUND CHANGE keep the types.
LEMMA HandleType ==
  ASSUME TypeOK, NEW n \in Cores, NEW m \in Message, Handle(n, m),
         m.code # "roundchange" => m.digest \in Block
  PROVE  TypeOK'
<1>. USE CoresAssumption
<1>1. CASE HandlePreprepare(n, m)
  <2>1. m.digest \in Block
    BY <1>1 DEF HandlePreprepare
  <2>2. CASE HandleOldPreprepare(n, m)
    <3>1. CommitMsg(n, m.seq, m.round, m.digest, preprepare[n]) \in Message
      BY <2>1 DEF TypeOK, CommitMsg, Message, Codes, MaybeBlock
    <3>. QED
      BY <2>2, <3>1 DEF TypeOK, HandleOldPreprepare, BroadcastCommit, Broadcast, coreVars,
         current, chainVars
  <2>3. CASE SendNextRoundChange(n)
    <3>1. round[n] + 1 \in Nat /\ roundChanges[n] \in SUBSET (Nat \X Fullnodes)
      BY DEF TypeOK
    <3>. QED
      BY Zenon, <2>3, <3>1, SendRoundChangeType DEF SendNextRoundChange, TypeOK, IsHashLocked
  <2>4. CASE CommitLockedPreprepare(n, m)
    <3>1. CommitMsg(n, sequence[n], round[n], m.digest, m.digest) \in Message
      BY <2>1 DEF TypeOK, CommitMsg, Message, Codes, MaybeBlock
    <3>. QED
      BY <2>1, <2>4, <3>1 DEF TypeOK, CommitLockedPreprepare, BroadcastCommit, Broadcast,
         chainVars, MaybeBlock, States
  <2>5. CASE AcceptPreprepare(n, m)
    <3>1. Prepare(n, sequence[n], round[n], m.digest) \in Message
      BY <2>1 DEF TypeOK, Prepare, Message, Codes, MaybeBlock
    <3>. QED
      BY <2>1, <2>5, <3>1 DEF TypeOK, AcceptPreprepare, Broadcast, chainVars, MaybeBlock, States
  <2>. QED
    BY <1>1, <2>2, <2>3, <2>4, <2>5
       DEF HandlePreprepare, RejectPreprepare, RefuseUnlockedPreprepare
<1>2. CASE HandlePrepare(n, m)
  <2>1. CommitMsg(n, sequence[n], round[n], preprepare[n], preprepare[n]) \in Message
    BY DEF TypeOK, CommitMsg, Message, Codes, MaybeBlock
  <2>2. m.src \in Fullnodes
    BY DEF Message
  <2>3. state' \in [Cores -> States]
    BY Zenon, <1>2 DEF TypeOK, HandlePrepare, States
  <2>4. lockedHash' \in [Cores -> MaybeBlock]
    BY Zenon, <1>2 DEF TypeOK, HandlePrepare
  <2>5. prepares' \in [Cores -> SUBSET Fullnodes]
    BY Zenon, <1>2, <2>2 DEF TypeOK, HandlePrepare
  <2>6. msgs' \in SUBSET Message
    BY Zenon, <1>2, <2>1 DEF TypeOK, HandlePrepare, BroadcastCommit, Broadcast
  <2>. QED
    BY <1>2, <2>3, <2>4, <2>5, <2>6 DEF TypeOK, HandlePrepare, chainVars
<1>3. CASE HandleCommit(n, m)
  <2>1. AddCommit(commits[n], m) \in SUBSET Commit
    BY DEF TypeOK, AddCommit, Commit, Message
  <2>2. state' \in [Cores -> States]
    BY Zenon, <1>3 DEF TypeOK, HandleCommit, States
  <2>3. CASE DeliverBlock(n, AddCommit(commits[n], m))
    <3>1. preprepare[n] \in Block
      BY <1>3 DEF HandleCommit, SubjectMatches, TypeOK, MaybeBlock
    <3>2. [node |-> n, block |-> preprepare[n],
           sealed |-> SealsVerify(preprepare[n], AddCommit(commits[n], m))]
             \in [node : Cores, block : Block, sealed : BOOLEAN]
      BY <3>1 DEF SealsVerify
    <3>. QED
      BY <2>1, <2>2, <2>3, <3>2 DEF TypeOK, DeliverBlock
  <2>4. CASE FailToDeliver(n)
    <3>1. round[n] + 1 \in Nat /\ roundChanges[n] \in SUBSET (Nat \X Fullnodes)
      BY DEF TypeOK
    <3>. QED
      BY Zenon, <2>2, <2>4, <3>1, SendRoundChangeType DEF FailToDeliver
  <2>5. CASE /\ commits' = [commits EXCEPT ![n] = AddCommit(commits[n], m)]
             /\ UNCHANGED <<state, sequence, round, preprepare, prepares, lockedHash,
                            pendingRequest, roundChanges, waitingForRoundChange,
                            speaker, chainVars, msgs>>
    BY <2>1, <2>5 DEF TypeOK, chainVars
  <2>. QED
    BY <1>3, <2>3, <2>4, <2>5 DEF HandleCommit
<1>4. CASE HandleRoundChange(n, m)
  <2>. DEFINE rcs == roundChanges[n] \cup {<<m.round, m.src>>}
  <2>1. m.round \in Nat /\ rcs \in SUBSET (Nat \X Fullnodes)
    BY DEF TypeOK, Message
  <2>2. CASE /\ SendRoundChange(n, m.round, rcs, IsHashLocked(n))
             /\ UNCHANGED <<state, chainVars>>
    BY Zenon, <2>1, <2>2, SendRoundChangeType DEF TypeOK, IsHashLocked
  <2>3. CASE /\ roundChanges' = [roundChanges EXCEPT ![n] = rcs]
             /\ UNCHANGED <<state, current, waitingForRoundChange, speaker, chainVars, msgs>>
    BY <2>1, <2>3 DEF TypeOK, current, chainVars
  <2>4. CASE StartNewRound(n, m.round)
    BY <2>1, <2>4, StartNewSequenceType, StartNextRoundType DEF StartNewRound
  <2>. QED
    BY <1>4, <2>2, <2>3, <2>4 DEF HandleRoundChange
<1>. QED
  BY <1>1, <1>2, <1>3, <1>4 DEF Handle

\* Every step keeps the types, given that messages carry blocks.
LEMMA TypeStep ==
  ASSUME TypeOK, MessagesInv, [Next]_vars
  PROVE  TypeOK'
<1>1. CASE UNCHANGED vars
  BY <1>1 DEF TypeOK, vars, coreVars, current, chainVars
<1>2. ASSUME NEW n \in Cores, NEW b \in BoundedBlock, HandleRequest(n, b)
      PROVE  TypeOK'
  <2>1. b \in Block
    BY BoundsAssumption DEF BoundedBlock, Block
  <2>2. Preprepare(n, sequence[n], round[n], b) \in Message
    BY <2>1, CoresAssumption DEF TypeOK, Preprepare, Message, Codes, MaybeBlock
  <2>. QED
    BY <1>2, <2>1, <2>2 DEF TypeOK, HandleRequest, Broadcast, chainVars, MaybeBlock
<1>3. ASSUME NEW n \in Cores, NEW m \in msgs \cup EnvironmentMessages, Handle(n, m)
      PROVE  TypeOK'
  <2>1. m \in Message /\ (m.code # "roundchange" => m.digest \in Block)
    BY EnvironmentType DEF TypeOK, MessagesInv
  <2>. QED
    BY <1>3, <2>1, HandleType
<1>4. ASSUME NEW n \in Cores, HandleTimeout(n)
      PROVE  TypeOK'
  <2>. DEFINE Catching(r) == /\ SendRoundChange(n, r, roundChanges[n], IsHashLocked(n))
                             /\ UNCHANGED <<state, chainVars>>
  <2>1. ASSUME NEW r \in Nat, Catching(r)
        PROVE  TypeOK'
    BY Zenon, <2>1, SendRoundChangeType DEF TypeOK, IsHashLocked
  <2>2. CertifiedRounds(n) \subseteq Nat
    BY DEF TypeOK, CertifiedRounds
  <2>3. round[n] + 1 \in Nat
    BY DEF TypeOK
  <2>4. SendNextRoundChange(n) => Catching(round[n] + 1)
    BY DEF SendNextRoundChange
  <2>5. \/ \E r \in CertifiedRounds(n) : Catching(r)
        \/ StartNewSequence(n)
        \/ SendNextRoundChange(n)
    BY <1>4 DEF HandleTimeout
  <2>. HIDE DEF Catching
  <2>. QED
    BY <2>1, <2>2, <2>3, <2>4, <2>5, StartNewSequenceType
<1>5. ASSUME NEW n \in Cores, HandleFinalCommitted(n)
      PROVE  TypeOK'
  BY <1>5, StartNewSequenceType DEF HandleFinalCommitted
<1>6. ASSUME NEW n \in Cores, NEW b \in BoundedBlock, InsertBlock(n, b) \/ RejectBlock(n, b)
      PROVE  TypeOK'
  <2>1. b \in Block
    BY BoundsAssumption DEF BoundedBlock, Block
  <2>2. Append(chain[n], b) \in Seq(Block)
    BY <2>1 DEF TypeOK
  <2>3. CASE InsertBlock(n, b)
    BY <2>2, <2>3 DEF TypeOK, InsertBlock, coreVars, current
  <2>4. CASE RejectBlock(n, b)
    BY <2>1, <2>4 DEF TypeOK, RejectBlock, coreVars, current
  <2>. QED
    BY <1>6, <2>3, <2>4
<1>7. ASSUME NEW n \in Cores, NEW d \in delivered, RejectCopy(n, d)
      PROVE  TypeOK'
  <2>1. d.block \in Block
    BY DEF TypeOK
  <2>. QED
    BY <1>7, <2>1 DEF TypeOK, RejectCopy, coreVars, current
<1>. QED
  BY <1>1, <1>2, <1>3, <1>4, <1>5, <1>6, <1>7 DEF Next

-----------------------------------------------------------------------------
(* The part of the invariants that needs no assumption on the downloader.  *)

\* A core that may accept a proposal has collected no votes.
NoVotesInv ==
  \A n \in Cores : state[n] = "AcceptRequest" => prepares[n] = {} /\ commits[n] = {}

CoreInd == TypeOK /\ MessagesInv /\ ProposalsInv /\ NoVotesInv

\* A round change keeps the core's proposals or drops them.
LEMMA SendRoundChangeCore ==
  ASSUME CoreInd, TypeOK', NEW n \in Cores, NEW r, NEW rcs, NEW locked,
         SendRoundChange(n, r, rcs, locked),
         UNCHANGED state \/ state' = [state EXCEPT ![n] = "Committed"]
  PROVE  CoreInd'
<1>. DEFINE p == RoundChange(n, sequence[n], r)
<1>1. p.src = n /\ p.code = "roundchange"
  BY DEF RoundChange
<1>2. \A m \in msgs' : m \in msgs \/ m = p
  BY Zenon DEF SendRoundChange, Broadcast
<1>3. /\ prepares'[n] = {} /\ commits'[n] = {}
      /\ preprepare'[n] = preprepare[n] \/ preprepare'[n] = NoBlock
      /\ sequence'[n] = sequence[n] /\ pendingRequest'[n] = pendingRequest[n]
  BY Zenon DEF CoreInd, TypeOK, SendRoundChange, UpdateRoundState
<1>4. \A k \in Cores : k # n =>
        /\ sequence'[k] = sequence[k] /\ preprepare'[k] = preprepare[k]
        /\ pendingRequest'[k] = pendingRequest[k] /\ state'[k] = state[k]
        /\ prepares'[k] = prepares[k] /\ commits'[k] = commits[k]
  BY Zenon DEF CoreInd, TypeOK, SendRoundChange, UpdateRoundState
<1>. HIDE DEF p
<1>5. MessagesInv'
  BY Zenon, <1>1, <1>2 DEF CoreInd, MessagesInv
<1>6. ProposalsInv'
  <2>1. /\ preprepare'[n] # NoBlock => preprepare'[n].number = sequence'[n]
        /\ pendingRequest'[n] # NoBlock => pendingRequest'[n].number = sequence'[n]
    BY Zenon, <1>3 DEF CoreInd, ProposalsInv
  <2>. QED
    BY Zenon, <1>4, <2>1 DEF CoreInd, ProposalsInv
<1>7. NoVotesInv'
  BY Zenon, <1>3, <1>4 DEF CoreInd, NoVotesInv
<1>. QED
  BY <1>5, <1>6, <1>7 DEF CoreInd

\* A new sequence starts without proposals.
LEMMA StartNewSequenceCore ==
  ASSUME CoreInd, NEW n \in Cores, StartNewSequence(n)
  PROVE  CoreInd'
<1>1. TypeOK'
  BY StartNewSequenceType DEF CoreInd
<1>2. MessagesInv'
  BY DEF CoreInd, MessagesInv, StartNewSequence
<1>3. ProposalsInv' /\ NoVotesInv'
  BY Zenon DEF CoreInd, TypeOK, ProposalsInv, NoVotesInv, StartNewSequence, UpdateRoundState
<1>. QED
  BY <1>1, <1>2, <1>3 DEF CoreInd

\* What a new round proposes is for the sequence at hand.
LEMMA StartNextRoundCore ==
  ASSUME CoreInd, NEW n \in Cores, NEW r \in Nat, StartNextRound(n, r)
  PROVE  CoreInd'
<1>. DEFINE p == Preprepare(n, sequence[n], r, Reproposal(n))
<1>1. TypeOK'
  BY StartNextRoundType DEF CoreInd
<1>2. Reproposal(n) # NoBlock => Reproposal(n) \in Block /\ Reproposal(n).number = sequence[n]
  BY DEF CoreInd, TypeOK, MaybeBlock, Reproposal, ProposalsInv
<1>3. p.src = n /\ p.digest = Reproposal(n) /\ p.seq = sequence[n]
  BY DEF Preprepare
<1>4. (msgs' = msgs \cup {p} /\ Reproposal(n) # NoBlock) \/ msgs' = msgs
  BY Zenon DEF StartNextRound, Broadcast
<1>5. /\ preprepare'[n] = preprepare[n] \/ preprepare'[n] = NoBlock
      /\ prepares'[n] = {} /\ commits'[n] = {}
      /\ sequence' = sequence /\ pendingRequest' = pendingRequest
  BY Zenon DEF CoreInd, TypeOK, StartNextRound, UpdateRoundState
<1>6. \A k \in Cores : k # n =>
        /\ preprepare'[k] = preprepare[k] /\ state'[k] = state[k]
        /\ prepares'[k] = prepares[k] /\ commits'[k] = commits[k]
  BY Zenon DEF CoreInd, TypeOK, StartNextRound, UpdateRoundState
<1>. HIDE DEF p
<1>7. MessagesInv'
  BY Zenon, <1>2, <1>3, <1>4 DEF CoreInd, MessagesInv
<1>8. ProposalsInv' /\ NoVotesInv'
  BY Zenon, <1>5, <1>6 DEF CoreInd, ProposalsInv, NoVotesInv
<1>. QED
  BY <1>1, <1>7, <1>8 DEF CoreInd

\* The handlers of messages.
LEMMA HandleCore ==
  ASSUME CoreInd, TypeOK', NEW n \in Cores, NEW m \in msgs \cup EnvironmentMessages,
         Handle(n, m)
  PROVE  CoreInd'
<1>1. m \in Message /\ (m.code # "roundchange" => m.digest \in Block /\ m.digest.number = m.seq)
  BY Zenon, EnvironmentType DEF CoreInd, TypeOK, MessagesInv
<1>2. SendNextRoundChange(n) => CoreInd'
  BY Zenon, SendRoundChangeCore DEF SendNextRoundChange
<1>3. CASE HandleOldPreprepare(n, m) /\ m.code = "preprepare"
  <2>. DEFINE p == CommitMsg(n, m.seq, m.round, m.digest, preprepare[n])
  <2>1. p.src = n /\ p.digest = m.digest /\ p.seq = m.seq
    BY DEF CommitMsg
  <2>2. msgs' = msgs \cup {p} /\ UNCHANGED coreVars
    BY <1>3 DEF HandleOldPreprepare, BroadcastCommit, Broadcast
  <2>. HIDE DEF p
  <2>3. MessagesInv'
    BY Zenon, <1>1, <1>3, <2>1, <2>2 DEF CoreInd, MessagesInv
  <2>. QED
    BY <2>2, <2>3 DEF CoreInd, ProposalsInv, NoVotesInv, coreVars, current
<1>4. CASE (CommitLockedPreprepare(n, m) \/ AcceptPreprepare(n, m)) /\ m.code = "preprepare"
  <2>1. m.digest \in Block /\ m.digest.number = sequence[n]
    BY <1>1, <1>4 DEF CommitLockedPreprepare, AcceptPreprepare, CheckMessage
  <2>2. PICK p : /\ p.src = n /\ p.digest = m.digest /\ p.seq = sequence[n]
                 /\ msgs' = msgs \cup {p}
    <3>1. CASE CommitLockedPreprepare(n, m)
      <4>. DEFINE c == CommitMsg(n, sequence[n], round[n], m.digest, m.digest)
      <4>1. c.src = n /\ c.digest = m.digest /\ c.seq = sequence[n]
        BY DEF CommitMsg
      <4>2. msgs' = msgs \cup {c}
        BY <3>1 DEF CommitLockedPreprepare, BroadcastCommit, Broadcast
      <4>. HIDE DEF c
      <4>. QED
        BY <4>1, <4>2
    <3>2. CASE AcceptPreprepare(n, m)
      <4>. DEFINE c == Prepare(n, sequence[n], round[n], m.digest)
      <4>1. c.src = n /\ c.digest = m.digest /\ c.seq = sequence[n]
        BY DEF Prepare
      <4>2. msgs' = msgs \cup {c}
        BY <3>2 DEF AcceptPreprepare, Broadcast
      <4>. HIDE DEF c
      <4>. QED
        BY <4>1, <4>2
    <3>. QED
      BY <1>4, <3>1, <3>2
  <2>3. /\ preprepare' = [preprepare EXCEPT ![n] = m.digest]
        /\ UNCHANGED <<sequence, prepares, commits, pendingRequest>>
        /\ \E s \in States \ {"AcceptRequest"} : state' = [state EXCEPT ![n] = s]
    BY <1>4 DEF CommitLockedPreprepare, AcceptPreprepare, States
  <2>4. MessagesInv'
    BY Zenon, <2>1, <2>2 DEF CoreInd, MessagesInv
  <2>5. ProposalsInv' /\ NoVotesInv'
    BY <2>1, <2>3 DEF CoreInd, TypeOK, ProposalsInv, NoVotesInv
  <2>. QED
    BY <2>4, <2>5 DEF CoreInd
<1>5. CASE HandlePrepare(n, m)
  <2>. DEFINE p == CommitMsg(n, sequence[n], round[n], preprepare[n], preprepare[n])
  <2>1. /\ preprepare[n] \in Block /\ preprepare[n].number = sequence[n]
        /\ state[n] # "AcceptRequest"
    BY Zenon, <1>5 DEF CoreInd, TypeOK, MaybeBlock, HandlePrepare, CheckMessage, SubjectMatches,
       ProposalsInv
  <2>2. p.src = n /\ p.digest = preprepare[n] /\ p.seq = sequence[n]
    BY DEF CommitMsg
  <2>3. \A k \in msgs' : k \in msgs \/ k = p
    BY Zenon, <1>5 DEF HandlePrepare, BroadcastCommit, Broadcast
  <2>4. /\ UNCHANGED <<sequence, preprepare, commits, pendingRequest>>
        /\ UNCHANGED state \/ state' = [state EXCEPT ![n] = "Prepared"]
        /\ prepares' = [prepares EXCEPT ![n] = @ \cup {m.src}]
    BY Zenon, <1>5 DEF HandlePrepare
  <2>. HIDE DEF p
  <2>5. MessagesInv'
    BY Zenon, <2>1, <2>2, <2>3 DEF CoreInd, MessagesInv
  <2>6. ProposalsInv' /\ NoVotesInv'
    BY <2>1, <2>4 DEF CoreInd, TypeOK, ProposalsInv, NoVotesInv
  <2>. QED
    BY <2>5, <2>6 DEF CoreInd
<1>6. CASE HandleCommit(n, m)
  <2>. DEFINE cs == AddCommit(commits[n], m)
  <2>1. state[n] # "AcceptRequest"
    BY <1>6 DEF HandleCommit, CheckMessage
  <2>2. UNCHANGED state \/ state' = [state EXCEPT ![n] = "Committed"]
    BY Zenon, <1>6 DEF HandleCommit
  <2>3. CASE FailToDeliver(n)
    BY Zenon, <2>2, <2>3, SendRoundChangeCore DEF FailToDeliver
  <2>4. CASE ~FailToDeliver(n)
    <3>1. /\ UNCHANGED <<sequence, preprepare, prepares, pendingRequest, msgs>>
          /\ commits' = [commits EXCEPT ![n] = cs]
      BY Zenon, <1>6, <2>4 DEF HandleCommit, DeliverBlock
    <3>. HIDE DEF cs
    <3>2. MessagesInv' /\ ProposalsInv'
      BY <3>1 DEF CoreInd, MessagesInv, ProposalsInv
    <3>3. NoVotesInv'
      BY <2>1, <2>2, <3>1 DEF CoreInd, TypeOK, NoVotesInv
    <3>. QED
      BY <3>2, <3>3 DEF CoreInd
  <2>. QED
    BY <2>3, <2>4
<1>7. CASE HandleRoundChange(n, m)
  <2>. DEFINE rcs == roundChanges[n] \cup {<<m.round, m.src>>}
  <2>1. m.round \in Nat
    BY <1>1 DEF Message
  <2>2. CASE SendRoundChange(n, m.round, rcs, IsHashLocked(n)) /\ UNCHANGED state
    BY Zenon, <2>2, SendRoundChangeCore
  <2>3. CASE UNCHANGED <<state, current, msgs>>
    BY Zenon, <2>3 DEF CoreInd, MessagesInv, ProposalsInv, NoVotesInv, current
  <2>4. CASE StartNewRound(n, m.round)
    BY <2>1, <2>4, StartNewSequenceCore, StartNextRoundCore DEF StartNewRound
  <2>. QED
    BY <1>7, <2>2, <2>3, <2>4 DEF HandleRoundChange
<1>. QED
  BY Zenon, <1>2, <1>3, <1>4, <1>5, <1>6, <1>7
     DEF Handle, HandlePreprepare, RejectPreprepare, RefuseUnlockedPreprepare

\* This part of the invariant is inductive.
LEMMA CoreStep ==
  ASSUME CoreInd, [Next]_vars
  PROVE  CoreInd'
<1>1. TypeOK'
  BY TypeStep DEF CoreInd
<1>2. UNCHANGED <<coreVars, msgs>> => CoreInd'
  BY <1>1 DEF CoreInd, MessagesInv, ProposalsInv, NoVotesInv, coreVars, current
<1>3. ASSUME NEW n \in Cores, NEW b \in BoundedBlock, HandleRequest(n, b)
      PROVE  CoreInd'
  <2>. DEFINE p == Preprepare(n, sequence[n], round[n], b)
  <2>1. b \in Block /\ b.number = sequence[n]
    BY <1>3, BoundsAssumption DEF BoundedBlock, Block, HandleRequest
  <2>2. p.src = n /\ p.digest = b /\ p.seq = sequence[n]
    BY DEF Preprepare
  <2>3. \A m \in msgs' : m \in msgs \/ m = p
    BY Zenon, <1>3 DEF HandleRequest, Broadcast
  <2>. HIDE DEF p
  <2>4. MessagesInv'
    BY Zenon, <2>1, <2>2, <2>3 DEF CoreInd, MessagesInv
  <2>5. ProposalsInv' /\ NoVotesInv'
    BY <1>3, <2>1 DEF CoreInd, TypeOK, ProposalsInv, NoVotesInv, HandleRequest
  <2>. QED
    BY <1>1, <2>4, <2>5 DEF CoreInd
<1>4. ASSUME NEW n \in Cores, HandleTimeout(n)
      PROVE  CoreInd'
  <2>1. \/ \E r : SendRoundChange(n, r, roundChanges[n], IsHashLocked(n)) /\ UNCHANGED state
        \/ StartNewSequence(n)
    BY Zenon, <1>4 DEF HandleTimeout, SendNextRoundChange
  <2>. QED
    BY <1>1, <2>1, SendRoundChangeCore, StartNewSequenceCore
<1>5. ASSUME NEW n \in Cores, NEW b \in BoundedBlock, InsertBlock(n, b) \/ RejectBlock(n, b)
      PROVE  CoreInd'
  BY <1>2, <1>5 DEF InsertBlock, RejectBlock
<1>6. ASSUME NEW n \in Cores, NEW d \in delivered, RejectCopy(n, d)
      PROVE  CoreInd'
  BY <1>2, <1>6 DEF RejectCopy
<1>7. CASE Next
  BY <1>1, <1>3, <1>4, <1>5, <1>6, <1>7, HandleCore, StartNewSequenceCore
     DEF Next, HandleFinalCommitted
<1>. QED
  BY <1>2, <1>7 DEF vars

\* And holds at the start.
LEMMA CoreInit == Init => CoreInd
<1>. SUFFICES ASSUME Init
              PROVE  CoreInd
  OBVIOUS
<1>1. roundRobinSpeaker(N, EmptyAddress, 0) \in Fullnodes
  BY SpeakerIsFullnode
<1>2. <<>> \in Seq(Block)
  OBVIOUS
<1>3. TypeOK
  BY <1>1, <1>2 DEF Init, TypeOK, States, MaybeBlock
<1>. QED
  BY Zenon, <1>3 DEF Init, CoreInd, MessagesInv, ProposalsInv, NoVotesInv

\* The variables of the cores keep their types in every behaviour.
THEOREM TypeCorrect == Spec => []TypeOK
<1>1. CoreInd => TypeOK
  BY DEF CoreInd
<1>2. CoreInd /\ [Next]_vars => CoreInd'
  BY CoreStep
<1>. QED
  BY <1>1, <1>2, CoreInit, PTL DEF Spec

-----------------------------------------------------------------------------
(* One seal per height.                                                    *)

\* A valid block a core sealed at its height is still its locked proposal as
\* long as it may accept a proposal.
LEMMA SealedIsLocked ==
  ASSUME SealInd, NEW m \in msgs, IsSealedCommit(m), Valid(m.digest),
         m.seq = sequence[m.src], state[m.src] = "AcceptRequest"
  PROVE  IsHashLocked(m.src) /\ lockedHash[m.src] = m.digest
<1>1. m.src \in Cores /\ m.digest \in Block
  BY DEF SealInd, MessagesInv, IsSealedCommit
<1>2. lockedHash[m.src] = m.digest
  BY <1>1 DEF SealInd, SealsInv, BoundTo
<1>. QED
  BY <1>1, <1>2, NoBlockAssumption DEF IsHashLocked, SealInd, BadBlocksInv

\* catchUpRound keeps the lock of a locked core; a core that unlocks has
\* failed to deliver a block that is not valid.
LEMMA SendRoundChangeSeals ==
  ASSUME SealInd, CoreInd', NEW n \in Cores, NEW r \in Nat,
         NEW rcs \in SUBSET (Nat \X Fullnodes), NEW locked \in BOOLEAN,
         SendRoundChange(n, r, rcs, locked), UNCHANGED chainVars,
         UNCHANGED state \/ state' = [state EXCEPT ![n] = "Committed"],
         \/ locked = IsHashLocked(n)
         \/ ~locked /\ ~Valid(preprepare[n]) /\ ~waitingForRoundChange[n]
  PROVE  SealInd'
<1>. USE DEF SealInd
<1>1. TypeOK' /\ MessagesInv' /\ ProposalsInv'
  BY DEF CoreInd
<1>4. BadBlocksInv'
  BY Zenon DEF BadBlocksInv, chainVars
<1>5. LockedOnProposal'
  BY Zenon DEF TypeOK, LockedOnProposal, IsHashLocked, SendRoundChange, UpdateRoundState, chainVars
<1>6. UndecidedInv'
  <2>1. preprepare'[n] = NoBlock \/ preprepare'[n] = lockedHash'[n]
    BY Zenon DEF TypeOK, LockedOnProposal, SendRoundChange, UpdateRoundState
  <2>2. commits'[n] = {}
    BY Zenon DEF TypeOK, SendRoundChange, UpdateRoundState
  <2>3. ASSUME NEW k \in Cores, k # n
        PROVE  /\ preprepare'[k] = preprepare[k] /\ lockedHash'[k] = lockedHash[k]
               /\ commits'[k] = commits[k] /\ state'[k] = state[k]
               /\ waitingForRoundChange'[k] = waitingForRoundChange[k]
    BY <2>3, Zenon DEF TypeOK, SendRoundChange, UpdateRoundState
  <2>. QED
    BY <2>1, <2>2, <2>3, Zenon DEF UndecidedInv
<1>7. SealsInv'
  <2>1. SUFFICES ASSUME NEW m \in msgs', IsSealedCommit(m), Valid(m.digest)
                 PROVE  /\ m.seq <= sequence'[m.src]
                        /\ m.seq = sequence'[m.src] => BoundTo(m.src, m.digest)'
    BY Zenon DEF SealsInv
  <2>2. m \in msgs
    BY <2>1 DEF SendRoundChange, Broadcast, RoundChange, IsSealedCommit
  <2>3. m.src \in Cores /\ m.digest \in Block
    BY <2>1, <2>2, Zenon DEF MessagesInv, IsSealedCommit
  <2>4. m.seq <= sequence[m.src] /\ (m.seq = sequence[m.src] => BoundTo(m.src, m.digest))
    BY <2>1, <2>2, Zenon DEF SealsInv
  <2>5. sequence' = sequence /\ chain' = chain
    BY Zenon DEF SendRoundChange, chainVars
  <2>6. CASE m.src # n
    BY <2>3, <2>4, <2>5, <2>6, Zenon DEF BoundTo, TypeOK, SendRoundChange, UpdateRoundState
  <2>7. CASE m.src = n /\ m.seq = sequence[n]
    <3>1. waitingForRoundChange'[n]
      BY Zenon DEF TypeOK, SendRoundChange
    <3>2. CASE locked
      <4>1. lockedHash'[n] = lockedHash[n] /\ preprepare'[n] = preprepare[n]
        BY <3>2, Zenon DEF TypeOK, SendRoundChange, UpdateRoundState
      <4>2. lockedHash[n] = preprepare[n] /\ lockedHash[n] # NoBlock
        BY Zenon, <3>2 DEF LockedOnProposal, IsHashLocked
      <4>3. preprepare[n] = m.digest
        BY <2>4, <2>7, <4>2, Zenon DEF BoundTo
      <4>. QED
        BY <2>4, <2>5, <2>7, <4>1, <4>2, <4>3, Zenon DEF BoundTo
    <3>3. CASE ~locked
      <4>1. preprepare'[n] = NoBlock
        BY <3>3, Zenon DEF TypeOK, SendRoundChange, UpdateRoundState
      <4>2. ~(lockedHash[n] = m.digest /\ preprepare[n] = m.digest)
        BY <2>1, <2>3, <3>3, NoBlockAssumption, Zenon DEF IsHashLocked, BadBlocksInv
      <4>3. Len(chain[n]) >= sequence[n] /\ state[n] # "AcceptRequest"
        BY <2>4, <2>7, <4>2, Zenon DEF BoundTo
      <4>4. state'[n] # "AcceptRequest"
        BY <4>3, Zenon DEF TypeOK
      <4>. QED
        BY <2>4, <2>5, <2>7, <3>1, <4>1, <4>3, <4>4, Zenon DEF BoundTo
    <3>. QED
      BY <3>2, <3>3, Zenon
  <2>. QED
    BY <2>3, <2>4, <2>5, <2>6, <2>7, Zenon DEF TypeOK
<1>8. OneSealPerHeight'
  <2>1. \A m \in msgs' : IsSealedCommit(m) => m \in msgs
    BY DEF SendRoundChange, Broadcast, RoundChange, IsSealedCommit
  <2>. QED
    BY <2>1, Zenon DEF OneSealPerHeight
<1>. QED
  BY <1>1, <1>4, <1>5, <1>6, <1>7, <1>8, Zenon

\* A new sequence starts above everything the core has sealed.
LEMMA StartNewSequenceSeals ==
  ASSUME SealInd, CoreInd', NEW n \in Cores, StartNewSequence(n)
  PROVE  SealInd'
<1>. USE DEF SealInd
<1>1. TypeOK' /\ MessagesInv' /\ ProposalsInv'
  BY Zenon DEF CoreInd
<1>2. sequence'[n] > sequence[n] /\ \A k \in Cores : k # n => sequence'[k] = sequence[k]
  BY DEF TypeOK, StartNewSequence
<1>3. BadBlocksInv'
  BY Zenon DEF BadBlocksInv, StartNewSequence, chainVars
<1>4. LockedOnProposal' /\ UndecidedInv'
  BY Zenon DEF TypeOK, LockedOnProposal, UndecidedInv, IsHashLocked, StartNewSequence, UpdateRoundState,
     chainVars
<1>5. SealsInv'
  <2>1. SUFFICES ASSUME NEW m \in msgs, IsSealedCommit(m), Valid(m.digest)
                 PROVE  /\ m.seq <= sequence'[m.src]
                        /\ m.seq = sequence'[m.src] => BoundTo(m.src, m.digest)'
    BY Zenon DEF SealsInv, StartNewSequence
  <2>2. m.src \in Cores /\ m.seq \in Nat
    BY Zenon DEF MessagesInv, TypeOK, Message
  <2>3. m.seq <= sequence[m.src] /\ (m.seq = sequence[m.src] => BoundTo(m.src, m.digest))
    BY <2>1, Zenon DEF SealsInv
  <2>4. CASE m.src = n
    <3>1. sequence[n] \in Nat /\ sequence'[n] \in Nat
      BY <1>1, Zenon DEF TypeOK
    <3>. QED
      BY ONLY <1>2, <2>2, <2>3, <2>4, <3>1
  <2>5. CASE m.src # n
    BY <1>2, <2>2, <2>3, <2>5, Zenon DEF TypeOK, BoundTo, StartNewSequence, UpdateRoundState, chainVars
  <2>. QED
    BY <2>4, <2>5, Zenon
<1>6. OneSealPerHeight'
  BY Zenon DEF OneSealPerHeight, StartNewSequence
<1>. QED
  BY <1>1, <1>3, <1>4, <1>5, <1>6, Zenon

\* A new round starts below the chain's next height, so a sealed valid block
\* is still locked, and updateRoundState keeps it.
LEMMA StartNextRoundSeals ==
  ASSUME SealInd, CoreInd', NEW n \in Cores, NEW r \in Nat, StartNextRound(n, r)
  PROVE  SealInd'
<1>. USE DEF SealInd
<1>1. TypeOK' /\ MessagesInv' /\ ProposalsInv'
  BY Zenon DEF CoreInd
<1>3. BadBlocksInv'
  BY Zenon DEF BadBlocksInv, StartNextRound, chainVars
<1>4. LockedOnProposal' /\ UndecidedInv'
  BY Zenon DEF TypeOK, LockedOnProposal, UndecidedInv, IsHashLocked, StartNextRound, UpdateRoundState,
     chainVars
<1>5. \A m \in msgs' : IsSealedCommit(m) => m \in msgs
  <2>. DEFINE p == Preprepare(n, sequence[n], r, Reproposal(n))
  <2>1. p.code = "preprepare"
    BY Zenon DEF Preprepare
  <2>2. \A m \in msgs' : m \in msgs \/ m = p
    BY Zenon DEF StartNextRound, Broadcast
  <2>. HIDE DEF p
  <2>. QED
    BY Zenon, <2>1, <2>2 DEF IsSealedCommit
<1>6. SealsInv'
  <2>1. SUFFICES ASSUME NEW m \in msgs, IsSealedCommit(m), Valid(m.digest)
                 PROVE  /\ m.seq <= sequence'[m.src]
                        /\ m.seq = sequence'[m.src] => BoundTo(m.src, m.digest)'
    BY <1>5, Zenon DEF SealsInv
  <2>2. m.src \in Cores /\ m.digest \in Block
    BY <2>1, Zenon DEF MessagesInv, IsSealedCommit
  <2>3. m.seq <= sequence[m.src] /\ (m.seq = sequence[m.src] => BoundTo(m.src, m.digest))
    BY <2>1, Zenon DEF SealsInv
  <2>4. sequence' = sequence /\ chain' = chain
    BY Zenon DEF StartNextRound, chainVars
  <2>5. CASE m.src # n
    BY <2>2, <2>3, <2>4, <2>5, Zenon DEF TypeOK, BoundTo, StartNextRound, UpdateRoundState
  <2>6. CASE m.src = n /\ m.seq = sequence[n]
    <3>1. lockedHash[n] = m.digest /\ preprepare[n] = m.digest
      BY <2>3, <2>6 DEF TypeOK, BoundTo, StartNextRound
    <3>2. IsHashLocked(n)
      BY <2>1, <2>2, <3>1, NoBlockAssumption, Zenon DEF IsHashLocked, BadBlocksInv
    <3>. QED
      BY <2>3, <2>4, <2>6, <3>1, <3>2, Zenon DEF TypeOK, BoundTo, StartNextRound, UpdateRoundState
  <2>. QED
    BY <2>2, <2>3, <2>4, <2>5, <2>6, Zenon
<1>7. OneSealPerHeight'
  BY <1>5, Zenon DEF OneSealPerHeight
<1>. QED
  BY <1>1, <1>3, <1>4, <1>6, <1>7, Zenon

\* A step of n that sends one COMMIT, changes neither its sequence nor its
\* chain, and leaves n bound to whatever it had sealed, seals no second block.
LEMMA CommitSeals ==
  ASSUME SealInd, TypeOK', NEW n \in Cores, NEW s \in Nat, NEW r \in Nat,
         NEW b \in Block, NEW seal \in MaybeBlock,
         msgs' = msgs \cup {CommitMsg(n, s, r, b, seal)},
         UNCHANGED <<sequence, chain>>,
         \A k \in Cores : k # n =>
           /\ lockedHash'[k] = lockedHash[k] /\ preprepare'[k] = preprepare[k]
           /\ state'[k] = state[k] /\ waitingForRoundChange'[k] = waitingForRoundChange[k],
         \A a \in Block : Valid(a) /\ BoundTo(n, a) => BoundTo(n, a)',
         seal = b /\ Valid(b) =>
           /\ s = sequence[n]
           /\ BoundTo(n, b)'
           /\ \A a \in Block : Valid(a) /\ BoundTo(n, a) => a = b
  PROVE  SealsInv' /\ OneSealPerHeight'
<1>. DEFINE c == CommitMsg(n, s, r, b, seal)
<1>. USE DEF SealInd
<1>1. /\ c.code = "commit" /\ c.src = n /\ c.seq = s /\ c.digest = b /\ c.seal = seal
  BY Zenon DEF CommitMsg
<1>2. \A m \in msgs : IsSealedCommit(m) =>
        m.src \in Cores /\ m.digest \in Block /\ m.seq \in Nat
  BY Zenon DEF MessagesInv, IsSealedCommit, TypeOK, Message
<1>3. \A m \in msgs : IsSealedCommit(m) /\ Valid(m.digest) /\ m.src = n /\ m.seq = sequence[n] =>
        BoundTo(n, m.digest)
  BY Zenon DEF SealsInv
<1>. HIDE DEF c
<1>4. SealsInv'
  <2>1. SUFFICES ASSUME NEW m \in msgs', IsSealedCommit(m), Valid(m.digest)
                 PROVE  /\ m.seq <= sequence'[m.src]
                        /\ m.seq = sequence'[m.src] => BoundTo(m.src, m.digest)'
    BY Zenon DEF SealsInv
  <2>2. CASE m = c
    <3>1. m.src = n /\ m.seq = s /\ m.digest = b /\ seal = b
      BY <1>1, <2>1, <2>2, Zenon DEF IsSealedCommit
    <3>2. sequence'[n] = sequence[n] /\ sequence[n] \in Nat
      BY Zenon DEF TypeOK
    <3>3. Valid(b)
      BY <2>1, <3>1, Zenon
    <3>. HIDE DEF SealInd
    <3>4. s = sequence[n] /\ BoundTo(n, b)'
      BY <3>1, <3>3, Zenon
    <3>5. s <= sequence'[n]
      BY <3>2, <3>4
    <3>. QED
      BY Zenon, <3>1, <3>4, <3>5
  <2>3. CASE m \in msgs
    <3>1. m.seq <= sequence[m.src] /\ (m.seq = sequence[m.src] => BoundTo(m.src, m.digest))
      BY <2>1, <2>3, Zenon DEF SealsInv
    <3>2. m.src \in Cores /\ m.digest \in Block
      BY <1>2, <2>1, <2>3, Zenon
    <3>3. CASE m.src = n
      BY <2>1, <3>1, <3>2, <3>3, Zenon
    <3>4. CASE m.src # n
      BY <3>1, <3>2, <3>4, Zenon DEF BoundTo
    <3>. QED
      BY <3>3, <3>4, Zenon
  <2>. QED
    BY <2>2, <2>3, Zenon DEF c
<1>5. OneSealPerHeight'
  <2>. HIDE DEF SealInd
  <2>1. SUFFICES ASSUME NEW m1 \in msgs', NEW m2 \in msgs',
                        IsSealedCommit(m1), IsSealedCommit(m2),
                        m1.src = m2.src, m1.seq = m2.seq,
                        Valid(m1.digest), Valid(m2.digest)
                 PROVE  m1.digest = m2.digest
    BY ZenonT(30) DEF OneSealPerHeight
  <2>2. ASSUME NEW m \in msgs, IsSealedCommit(m), Valid(m.digest), m.src = n, m.seq = s,
               IsSealedCommit(c), Valid(b)
        PROVE  m.digest = b
    BY <1>1, <1>2, <1>3, <2>2, Zenon DEF IsSealedCommit
  <2>3. CASE m1 \in msgs /\ m2 \in msgs
    BY <2>1, <2>3, Zenon DEF OneSealPerHeight, SealInd
  <2>4. CASE m1 \in msgs /\ m2 = c
    BY <1>1, <2>1, <2>2, <2>4, Zenon
  <2>5. CASE m1 = c /\ m2 \in msgs
    BY <1>1, <2>1, <2>2, <2>5, Zenon
  <2>. QED
    BY <2>3, <2>4, <2>5, Zenon DEF c
<1>. QED
  BY <1>4, <1>5, Zenon

\* A COMMIT for an old block: its seal counts for the old block only if the
\* block is the core's current proposal, to which the core is then bound.
LEMMA HandleOldPreprepareSeals ==
  ASSUME SealInd, CoreInd', NEW n \in Cores, NEW m \in Message, HandleOldPreprepare(n, m),
         m.digest \in Block, m.digest.number = m.seq
  PROVE  SealInd'
<1>. USE DEF SealInd
<1>. DEFINE c == CommitMsg(n, m.seq, m.round, m.digest, preprepare[n])
<1>1. m.seq \in Nat /\ m.round \in Nat /\ preprepare[n] \in MaybeBlock
  BY Zenon DEF TypeOK, Message
<1>2. msgs' = msgs \cup {c} /\ UNCHANGED <<coreVars, chainVars>>
  BY Zenon DEF HandleOldPreprepare, BroadcastCommit, Broadcast
<1>4. TypeOK' /\ MessagesInv' /\ ProposalsInv'
  BY Zenon DEF CoreInd
<1>6. LockedOnProposal' /\ UndecidedInv' /\ BadBlocksInv'
  BY <1>2, Zenon DEF LockedOnProposal, UndecidedInv, BadBlocksInv, IsHashLocked, coreVars, current,
     chainVars
<1>7. \A a \in Block : BoundTo(n, a) => BoundTo(n, a)'
  BY <1>2, Zenon DEF BoundTo, coreVars, current, chainVars
<1>8. ASSUME preprepare[n] = m.digest
      PROVE  /\ m.seq = sequence[n]
             /\ BoundTo(n, m.digest)'
             /\ \A a \in Block : BoundTo(n, a) => a = m.digest
  <2>1. m.seq = sequence[n]
    BY <1>8, NoBlockAssumption, Zenon DEF ProposalsInv
  <2>2. Len(chain[n]) >= sequence[n]
    BY <2>1, Zenon DEF HandleOldPreprepare
  <2>3. BoundTo(n, m.digest)
    BY <1>8, <2>2, NoBlockAssumption, Zenon DEF BoundTo, UndecidedInv
  <2>. QED
    BY <1>7, <1>8, <2>1, <2>3, NoBlockAssumption, Zenon DEF BoundTo
<1>9. SealsInv' /\ OneSealPerHeight'
  <2>1. UNCHANGED <<sequence, chain, lockedHash, preprepare, state, waitingForRoundChange>>
    BY <1>2, Zenon DEF coreVars, current, chainVars
  <2>. HIDE DEF SealInd, HandleOldPreprepare
  <2>. QED
    BY <1>1, <1>2, <1>4, <1>7, <1>8, <2>1, CommitSeals, Zenon
<1>. QED
  BY <1>4, <1>6, <1>9, Zenon

\* A COMMIT for the locked proposal at once.
LEMMA CommitLockedPreprepareSeals ==
  ASSUME SealInd, CoreInd', NEW n \in Cores, NEW m \in Message, CommitLockedPreprepare(n, m),
         m.digest \in Block, m.digest.number = m.seq
  PROVE  SealInd'
<1>. USE DEF SealInd
<1>1. /\ sequence[n] \in Nat /\ round[n] \in Nat
      /\ m.digest \in MaybeBlock /\ m.digest.number = sequence[n]
  BY Zenon DEF TypeOK, MaybeBlock, CommitLockedPreprepare, CheckMessage
<1>2. preprepare[n] = m.digest /\ lockedHash[n] = m.digest /\ state[n] = "AcceptRequest"
  BY Zenon DEF CommitLockedPreprepare, LockedOnProposal
<1>3. msgs' = msgs \cup {CommitMsg(n, sequence[n], round[n], m.digest, m.digest)}
  BY Zenon DEF CommitLockedPreprepare, BroadcastCommit, Broadcast
<1>4. TypeOK' /\ MessagesInv' /\ ProposalsInv'
  BY DEF CoreInd
<1>5. LockedOnProposal' /\ UndecidedInv' /\ BadBlocksInv'
  BY Zenon, <1>1, <1>2 DEF TypeOK, LockedOnProposal, UndecidedInv, BadBlocksInv, IsHashLocked,
     CommitLockedPreprepare, chainVars
<1>6. lockedHash'[n] = m.digest /\ preprepare'[n] = m.digest
  BY Zenon, <1>2 DEF TypeOK, CommitLockedPreprepare
<1>7. \A a \in Block : BoundTo(n, a) => a = m.digest
  BY <1>2, Zenon DEF BoundTo
<1>8. BoundTo(n, m.digest)'
  BY <1>6, Zenon DEF BoundTo
<1>9. /\ UNCHANGED <<sequence, chain>>
      /\ \A k \in Cores : k # n =>
           /\ lockedHash'[k] = lockedHash[k] /\ preprepare'[k] = preprepare[k]
           /\ state'[k] = state[k] /\ waitingForRoundChange'[k] = waitingForRoundChange[k]
  BY Zenon DEF TypeOK, CommitLockedPreprepare, chainVars
<1>10. SealsInv' /\ OneSealPerHeight'
  <2>. HIDE DEF SealInd, CommitLockedPreprepare
  <2>. QED
    BY <1>1, <1>3, <1>4, <1>7, <1>8, <1>9, CommitSeals, Zenon
<1>. QED
  BY <1>4, <1>5, <1>10

\* A core that accepts a proposal has sealed no valid block at this height.
LEMMA AcceptPreprepareSeals ==
  ASSUME SealInd, CoreInd', NEW n \in Cores, NEW m \in Message, AcceptPreprepare(n, m),
         m.code = "preprepare", m.digest \in Block, m.digest.number = m.seq
  PROVE  SealInd'
<1>. USE DEF SealInd
<1>1. m.digest.number = sequence[n] /\ ~waitingForRoundChange[n]
  BY Zenon DEF AcceptPreprepare, CheckMessage
<1>2. TypeOK' /\ MessagesInv' /\ ProposalsInv'
  BY Zenon DEF CoreInd
<1>3. BadBlocksInv'
  BY Zenon DEF BadBlocksInv, AcceptPreprepare, chainVars
<1>4. UndecidedInv'
  BY <1>1, Zenon DEF TypeOK, UndecidedInv, AcceptPreprepare
<1>5. LockedOnProposal'
  BY Zenon DEF TypeOK, LockedOnProposal, IsHashLocked, AcceptPreprepare, chainVars
<1>6. \A k \in msgs' : IsSealedCommit(k) => k \in msgs
  <2>1. \A k \in msgs' : k \in msgs \/ k = Prepare(n, sequence[n], round[n], m.digest)
    BY Zenon DEF AcceptPreprepare, Broadcast
  <2>2. Prepare(n, sequence[n], round[n], m.digest).code = "prepare"
    BY Zenon DEF Prepare
  <2>. QED
    BY Zenon, <2>1, <2>2 DEF IsSealedCommit
<1>7. SealsInv'
  <2>1. SUFFICES ASSUME NEW k \in msgs, IsSealedCommit(k), Valid(k.digest)
                 PROVE  /\ k.seq <= sequence'[k.src]
                        /\ k.seq = sequence'[k.src] => BoundTo(k.src, k.digest)'
    BY <1>6, Zenon DEF SealsInv
  <2>2. k.src \in Cores
    BY Zenon DEF MessagesInv
  <2>3. k.seq <= sequence[k.src] /\ (k.seq = sequence[k.src] => BoundTo(k.src, k.digest))
    BY <2>1, Zenon DEF SealsInv
  <2>4. k.seq = sequence[k.src] => k.src # n
    BY <2>1, SealedIsLocked, Zenon DEF AcceptPreprepare
  <2>. QED
    BY Zenon, <2>2, <2>3, <2>4 DEF TypeOK, BoundTo, AcceptPreprepare, chainVars
<1>8. OneSealPerHeight'
  BY <1>6, Zenon DEF OneSealPerHeight
<1>. QED
  BY <1>2, <1>3, <1>4, <1>5, <1>7, <1>8, Zenon

\* The lock of handlePrepare is on the proposal the core is bound to.
LEMMA HandlePrepareSeals ==
  ASSUME SealInd, CoreInd', NEW n \in Cores, NEW m \in Message, HandlePrepare(n, m)
  PROVE  SealInd'
<1>. USE DEF SealInd
<1>0. TypeOK' /\ MessagesInv' /\ ProposalsInv'
  BY Zenon DEF CoreInd
<1>1. /\ preprepare[n] \in Block /\ preprepare[n].number = sequence[n]
      /\ ~waitingForRoundChange[n] /\ state[n] # "AcceptRequest"
      /\ sequence[n] \in Nat /\ round[n] \in Nat
  BY Zenon DEF TypeOK, MaybeBlock, HandlePrepare, CheckMessage, SubjectMatches, ProposalsInv
<1>2. /\ UNCHANGED <<sequence, round, preprepare, commits, waitingForRoundChange,
                     pendingRequest, chain, badBlocks>>
  BY Zenon DEF HandlePrepare, chainVars
<1>3. CASE UNCHANGED <<lockedHash, state, msgs>>
  BY Zenon, <1>0, <1>2, <1>3 DEF BadBlocksInv, UndecidedInv, LockedOnProposal, IsHashLocked,
     SealsInv, BoundTo, OneSealPerHeight
<1>4. CASE /\ lockedHash' = [lockedHash EXCEPT ![n] = preprepare[n]]
           /\ state' = [state EXCEPT ![n] = "Prepared"]
           /\ BroadcastCommit(n, sequence[n], round[n], preprepare[n], preprepare[n])
  <2>1. msgs' = msgs \cup {CommitMsg(n, sequence[n], round[n], preprepare[n], preprepare[n])}
    BY <1>4, Zenon DEF BroadcastCommit, Broadcast
  <2>3. BadBlocksInv' /\ UndecidedInv' /\ LockedOnProposal'
    BY Zenon, <1>1, <1>2, <1>4 DEF TypeOK, BadBlocksInv, UndecidedInv, LockedOnProposal, IsHashLocked
  <2>4. lockedHash'[n] = preprepare[n] /\ preprepare'[n] = preprepare[n]
    BY Zenon, <1>2, <1>4 DEF TypeOK
  <2>5. BoundTo(n, preprepare[n])'
    BY Zenon, <2>4 DEF BoundTo
  <2>6. \A a \in Block : BoundTo(n, a) => a = preprepare[n]
    BY <1>1, Zenon DEF BoundTo
  <2>7. \A k \in Cores : k # n =>
           /\ lockedHash'[k] = lockedHash[k] /\ preprepare'[k] = preprepare[k]
           /\ state'[k] = state[k] /\ waitingForRoundChange'[k] = waitingForRoundChange[k]
    BY Zenon, <1>2, <1>4 DEF TypeOK
  <2>8. preprepare[n] \in MaybeBlock
    BY Zenon, <1>1 DEF MaybeBlock
  <2>9. SealsInv' /\ OneSealPerHeight'
    <3>. HIDE DEF SealInd
    <3>. QED
      BY <1>0, <1>1, <1>2, <2>1, <2>5, <2>6, <2>7, <2>8, CommitSeals, Zenon
  <2>. QED
    BY <1>0, <2>3, <2>9, Zenon
<1>. QED
  BY Zenon, <1>3, <1>4 DEF HandlePrepare

\* handleCommit locks the proposal it delivers.
LEMMA HandleCommitSeals ==
  ASSUME SealInd, CoreInd', NEW n \in Cores, NEW m \in Message, HandleCommit(n, m)
  PROVE  SealInd'
<1>. USE DEF SealInd
<1>0. TypeOK' /\ MessagesInv' /\ ProposalsInv'
  BY DEF CoreInd
<1>. DEFINE cs == AddCommit(commits[n], m)
<1>1. preprepare[n] # NoBlock /\ ~waitingForRoundChange[n] /\ state[n] # "AcceptRequest"
  BY Zenon DEF HandleCommit, CheckMessage, SubjectMatches
<1>2. CASE DeliverBlock(n, cs) /\ state' = [state EXCEPT ![n] = "Committed"]
  <2>1. /\ UNCHANGED <<sequence, round, preprepare, waitingForRoundChange, pendingRequest,
                       chain, badBlocks, msgs>>
        /\ lockedHash' = [lockedHash EXCEPT ![n] = preprepare[n]]
        /\ commits' = [commits EXCEPT ![n] = cs]
    BY <1>2, Zenon DEF DeliverBlock
  <2>2. BadBlocksInv' /\ OneSealPerHeight'
    BY <2>1, Zenon DEF BadBlocksInv, OneSealPerHeight
  <2>3. UndecidedInv' /\ LockedOnProposal'
    BY Zenon, <1>1, <1>2, <2>1 DEF TypeOK, UndecidedInv, LockedOnProposal, IsHashLocked
  <2>4. SealsInv'
    <3>1. \A k \in Cores : \A a \in Block : BoundTo(k, a) => BoundTo(k, a)'
      BY <1>1, <1>2, <2>1, Zenon DEF TypeOK, BoundTo
    <3>2. \A k \in msgs : IsSealedCommit(k) => k.src \in Cores /\ k.digest \in Block
      BY Zenon DEF MessagesInv, IsSealedCommit
    <3>. QED
      BY <2>1, <3>1, <3>2, Zenon DEF SealsInv
  <2>. QED
    BY <1>0, <2>2, <2>3, <2>4, Zenon
<1>3. CASE FailToDeliver(n) /\ state' = [state EXCEPT ![n] = "Committed"]
  <2>1. round[n] \in Nat /\ roundChanges[n] \in SUBSET (Nat \X Fullnodes)
    BY Zenon DEF TypeOK
  <2>2. round[n] + 1 \in Nat
    BY ONLY <2>1
  <2>. QED
    BY Zenon, <1>1, <1>3, <2>1, <2>2, SendRoundChangeSeals DEF FailToDeliver
<1>4. CASE /\ commits' = [commits EXCEPT ![n] = cs]
           /\ UNCHANGED <<state, sequence, round, preprepare, prepares, lockedHash,
                          pendingRequest, roundChanges, waitingForRoundChange,
                          speaker, chainVars, msgs>>
  <2>1. UndecidedInv'
    BY <1>1, <1>4, Zenon DEF TypeOK, UndecidedInv
  <2>. QED
    BY <1>0, <1>4, <2>1, Zenon DEF BadBlocksInv, LockedOnProposal, IsHashLocked, SealsInv, BoundTo,
       OneSealPerHeight, chainVars
<1>. QED
  BY <1>2, <1>3, <1>4, Zenon DEF HandleCommit

\* A request changes no vote and no lock.
LEMMA HandleRequestSeals ==
  ASSUME SealInd, CoreInd', NEW n \in Cores, NEW b \in BoundedBlock, HandleRequest(n, b)
  PROVE  SealInd'
<1>. USE DEF SealInd
<1>1. TypeOK' /\ MessagesInv' /\ ProposalsInv'
  BY Zenon DEF CoreInd
<1>2. \A m \in msgs' : IsSealedCommit(m) => m \in msgs
  <2>. DEFINE p == Preprepare(n, sequence[n], round[n], b)
  <2>1. p.code = "preprepare"
    BY Zenon DEF Preprepare
  <2>2. \A m \in msgs' : m \in msgs \/ m = p
    BY Zenon DEF HandleRequest, Broadcast
  <2>. QED
    BY Zenon, <2>1, <2>2 DEF IsSealedCommit
<1>3. BadBlocksInv' /\ UndecidedInv' /\ LockedOnProposal'
  BY Zenon DEF BadBlocksInv, UndecidedInv, LockedOnProposal, IsHashLocked, HandleRequest, chainVars
<1>4. SealsInv' /\ OneSealPerHeight'
  BY <1>2, Zenon DEF SealsInv, OneSealPerHeight, BoundTo, HandleRequest, chainVars
<1>. QED
  BY <1>1, <1>3, <1>4, Zenon

\* Neither does the blockchain: it grows, or rejects a block that is not valid.
LEMMA BlockchainSeals ==
  ASSUME SealInd, CoreInd', NEW n \in Cores, NEW b \in BoundedBlock,
         InsertBlock(n, b) \/ RejectBlock(n, b)
  PROVE  SealInd'
<1>. USE DEF SealInd
<1>1. UNCHANGED <<coreVars, msgs>>
  BY Zenon DEF InsertBlock, RejectBlock
<1>2. TypeOK' /\ MessagesInv' /\ ProposalsInv' /\ UndecidedInv' /\ OneSealPerHeight'
  BY <1>1, Zenon DEF CoreInd, UndecidedInv, OneSealPerHeight, coreVars, current
<1>3. CASE InsertBlock(n, b)
  <2>1. BadBlocksInv' /\ LockedOnProposal'
    BY <1>1, <1>3, Zenon DEF BadBlocksInv, LockedOnProposal, IsHashLocked, InsertBlock, coreVars, current
  <2>2. \A k \in Cores : Len(chain'[k]) >= Len(chain[k])
    <3>1. b \in Block
      BY BoundsAssumption DEF BoundedBlock, Block
    <3>2. chain'[n] = Append(chain[n], b) /\ \A k \in Cores : k # n => chain'[k] = chain[k]
      BY <1>3, Zenon DEF TypeOK, InsertBlock
    <3>3. \A k \in Cores : chain[k] \in Seq(Block)
      BY Zenon DEF TypeOK
    <3>4. Len(chain'[n]) = Len(chain[n]) + 1 /\ Len(chain[n]) \in Nat
      <4>1. chain[n] \in Seq(Block)
        BY Zenon, <3>3
      <4>. QED
        BY ONLY <3>1, <3>2, <4>1
    <3>5. \A k \in Cores : Len(chain[k]) \in Nat
      BY <3>3
    <3>. QED
      BY <3>2, <3>4, <3>5
  <2>3. \A k \in Cores : \A a \in Block : BoundTo(k, a) => BoundTo(k, a)'
    <3>1. UNCHANGED <<sequence, lockedHash, preprepare, state, waitingForRoundChange>>
      BY <1>1, Zenon DEF coreVars, current
    <3>2. \A k \in Cores : Len(chain[k]) >= sequence[k] => Len(chain'[k]) >= sequence'[k]
      <4>1. \A k \in Cores : sequence[k] \in Nat
        BY Zenon DEF TypeOK
      <4>2. \A k \in Cores : Len(chain[k]) \in Nat
        BY DEF TypeOK
      <4>3. \A k \in Cores : Len(chain'[k]) \in Nat
        BY <1>2 DEF TypeOK
      <4>. HIDE DEF SealInd
      <4>. QED
        BY <2>2, <3>1, <4>1, <4>2, <4>3
    <3>. QED
      BY Zenon, <3>1, <3>2 DEF BoundTo
  <2>4. \A m \in msgs : IsSealedCommit(m) => m.src \in Cores /\ m.digest \in Block
    BY Zenon DEF MessagesInv, IsSealedCommit
  <2>5. SealsInv'
    BY Zenon, <1>1, <2>3, <2>4 DEF SealsInv, coreVars, current
  <2>. QED
    BY <1>2, <2>1, <2>5, Zenon
<1>4. CASE RejectBlock(n, b)
  <2>1. BadBlocksInv' /\ LockedOnProposal'
    BY <1>1, <1>4, Zenon DEF TypeOK, BadBlocksInv, LockedOnProposal, IsHashLocked, RejectBlock,
       coreVars, current
  <2>2. SealsInv'
    BY <1>1, <1>4, Zenon DEF SealsInv, BoundTo, RejectBlock, coreVars, current
  <2>. QED
    BY <1>2, <2>1, <2>2
<1>. QED
  BY <1>3, <1>4, Zenon

\* Every handler of a message keeps the invariant.
LEMMA HandleSeals ==
  ASSUME SealInd, CoreInd', NEW n \in Cores, NEW m \in msgs \cup EnvironmentMessages,
         Handle(n, m)
  PROVE  SealInd'
<1>1. m \in Message /\ (m.code # "roundchange" => m.digest \in Block /\ m.digest.number = m.seq)
  BY Zenon, EnvironmentType DEF SealInd, TypeOK, MessagesInv
<1>2. round[n] + 1 \in Nat /\ roundChanges[n] \in SUBSET (Nat \X Fullnodes)
  BY DEF SealInd, TypeOK
<1>3. SendNextRoundChange(n) => SealInd'
  BY Zenon, <1>2, SendRoundChangeSeals DEF SendNextRoundChange, IsHashLocked
<1>4. CASE HandlePreprepare(n, m)
  BY Zenon, <1>1, <1>3, <1>4, HandleOldPreprepareSeals, CommitLockedPreprepareSeals,
     AcceptPreprepareSeals
     DEF HandlePreprepare, RejectPreprepare, RefuseUnlockedPreprepare
<1>5. CASE HandlePrepare(n, m)
  BY <1>1, <1>5, HandlePrepareSeals, Zenon
<1>6. CASE HandleCommit(n, m)
  BY <1>1, <1>6, HandleCommitSeals
<1>7. CASE HandleRoundChange(n, m)
  <2>. DEFINE rcs == roundChanges[n] \cup {<<m.round, m.src>>}
  <2>1. m.round \in Nat /\ rcs \in SUBSET (Nat \X Fullnodes)
    BY <1>1, <1>2 DEF Message
  <2>2. CASE /\ SendRoundChange(n, m.round, rcs, IsHashLocked(n))
             /\ UNCHANGED <<state, chainVars>>
    BY Zenon, <2>1, <2>2, SendRoundChangeSeals DEF IsHashLocked
  <2>3. CASE /\ roundChanges' = [roundChanges EXCEPT ![n] = rcs]
             /\ UNCHANGED <<state, current, waitingForRoundChange, speaker, chainVars, msgs>>
    BY Zenon, <2>3 DEF SealInd, CoreInd, BadBlocksInv, UndecidedInv, LockedOnProposal, IsHashLocked,
       SealsInv, BoundTo, OneSealPerHeight, current, chainVars
  <2>4. CASE StartNewRound(n, m.round)
    BY <2>1, <2>4, StartNewSequenceSeals, StartNextRoundSeals, Zenon DEF StartNewRound
  <2>. QED
    BY <1>7, <2>2, <2>3, <2>4, Zenon DEF HandleRoundChange
<1>. QED
  BY <1>4, <1>5, <1>6, <1>7, Zenon DEF Handle

\* The round change timer may send a ROUND CHANGE or start a sequence.
LEMMA HandleTimeoutSeals ==
  ASSUME SealInd, CoreInd', NEW n \in Cores, HandleTimeout(n)
  PROVE  SealInd'
<1>. DEFINE Catching(r) == /\ SendRoundChange(n, r, roundChanges[n], IsHashLocked(n))
                           /\ UNCHANGED <<state, chainVars>>
<1>1. ASSUME NEW r \in Nat, Catching(r)
      PROVE  SealInd'
  <2>1. roundChanges[n] \in SUBSET (Nat \X Fullnodes)
    BY Zenon DEF SealInd, TypeOK
  <2>. QED
    BY Zenon, <1>1, <2>1, SendRoundChangeSeals DEF IsHashLocked
<1>2. CertifiedRounds(n) \subseteq Nat /\ round[n] + 1 \in Nat
  <2>1. roundChanges[n] \in SUBSET (Nat \X Fullnodes) /\ round[n] \in Nat
    BY Zenon DEF SealInd, TypeOK
  <2>. QED
    BY <2>1 DEF CertifiedRounds
<1>3. SendNextRoundChange(n) => Catching(round[n] + 1)
  BY Zenon DEF SendNextRoundChange
<1>4. \/ \E r \in CertifiedRounds(n) : Catching(r)
      \/ StartNewSequence(n)
      \/ SendNextRoundChange(n)
  BY Zenon DEF HandleTimeout
<1>. HIDE DEF Catching
<1>. QED
  BY <1>1, <1>2, <1>3, <1>4, StartNewSequenceSeals, Zenon

\* The first half of the invariant is inductive, as long as only blocks with
\* verified seals reach insertChain.
LEMMA SealStep ==
  ASSUME ~Downloads, CoreInd, SealInd, [Next]_vars
  PROVE  SealInd'
<1>1. CoreInd'
  BY CoreStep, Zenon
<1>2. CASE UNCHANGED vars
  BY <1>1, <1>2, Zenon DEF SealInd, CoreInd, BadBlocksInv, UndecidedInv, LockedOnProposal, IsHashLocked,
     SealsInv, BoundTo, OneSealPerHeight, vars, coreVars, current, chainVars
<1>3. \A n \in Cores : \A d \in delivered : ~RejectCopy(n, d)
  BY Zenon DEF RejectCopy
<1>4. CASE Next
  BY <1>1, <1>3, <1>4, HandleRequestSeals, HandleSeals, HandleTimeoutSeals,
     StartNewSequenceSeals, BlockchainSeals, Zenon DEF Next, HandleFinalCommitted
<1>. QED
  BY <1>2, <1>4, Zenon

\* And holds at the start.
LEMMA SealInit == Init => SealInd
  BY Zenon, CoreInit DEF Init, CoreInd, SealInd, BadBlocksInv, UndecidedInv, LockedOnProposal,
     IsHashLocked, SealsInv, OneSealPerHeight

\* The inductive invariant of the seals holds: a sealed block stays the one its
\* core is locked on until the height is decided, a locked core keeps that block
\* as its proposal, and no decided block is taken for a bad one.
THEOREM SealsBind ==
  ASSUME ~Downloads
  PROVE  Spec => []SealInd
<1>1. CoreInd /\ SealInd /\ [Next]_vars => CoreInd' /\ SealInd'
  BY CoreStep, SealStep, Zenon
<1>. QED
  BY <1>1, CoreInit, SealInit, PTL DEF Spec

\* No core ever seals two different valid blocks at a height: whatever messages
\* come, in whatever order, and however many rounds it takes, the lock of
\* handlePrepare and handleCommit outlives every round change.
THEOREM SealSafety ==
  ASSUME ~Downloads
  PROVE  Spec => []OneSealPerHeight
<1>1. SealInd => OneSealPerHeight
  BY Zenon DEF SealInd
<1>. QED
  BY <1>1, SealsBind, PTL
=============================================================================
