------------------------------ MODULE SportCore ------------------------------
(***************************************************************************)
(* The SPoRT consensus core (consensus/sport/smilobftcore) run by a set of *)
(* fullnodes over an unreliable network.                                   *)
(*                                                                         *)
(* Each node handles its events in one goroutine (handleEvents), so every  *)
(* handler is one atomic action.  Events are posted from other goroutines  *)
(* (`go sendEvent(..)`) and messages come from the network, so they are    *)
(* handled in any order: msgs holds every message ever sent, and a node    *)
(* may handle any of them at any time, any number of times, or never.      *)
(* That covers loss, reordering, duplication and a node's own messages.    *)
(* It also covers the queues of messages and requests judged too early     *)
(* (backlogs, pendingRequests, the future-preprepare timer): to postpone a *)
(* message is not to handle it yet.                                        *)
(*                                                                         *)
(* Cores are the fullnodes that run this code.  The other fullnodes are    *)
(* the node's environment: any well-formed message may come from them.     *)
(* A fullnode is its index in the sorted fullnode set, which is fixed.     *)
(***************************************************************************)
EXTENDS FullnodeFunc, Sequences, FiniteSets

CONSTANTS
  N,               \* size of the fullnode set
  Cores,           \* the fullnodes that run this code
  Payloads,        \* what tells apart two blocks of an author at a height
  InvalidPayloads, \* blocks with these contents fail when executed
  NoBlock,         \* the empty hash, the nil proposal
  Builders,        \* bound on the fullnodes whose miners build blocks
  MaxRound,        \* bound on rounds
  MaxSequence,     \* bound on the heights the cores work on
  MaxHeight,       \* bound on the blocks written to the chain
  Downloads        \* whether cores fetch blocks with the downloader as well

Fullnodes == 0 .. N - 1

\* A block: its height, the fullnode that built and signed it, its content.
Block == [number : Nat \ {0}, author : Fullnodes, payload : Payloads]
MaybeBlock == Block \cup {NoBlock}

ASSUME NAssumption == N \in Nat \ {0}
ASSUME CoresAssumption == Cores \subseteq Fullnodes
ASSUME NoBlockAssumption == NoBlock \notin Block
ASSUME BoundsAssumption ==
  Builders \subseteq Fullnodes /\ MaxRound \in Nat /\ MaxSequence \in Nat /\ MaxHeight \in Nat
ASSUME DownloadsAssumption == Downloads \in BOOLEAN

Valid(b) == b.payload \notin InvalidPayloads

Codes == {"preprepare", "prepare", "commit", "roundchange"}

\* message with its decoded Preprepare or Subject.  seal is the block whose
\* hash the CommittedSeal signs, NoBlock when the seal is empty.
Message == [code : Codes, src : Fullnodes, seq : Nat, round : Nat,
            digest : MaybeBlock, seal : MaybeBlock]

Preprepare(n, s, r, b) ==
  [code |-> "preprepare", src |-> n, seq |-> s, round |-> r, digest |-> b, seal |-> NoBlock]
Prepare(n, s, r, b) ==
  [code |-> "prepare", src |-> n, seq |-> s, round |-> r, digest |-> b, seal |-> NoBlock]
CommitMsg(n, s, r, b, seal) ==
  [code |-> "commit", src |-> n, seq |-> s, round |-> r, digest |-> b, seal |-> seal]
RoundChange(n, s, r) ==
  [code |-> "roundchange", src |-> n, seq |-> s, round |-> r, digest |-> NoBlock, seal |-> NoBlock]

VARIABLES
  state,          \* core.state
  sequence,       \* current.sequence
  round,          \* current.round
  preprepare,     \* the block of current.Preprepare
  prepares,       \* senders in current.Prepares
  commits,        \* current.Commits: the senders with what each seal signs
  lockedHash,     \* current.lockedHash
  pendingRequest, \* current.pendingRequest
  roundChanges,   \* roundChangeSet: pairs <<round, sender>>
  waitingForRoundChange,
  speaker,        \* fullnodeSet.speaker
  delivered,      \* blocks given to backend.Commit, with the seals' verdict
  chain,          \* the node's blockchain above the genesis block
  badBlocks,      \* blocks the node's blockchain has rejected
  msgs            \* every message broadcast by a core

current == <<sequence, round, preprepare, prepares, commits, lockedHash, pendingRequest>>
coreVars == <<state, current, roundChanges, waitingForRoundChange, speaker>>
chainVars == <<delivered, chain, badBlocks>>
vars == <<coreVars, chainVars, msgs>>

States == {"AcceptRequest", "Preprepared", "Prepared", "Committed"}
BeforePrepared(s) == s \in {"AcceptRequest", "Preprepared"}
BeforeCommitted(s) == s # "Committed"

Commit == [src : Fullnodes, seal : MaybeBlock]

\* The fields of every core, its chain and the messages have the types of
\* model.go; the speaker CalcSpeaker picks is always a member of the set.
TypeOK ==
  /\ state \in [Cores -> States]
  /\ sequence \in [Cores -> Nat \ {0}]
  /\ round \in [Cores -> Nat]
  /\ preprepare \in [Cores -> MaybeBlock]
  /\ prepares \in [Cores -> SUBSET Fullnodes]
  /\ commits \in [Cores -> SUBSET Commit]
  /\ lockedHash \in [Cores -> MaybeBlock]
  /\ pendingRequest \in [Cores -> MaybeBlock]
  /\ roundChanges \in [Cores -> SUBSET (Nat \X Fullnodes)]
  /\ waitingForRoundChange \in [Cores -> BOOLEAN]
  /\ speaker \in [Cores -> Fullnodes]
  /\ delivered \in SUBSET [node : Cores, block : Block, sealed : BOOLEAN]
  /\ chain \in [Cores -> Seq(Block)]
  /\ badBlocks \in [Cores -> SUBSET Block]
  /\ msgs \in SUBSET Message

\* Start with a chain at the genesis block: the initial round.
Init ==
  /\ state = [n \in Cores |-> "AcceptRequest"]
  /\ sequence = [n \in Cores |-> 1]
  /\ round = [n \in Cores |-> 0]
  /\ preprepare = [n \in Cores |-> NoBlock]
  /\ prepares = [n \in Cores |-> {}]
  /\ commits = [n \in Cores |-> {}]
  /\ lockedHash = [n \in Cores |-> NoBlock]
  /\ pendingRequest = [n \in Cores |-> NoBlock]
  /\ roundChanges = [n \in Cores |-> {}]
  /\ waitingForRoundChange = [n \in Cores |-> FALSE]
  /\ speaker = [n \in Cores |-> roundRobinSpeaker(N, EmptyAddress, 0)]
  /\ delivered = {}
  /\ chain = [n \in Cores |-> <<>>]
  /\ badBlocks = [n \in Cores |-> {}]
  /\ msgs = {}

-----------------------------------------------------------------------------
(* The round state and the sets of messages a node keeps.                  *)

Quorum == MinApprovers(N)
\* Mutant: catch up only with as many messages as start the round.
WeakCertificateLate == MinApprovers(N)
WeakCertificate == MaxFaulty(N) + E

\* HasBadBlockProposal lifts a lock on a block the chain has rejected.
IsHashLocked(n) == lockedHash[n] # NoBlock /\ lockedHash[n] \notin badBlocks[n]

IsSpeaker(n, address) == speaker[n] = address

\* messageSet.Add: one message per sender, the last one.
AddCommit(set, m) == {c \in set : c.src # m.src} \cup {[src |-> m.src, seal |-> m.seal]}
Senders(set) == {c.src : c \in set}

\* Mutant: the node counts itself besides its own message.
PrepareOrCommitSizePlusOne(ps, cs) == Cardinality(ps \cup Senders(cs)) + 1

\* GetPrepareOrCommitSize
PrepareOrCommitSize(ps, cs) == Cardinality(ps \cup Senders(cs))

RoundChangeCount(rcs, r) == Cardinality({p \in rcs : p[1] = r})

\* The author of the chain's last block, which LastBlockProposal returns.
LastSpeaker(c) == IF c = <<>> THEN EmptyAddress ELSE c[Len(c)].author

\* checkMessage: the messages handled now, and the ones that come too late.
\* All the others are kept for later.
CheckMessage(n, m) ==
  /\ m.seq = sequence[n]
  /\ IF m.code = "roundchange"
     THEN m.round >= round[n]
     ELSE /\ m.round = round[n]
          /\ ~waitingForRoundChange[n]
          /\ state[n] = "AcceptRequest" => m.code = "preprepare"
OldMessage(n, m) ==
  m.seq < sequence[n] \/ (m.seq = sequence[n] /\ m.round < round[n])

\* Subject: verifyPrepare and verifyCommit compare it with the message's.
\* CheckMessage has compared the views.
SubjectMatches(n, m) == preprepare[n] # NoBlock /\ m.digest = preprepare[n]

\* broadcast, with finalizeMessage: a COMMIT is sealed for the node's current
\* proposal, whatever block the COMMIT is for.
Broadcast(m) == msgs' = msgs \cup {m}
BroadcastCommit(n, s, r, b, proposal) == Broadcast(CommitMsg(n, s, r, b, proposal))

-----------------------------------------------------------------------------
(* Changing the round or the sequence.                                     *)

\* Mutant: every round starts without a lock.
UpdateRoundStateUnlocked(n, r, locked) ==
  /\ round' = [round EXCEPT ![n] = r]
  /\ lockedHash' = [lockedHash EXCEPT ![n] = NoBlock]
  /\ preprepare' = [preprepare EXCEPT ![n] = NoBlock]
  /\ prepares' = [prepares EXCEPT ![n] = {}]
  /\ commits' = [commits EXCEPT ![n] = {}]

\* updateRoundState on a round change: keep the locked proposal, if any.
UpdateRoundState(n, r, locked) ==
  /\ round' = [round EXCEPT ![n] = r]
  /\ lockedHash' = [lockedHash EXCEPT ![n] = IF locked THEN @ ELSE NoBlock]
  /\ preprepare' = [preprepare EXCEPT ![n] = IF locked THEN @ ELSE NoBlock]
  /\ prepares' = [prepares EXCEPT ![n] = {}]
  /\ commits' = [commits EXCEPT ![n] = {}]

\* sendRoundChange with its catchUpRound.  rcs is the round change set the
\* handler has at hand.  The state and the speaker stay as they were.
SendRoundChange(n, r, rcs, locked) ==
  /\ r > round[n]
  /\ r <= MaxRound /\ sequence[n] <= MaxSequence
  /\ waitingForRoundChange' = [waitingForRoundChange EXCEPT ![n] = TRUE]
  /\ UpdateRoundState(n, r, locked)
  /\ roundChanges' = [roundChanges EXCEPT ![n] = {p \in rcs : p[1] >= r}]
  /\ Broadcast(RoundChange(n, sequence[n], r))
  /\ UNCHANGED <<sequence, pendingRequest, speaker>>

SendNextRoundChange(n) ==
  /\ SendRoundChange(n, round[n] + 1, roundChanges[n], IsHashLocked(n))
  /\ UNCHANGED <<state, chainVars>>

\* What startNewRound proposes on a round change: the locked proposal, else
\* the pending request, if this node is the new speaker.
Reproposal(n) == IF IsHashLocked(n) THEN preprepare[n] ELSE pendingRequest[n]

\* Mutant: the chain need only have reached the block before.
StartNewSequenceEarly(n) ==
  /\ Len(chain[n]) >= sequence[n] - 1
  /\ sequence' = [sequence EXCEPT ![n] = Len(chain[n]) + 1]
  /\ UpdateRoundState(n, 0, FALSE)
  /\ pendingRequest' = [pendingRequest EXCEPT ![n] = NoBlock]
  /\ roundChanges' = [roundChanges EXCEPT ![n] = {}]
  /\ speaker' = [speaker EXCEPT ![n] = roundRobinSpeaker(N, LastSpeaker(chain[n]), 0)]
  /\ waitingForRoundChange' = [waitingForRoundChange EXCEPT ![n] = FALSE]
  /\ state' = [state EXCEPT ![n] = "AcceptRequest"]
  /\ UNCHANGED <<msgs, chainVars>>

\* startNewRound when the chain has reached the current sequence.
StartNewSequence(n) ==
  /\ Len(chain[n]) >= sequence[n]
  /\ sequence' = [sequence EXCEPT ![n] = Len(chain[n]) + 1]
  /\ UpdateRoundState(n, 0, FALSE)
  /\ pendingRequest' = [pendingRequest EXCEPT ![n] = NoBlock]
  /\ roundChanges' = [roundChanges EXCEPT ![n] = {}]
  /\ speaker' = [speaker EXCEPT ![n] = roundRobinSpeaker(N, LastSpeaker(chain[n]), 0)]
  /\ waitingForRoundChange' = [waitingForRoundChange EXCEPT ![n] = FALSE]
  /\ state' = [state EXCEPT ![n] = "AcceptRequest"]
  /\ UNCHANGED <<msgs, chainVars>>

\* startNewRound on a round change within the sequence.
StartNextRound(n, r) ==
  /\ Len(chain[n]) = sequence[n] - 1
  /\ r # 0
  /\ r >= round[n]
  /\ UpdateRoundState(n, r, IsHashLocked(n))
  /\ roundChanges' = [roundChanges EXCEPT ![n] = {}]
  /\ speaker' = [speaker EXCEPT ![n] = roundRobinSpeaker(N, LastSpeaker(chain[n]), r)]
  /\ waitingForRoundChange' = [waitingForRoundChange EXCEPT ![n] = FALSE]
  /\ state' = [state EXCEPT ![n] = "AcceptRequest"]
  /\ IF speaker'[n] = n /\ Reproposal(n) # NoBlock
     THEN Broadcast(Preprepare(n, sequence[n], r, Reproposal(n)))
     ELSE UNCHANGED msgs
  /\ UNCHANGED <<sequence, pendingRequest, chainVars>>

StartNewRound(n, r) == StartNewSequence(n) \/ StartNextRound(n, r)

-----------------------------------------------------------------------------
(* The handlers.                                                           *)

\* handleRequest: the miner asks for a block of its own to be agreed on.
HandleRequest(n, b) ==
  /\ b.author = n
  /\ b.number = sequence[n]
  /\ pendingRequest' = [pendingRequest EXCEPT ![n] = b]
  /\ IF state[n] = "AcceptRequest" /\ IsSpeaker(n, n)
     THEN Broadcast(Preprepare(n, sequence[n], round[n], b))
     ELSE UNCHANGED msgs
  /\ UNCHANGED <<state, sequence, round, preprepare, prepares, commits, lockedHash,
                 roundChanges, waitingForRoundChange, speaker, chainVars>>

\* Mutant: the block of the old message need not be in the chain.
HandleOldPreprepareUnknown(n, m) ==
  /\ OldMessage(n, m)
  /\ m.digest.number <= Len(chain[n])
  /\ m.src = roundRobinSpeaker(N, LastSpeaker(SubSeq(chain[n], 1, m.digest.number - 1)), m.round)
  /\ BroadcastCommit(n, m.seq, m.round, m.digest, preprepare[n])
  /\ UNCHANGED <<coreVars, chainVars>>

\* handlePreprepare, an old message for a block of the chain from the speaker
\* of its view: sendCommitForOldBlock.
HandleOldPreprepare(n, m) ==
  /\ OldMessage(n, m)
  /\ m.digest.number <= Len(chain[n])
  /\ chain[n][m.digest.number] = m.digest
  /\ m.src = roundRobinSpeaker(N, LastSpeaker(SubSeq(chain[n], 1, m.digest.number - 1)), m.round)
  /\ BroadcastCommit(n, m.seq, m.round, m.digest, preprepare[n])
  /\ UNCHANGED <<coreVars, chainVars>>

\* handlePreprepare, the proposal fails Verify: ask for the next round.  Verify
\* looks at the body, the clock and the ancestors, so it may refuse any block.
RejectPreprepare(n, m) ==
  /\ CheckMessage(n, m)
  /\ IsSpeaker(n, m.src)
  /\ SendNextRoundChange(n)

\* handlePreprepare, the proposal is the locked one: COMMIT at once.
CommitLockedPreprepare(n, m) ==
  /\ CheckMessage(n, m)
  /\ IsSpeaker(n, m.src)
  /\ m.digest \notin badBlocks[n]
  /\ state[n] = "AcceptRequest"
  /\ IsHashLocked(n)
  /\ m.digest = lockedHash[n]
  /\ preprepare' = [preprepare EXCEPT ![n] = m.digest]
  /\ state' = [state EXCEPT ![n] = "Prepared"]
  /\ BroadcastCommit(n, sequence[n], round[n], m.digest, m.digest)
  /\ UNCHANGED <<sequence, round, prepares, commits, lockedHash, pendingRequest,
                 roundChanges, waitingForRoundChange, speaker, chainVars>>

\* handlePreprepare, locked on another proposal: ask for the next round.
RefuseUnlockedPreprepare(n, m) ==
  /\ CheckMessage(n, m)
  /\ IsSpeaker(n, m.src)
  /\ m.digest \notin badBlocks[n]
  /\ state[n] = "AcceptRequest"
  /\ IsHashLocked(n)
  /\ m.digest # lockedHash[n]
  /\ SendNextRoundChange(n)

\* Mutant: a proposal is accepted in any state, locked or not.
AcceptPreprepareAlways(n, m) ==
  /\ CheckMessage(n, m)
  /\ IsSpeaker(n, m.src)
  /\ m.digest \notin badBlocks[n]
  /\ preprepare' = [preprepare EXCEPT ![n] = m.digest]
  /\ state' = [state EXCEPT ![n] = "Preprepared"]
  /\ Broadcast(Prepare(n, sequence[n], round[n], m.digest))
  /\ UNCHANGED <<sequence, round, prepares, commits, lockedHash, pendingRequest,
                 roundChanges, waitingForRoundChange, speaker, chainVars>>

\* handlePreprepare, not locked: accept the proposal and PREPARE it.
AcceptPreprepare(n, m) ==
  /\ CheckMessage(n, m)
  /\ IsSpeaker(n, m.src)
  /\ m.digest \notin badBlocks[n]
  /\ state[n] = "AcceptRequest"
  /\ ~IsHashLocked(n)
  /\ preprepare' = [preprepare EXCEPT ![n] = m.digest]
  /\ state' = [state EXCEPT ![n] = "Preprepared"]
  /\ Broadcast(Prepare(n, sequence[n], round[n], m.digest))
  /\ UNCHANGED <<sequence, round, prepares, commits, lockedHash, pendingRequest,
                 roundChanges, waitingForRoundChange, speaker, chainVars>>

HandlePreprepare(n, m) ==
  /\ m.code = "preprepare"
  /\ \/ HandleOldPreprepare(n, m)
     \/ RejectPreprepare(n, m)
     \/ CommitLockedPreprepare(n, m)
     \/ RefuseUnlockedPreprepare(n, m)
     \/ AcceptPreprepare(n, m)

\* handlePrepare: lock and COMMIT once enough fullnodes voted for the proposal.
HandlePrepare(n, m) ==
  /\ m.code = "prepare"
  /\ CheckMessage(n, m)
  /\ SubjectMatches(n, m)
  /\ prepares' = [prepares EXCEPT ![n] = @ \cup {m.src}]
  /\ IF /\ \/ IsHashLocked(n) /\ m.digest = lockedHash[n]
           \/ PrepareOrCommitSize(prepares'[n], commits[n]) >= Quorum
        /\ BeforePrepared(state[n])
     THEN /\ lockedHash' = [lockedHash EXCEPT ![n] = preprepare[n]]
          /\ state' = [state EXCEPT ![n] = "Prepared"]
          /\ BroadcastCommit(n, sequence[n], round[n], preprepare[n], preprepare[n])
     ELSE UNCHANGED <<lockedHash, state, msgs>>
  /\ UNCHANGED <<sequence, round, preprepare, commits, pendingRequest,
                 roundChanges, waitingForRoundChange, speaker, chainVars>>

\* The seals of a delivered block pass verifyCommittedSeals: every one of
\* them signs the block.
SealsVerify(b, cs) == \A c \in cs : c.seal = b

\* commit with the collected seals, when backend.Commit takes the block.
DeliverBlock(n, cs) ==
  /\ lockedHash' = [lockedHash EXCEPT ![n] = preprepare[n]]
  /\ commits' = [commits EXCEPT ![n] = cs]
  /\ delivered' = delivered \cup
       {[node |-> n, block |-> preprepare[n], sealed |-> SealsVerify(preprepare[n], cs)]}
  /\ UNCHANGED <<sequence, round, preprepare, prepares, pendingRequest, roundChanges,
                 waitingForRoundChange, speaker, chain, badBlocks, msgs>>

\* commit when backend.Commit fails, on a block whose extra-data cannot take
\* the seals: unlock and ask for the next round.
FailToDeliver(n) ==
  /\ ~Valid(preprepare[n])
  /\ SendRoundChange(n, round[n] + 1, roundChanges[n], FALSE)
  /\ UNCHANGED chainVars

\* handleCommit: lock and deliver the block once enough fullnodes committed.
HandleCommit(n, m) ==
  /\ m.code = "commit"
  /\ CheckMessage(n, m)
  /\ SubjectMatches(n, m)
  /\ LET cs == AddCommit(commits[n], m)
     IN  IF Cardinality(cs) >= Quorum /\ BeforeCommitted(state[n])
         THEN /\ state' = [state EXCEPT ![n] = "Committed"]
              /\ DeliverBlock(n, cs) \/ FailToDeliver(n)
         ELSE /\ commits' = [commits EXCEPT ![n] = cs]
              /\ UNCHANGED <<state, sequence, round, preprepare, prepares, lockedHash,
                             pendingRequest, roundChanges, waitingForRoundChange,
                             speaker, chainVars, msgs>>

\* handleRoundChange: catch up with a weak certificate, start the round with
\* enough ROUND CHANGEs.
HandleRoundChange(n, m) ==
  /\ m.code = "roundchange"
  /\ CheckMessage(n, m)
  /\ LET rcs == roundChanges[n] \cup {<<m.round, m.src>>}
         count == RoundChangeCount(rcs, m.round)
         AddOnly == /\ roundChanges' = [roundChanges EXCEPT ![n] = rcs]
                    /\ UNCHANGED <<state, current, waitingForRoundChange, speaker,
                                   chainVars, msgs>>
     IN  IF waitingForRoundChange[n] /\ count = WeakCertificate
         THEN IF round[n] < m.round
              THEN /\ SendRoundChange(n, m.round, rcs, IsHashLocked(n))
                   /\ UNCHANGED <<state, chainVars>>
              ELSE AddOnly
         ELSE IF /\ count = Quorum
                 /\ waitingForRoundChange[n] \/ round[n] < m.round
              THEN StartNewRound(n, m.round)
              ELSE AddOnly

\* The rounds of roundChangeSet.MaxRound(F+E) that lie ahead.
CertifiedRounds(n) ==
  {r \in {p[1] : p \in roundChanges[n]} :
     r > round[n] /\ RoundChangeCount(roundChanges[n], r) >= WeakCertificate}

\* handleTimeoutMsg.  The timer is armed in every round, and an expiry may be
\* handled late, so it may come at any time.
HandleTimeout(n) ==
  IF ~waitingForRoundChange[n] /\ CertifiedRounds(n) # {}
  THEN \E r \in CertifiedRounds(n) :
         /\ \A q \in CertifiedRounds(n) : q <= r
         /\ SendRoundChange(n, r, roundChanges[n], IsHashLocked(n))
         /\ UNCHANGED <<state, chainVars>>
  ELSE IF Len(chain[n]) >= sequence[n]
       THEN StartNewSequence(n)
       ELSE SendNextRoundChange(n)

\* handleFinalCommitted: startNewRound(0).
HandleFinalCommitted(n) == StartNewSequence(n)

-----------------------------------------------------------------------------
(* The blockchain of a node, outside the consensus core.                   *)

\* The fullnodes whose seals on b may be in a header: verifyCommittedSeals
\* wants a quorum of them.  A fullnode outside the model may seal anything.
Sealers(b) ==
  (Fullnodes \ Cores) \cup
  {n \in Cores : \E m \in msgs : /\ m.code = "commit" /\ m.src = n
                                 /\ m.digest = b /\ m.seal = b}
SealQuorum(b) == Cardinality(Sealers(b)) >= Quorum

\* The next block is written to the chain: a sealed block from a peer or
\* from the node itself, or the block the node's own miner waits for, whose
\* seals are not verified.
InsertBlock(n, b) ==
  /\ b.number = Len(chain[n]) + 1
  /\ b.number <= MaxHeight
  /\ Valid(b)
  /\ \/ SealQuorum(b)
     \/ b.author = n /\ \E d \in delivered : d.node = n /\ d.block = b
  /\ chain' = [chain EXCEPT ![n] = Append(@, b)]
  /\ UNCHANGED <<coreVars, delivered, badBlocks, msgs>>

\* A sealed block that does not execute goes to the list of bad blocks.
RejectBlock(n, b) ==
  /\ b.number = Len(chain[n]) + 1
  /\ b.number <= MaxHeight
  /\ ~Valid(b)
  /\ \/ SealQuorum(b)
     \/ b.author = n /\ \E d \in delivered : d.node = n /\ d.block = b
  /\ badBlocks' = [badBlocks EXCEPT ![n] = @ \cup {b}]
  /\ UNCHANGED <<coreVars, delivered, chain, msgs>>

\* The downloader brings a copy of a block whose seals do not verify, out of
\* the chain of the core whose miner wrote it.  insertChain reports it, and
\* the hash it is remembered by does not cover the seals.  (The fetcher checks
\* the header first and drops such a copy.)
RejectCopy(n, d) ==
  /\ Downloads
  /\ ~d.sealed
  /\ d.block.author = d.node
  /\ d.block.number \in 1 .. Len(chain[d.node])
  /\ chain[d.node][d.block.number] = d.block
  /\ d.block.number = Len(chain[n]) + 1
  /\ badBlocks' = [badBlocks EXCEPT ![n] = @ \cup {d.block}]
  /\ UNCHANGED <<coreVars, delivered, chain, msgs>>

-----------------------------------------------------------------------------
BoundedBlock == [number : 1 .. MaxSequence, author : Builders, payload : Payloads]

\* Messages of fullnodes outside the model: a proposal is for the height of
\* its view, and a ROUND CHANGE carries the empty digest.
EnvironmentMessages ==
  LET Env == Fullnodes \ Cores
      Rounds == 0 .. MaxRound
  IN  {Preprepare(n, b.number, r, b) : n \in Env, r \in Rounds, b \in BoundedBlock}
      \cup {Prepare(n, b.number, r, b) : n \in Env, r \in Rounds, b \in BoundedBlock}
      \cup {CommitMsg(n, b.number, r, b, b) : n \in Env, r \in Rounds, b \in BoundedBlock}
      \cup {RoundChange(n, s, r) : n \in Env, s \in 1 .. MaxSequence, r \in Rounds}

Handle(n, m) ==
  \/ HandlePreprepare(n, m)
  \/ HandlePrepare(n, m)
  \/ HandleCommit(n, m)
  \/ HandleRoundChange(n, m)

Next ==
  \E n \in Cores :
    \/ \E b \in BoundedBlock : HandleRequest(n, b)
    \/ \E m \in msgs \cup EnvironmentMessages : Handle(n, m)
    \/ HandleTimeout(n)
    \/ HandleFinalCommitted(n)
    \/ \E b \in BoundedBlock : InsertBlock(n, b)
    \/ \E b \in BoundedBlock : RejectBlock(n, b)
    \/ \E d \in delivered : RejectCopy(n, d)

Spec == Init /\ [][Next]_vars

-----------------------------------------------------------------------------
(* Properties.                                                             *)

\* A COMMIT that seals the block it is for.
IsSealedCommit(m) == m.code = "commit" /\ m.seal = m.digest

\* A core never seals two different valid blocks at a height, whatever rounds
\* it goes through: the lock taken before the first COMMIT
\* (core_prepare.go, core_commit.go) is kept by updateRoundState until the
\* sequence ends.
OneSealPerHeight ==
  \A m1, m2 \in msgs :
    /\ IsSealedCommit(m1) /\ IsSealedCommit(m2)
    /\ m1.src = m2.src /\ m1.seq = m2.seq
    /\ Valid(m1.digest) /\ Valid(m2.digest)
    => m1.digest = m2.digest

\* A core never PREPAREs two different blocks in a view: handlePreprepare
\* leaves StateAcceptRequest, and only a later view brings it back.
OnePreparePerView ==
  \A m1, m2 \in msgs :
    /\ m1.code = "prepare" /\ m2.code = "prepare"
    /\ m1.src = m2.src /\ m1.seq = m2.seq /\ m1.round = m2.round
    => m1.digest = m2.digest

\* The proposal a locked core would propose again is the one it is locked
\* on (core.go:190-195).
LockedOnProposal ==
  \A n \in Cores : IsHashLocked(n) => preprepare[n] = lockedHash[n]

\* A core that waits for a round never holds enough ROUND CHANGEs to start it
\* ("We've received 2F+E ROUND CHANGE messages, start a new round
\* immediately", core_roundchange.go:156).  With one or three fullnodes the weak
\* certificate is as large as the quorum, and the property does not hold.
RoundChangeQuorumStarts ==
  \A n \in Cores :
    waitingForRoundChange[n] => RoundChangeCount(roundChanges[n], round[n]) < Quorum

\* The view of a core never goes back.
ViewNeverDecreases ==
  [][\A n \in Cores :
       \/ sequence'[n] > sequence[n]
       \/ sequence'[n] = sequence[n] /\ round'[n] >= round[n]]_vars

\* No two valid blocks of a height can both gather the seals
\* verifyCommittedSeals asks for.
SealAgreement ==
  \A b1, b2 \in {m.digest : m \in {c \in msgs : IsSealedCommit(c)}} :
    /\ Valid(b1) /\ Valid(b2) /\ b1.number = b2.number
    /\ SealQuorum(b1) /\ SealQuorum(b2)
    => b1 = b2

\* No two chains differ at a height.
ChainAgreement ==
  \A n1, n2 \in Cores : \A h \in 1 .. Len(chain[n1]) :
    h <= Len(chain[n2]) => chain[n1][h] = chain[n2][h]

\* The cores together implement the ledger: a block written by one of them is
\* the block every other core has, or will write, at that height, and no core
\* replaces a block it has written.
L == INSTANCE Ledger WITH Nodes <- Cores, Blocks <- BoundedBlock
ImplementsLedger == L!Spec

\* Whoever is locked on a block has seen a quorum vote for it in one view.
LockCertified ==
  \A n \in Cores : lockedHash[n] # NoBlock =>
    \E r \in 0 .. round[n] :
      Cardinality((Fullnodes \ Cores) \cup
        {m.src : m \in {v \in msgs : /\ v.code \in {"prepare", "commit"}
                                     /\ v.seq = sequence[n] /\ v.round = r
                                     /\ v.digest = lockedHash[n]}}) >= Quorum

\* A delivered block has seals that pass verifyCommittedSeals.
DeliveredSealed == \A d \in delivered : d.sealed

-----------------------------------------------------------------------------
(* The inductive invariant behind OneSealPerHeight and ChainAgreement.     *)

\* Every message for a block is in the sequence of the block's height.
MessagesInv ==
  \A m \in msgs :
    /\ m.src \in Cores
    /\ m.code # "roundchange" => m.digest \in Block /\ m.digest.number = m.seq

\* So are the proposals a core holds.
ProposalsInv ==
  \A n \in Cores :
    /\ preprepare[n] # NoBlock => preprepare[n].number = sequence[n]
    /\ pendingRequest[n] # NoBlock => pendingRequest[n].number = sequence[n]

\* Only blocks that are not valid are remembered as bad ("HasBadBlock returns
\* whether the block with the hash is a bad block", core/blockchain.go), so a
\* lock on a valid block stays.
BadBlocksInv == \A n \in Cores : \A b \in badBlocks[n] : ~Valid(b)

\* Between a round change and the next accepted proposal, the only proposal
\* a core holds is the one it is locked on, and it has no votes.
UndecidedInv ==
  \A n \in Cores :
    /\ waitingForRoundChange[n] \/ state[n] = "AcceptRequest" =>
         preprepare[n] = NoBlock \/ preprepare[n] = lockedHash[n]
    /\ state[n] = "AcceptRequest" => commits[n] = {}

\* What ties a core to a block it sealed while it works at that height: the
\* lock; or the block is in its chain already and the core cannot accept
\* another proposal before it moves on.
BoundTo(n, b) ==
  \/ lockedHash[n] = b /\ preprepare[n] = b
  \/ /\ Len(chain[n]) >= sequence[n]
     /\ state[n] # "AcceptRequest"
     /\ preprepare[n] = b \/ (waitingForRoundChange[n] /\ preprepare[n] = NoBlock)
SealsInv ==
  \A m \in msgs :
    IsSealedCommit(m) /\ Valid(m.digest) =>
      /\ m.seq <= sequence[m.src]
      /\ m.seq = sequence[m.src] => BoundTo(m.src, m.digest)

\* A COMMIT without a seal for its block is for a block of the chain.
OldCommitsInv ==
  \A m \in msgs :
    m.code = "commit" =>
      \/ m.seal = m.digest
      \/ /\ m.digest.number \in 1 .. Len(chain[m.src])
         /\ chain[m.src][m.digest.number] = m.digest

\* The COMMITs a core has collected are for its proposal, one per sender.
CommitsInv ==
  \A n \in Cores : \A c \in commits[n] :
    /\ \/ c.src \notin Cores
       \/ \E m \in msgs : /\ m.code = "commit" /\ m.src = c.src
                          /\ m.digest = preprepare[n] /\ m.seal = c.seal
    /\ \A d \in commits[n] : d.src = c.src => d = c

\* A quorum has sealed every block handleCommit delivers, even when some of the
\* COMMITs it counted carry no seal for it (sendCommitForOldBlock).
DeliveredInv == \A d \in delivered : SealQuorum(d.block)

\* The same holds of every block of a chain.
ChainInv ==
  \A n \in Cores : \A h \in 1 .. Len(chain[n]) :
    /\ chain[n][h].number = h
    /\ Valid(chain[n][h])
    /\ SealQuorum(chain[n][h])

\* The lock discipline as an inductive invariant: handlePrepare and
\* handleCommit lock before or with the first seal, updateRoundState keeps the
\* lock, and handlePreprepare refuses any other proposal meanwhile.
SealInd ==
  /\ TypeOK /\ MessagesInv /\ ProposalsInv /\ BadBlocksInv /\ UndecidedInv
  /\ LockedOnProposal /\ SealsInv /\ OneSealPerHeight
\* What a delivered or written block rests on: through handleCommit,
\* sendCommitForOldBlock and the inserts, a quorum has sealed it.
ChainInd == OldCommitsInv /\ CommitsInv /\ DeliveredInv /\ ChainInv
=============================================================================
