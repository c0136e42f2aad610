------------------------------- MODULE Sealing -------------------------------
(***************************************************************************)
(* How a node seals blocks: the worker and agent of package miner, and     *)
(* Seal, Commit, Start and Stop of the SPoRT backend.  The goroutines are  *)
(* "update" (the worker's event loop), "ctl" (whoever starts and stops the *)
(* miner, one at a time), the agent's loops, one Seal for each piece of    *)
(* work, the worker's wait loop and the event loop of the consensus core.  *)
(* They meet in the mutexes worker.mu and sealMu and in the channels       *)
(* workCh, stop, quitCurrentOp, recv and commitChBlock.                    *)
(*                                                                         *)
(* A piece of work and the block made of it are one number.  What the core *)
(* decides is open, one block for each height, and it commits that block   *)
(* again in a later round until the chain has it.                          *)
(***************************************************************************)
EXTENDS Naturals, Sequences

CONSTANTS
  MaxWorks,    \* pieces of work built in a behaviour
  MaxHeads,    \* blocks decided in a behaviour
  MaxStarts,   \* runs of the engine
  None         \* no work; also the block of another fullnode

Works == 1 .. MaxWorks
SealHeights == 1 .. MaxHeads
Threads == {"update", "ctl"}

ASSUME SealingAssumption ==
  /\ MaxWorks \in Nat /\ MaxHeads \in Nat /\ MaxStarts \in Nat
  /\ None \notin Nat

VARIABLES
  pc,           \* where each of Threads is
  mining,       \* worker.mining and backend.coreStarted, which change together
  agent,        \* CpuAgent: [isMining, loops, stop, workCh, quit]
  height,       \* height[w]: number of the block of w, 0 before it is built
  seal,         \* where the Seal of each piece of work is
  sealChan,     \* the commit channel a waiting Seal listens on
  quitClosed,   \* works whose quitCurrentOp is closed
  proposed,     \* proposedBlockHash
  sealMu,       \* the Seal that holds sealMu
  commitCh,     \* every commitChBlock made so far; all but the last are closed
  coreLoop,     \* the core's event loop: [at, block, last]
  requests,     \* blocks the core was asked to propose
  enqueued,     \* heights whose block the fetcher was given to import
  decided,      \* what the fullnodes agree on, by height
  recv,         \* results on their way to worker.wait
  head,         \* height of the chain
  heads,        \* ChainHeadEvents the worker has not handled
  panicked      \* a goroutine panicked and took the node with it

minerVars == <<pc, mining, height>>
agentVars == <<agent, quitClosed, recv>>
sealVars == <<seal, sealChan, proposed, sealMu>>
backendVars == <<commitCh, coreLoop, requests>>
ledgerVars == <<enqueued, decided, head, heads>>
sealingVars == <<minerVars, agentVars, sealVars, backendVars, ledgerVars,
                 panicked>>

SealingInit ==
  /\ pc = [t \in Threads |-> "idle"]
  /\ mining = FALSE
  /\ agent = [isMining |-> FALSE, loops |-> 0, stop |-> 0,
              workCh |-> <<>>, quit |-> None]
  /\ height = [w \in Works |-> 0]
  /\ seal = [w \in Works |-> "none"]
  /\ sealChan = [w \in Works |-> 0]
  /\ quitClosed = {}
  /\ proposed = None
  /\ sealMu = None
  /\ commitCh = <<>>
  /\ coreLoop = [at |-> "off", block |-> None, last |-> 0]
  /\ requests = {}
  /\ enqueued = {}
  /\ decided = [h \in SealHeights |-> 0]
  /\ recv = {}
  /\ head = 0
  /\ heads = 0
  /\ panicked = FALSE

-----------------------------------------------------------------------------
(* The worker.                                                             *)

\* worker.mu is held across two steps only while work is pushed and while the
\* engine is stopped.
MuFree == \A t \in Threads : pc[t] \notin {"push", "halt", "join"}

Unbuilt == {w \in Works : height[w] = 0}

\* The update loop sees a new head, or transactions while it mines.
HandleChainHead ==
  /\ pc["update"] = "idle"
  /\ heads > 0
  /\ heads' = heads - 1
  /\ pc' = [pc EXCEPT !["update"] = "build"]
  /\ UNCHANGED <<mining, height, agentVars, sealVars, backendVars, enqueued,
                 decided, head, panicked>>

HandleNewTxs ==
  /\ pc["update"] = "idle"
  /\ mining
  /\ Unbuilt # {}
  /\ pc' = [pc EXCEPT !["update"] = "build"]
  /\ UNCHANGED <<mining, height, agentVars, sealVars, backendVars, ledgerVars,
                 panicked>>

\* commitNewWork: a block on the current head, pushed to the agent only when
\* mining.  With the bound on works exhausted nothing is built.
CommitNewWork(t) ==
  /\ pc[t] = "build"
  /\ MuFree
  /\ \/ \E w \in Unbuilt :
          /\ mining
          /\ \A v \in Unbuilt : w <= v
          /\ height' = [height EXCEPT ![w] = head + 1]
          /\ pc' = [pc EXCEPT ![t] = "push"]
     \/ /\ ~mining \/ Unbuilt = {}
        /\ pc' = [pc EXCEPT ![t] = "idle"]
        /\ UNCHANGED height
  /\ UNCHANGED <<mining, agentVars, sealVars, backendVars, ledgerVars, panicked>>

\* The last work built, which is the one being pushed.
Newest == CHOOSE w \in Works : height[w] > 0
            /\ \A v \in Works : height[v] > 0 => v <= w

\* push: the send waits for room in workCh, a buffer of one.
Push(t) ==
  /\ pc[t] = "push"
  /\ agent.workCh = <<>>
  /\ agent' = [agent EXCEPT !.workCh = <<Newest>>]
  /\ pc' = [pc EXCEPT ![t] = "idle"]
  /\ UNCHANGED <<mining, height, quitClosed, recv, sealVars, backendVars,
                 ledgerVars, panicked>>

\* wait: a result without a block is skipped, a block is written and becomes
\* the head unless the chain has that height already.
Wait(w) ==
  /\ w \in recv
  /\ recv' = recv \ {w}
  /\ IF head < height[w]
       THEN head' = height[w] /\ heads' = heads + 1
       ELSE UNCHANGED <<head, heads>>
  /\ UNCHANGED <<minerVars, agent, quitClosed, sealVars, backendVars,
                 enqueued, decided, panicked>>

-----------------------------------------------------------------------------
(* Start and stop.                                                         *)

\* Miner.Start: backend.Start forgets the proposed hash, replaces
\* commitChBlock and starts the core, and the agent gets a new loop.
StartMining ==
  /\ pc["ctl"] = "idle"
  /\ ~mining
  /\ MuFree
  /\ Len(commitCh) < MaxStarts
  /\ mining' = TRUE
  /\ proposed' = None
  /\ commitCh' = Append(commitCh, <<>>)
  /\ coreLoop' = [coreLoop EXCEPT !.at = "on"]
  /\ agent' = IF agent.isMining THEN agent
              ELSE [agent EXCEPT !.isMining = TRUE, !.loops = @ + 1]
  /\ pc' = [pc EXCEPT !["ctl"] = "build"]
  /\ UNCHANGED <<height, quitClosed, recv, seal, sealChan, sealMu, requests,
                 ledgerVars, panicked>>

\* Miner.Stop up to the lock of worker.mu.
StopMining ==
  /\ pc["ctl"] = "idle"
  /\ mining
  /\ MuFree
  /\ pc' = [pc EXCEPT !["ctl"] = "halt"]
  /\ UNCHANGED <<mining, height, agentVars, sealVars, backendVars, ledgerVars,
                 panicked>>

\* CpuAgent.Stop sends the stop signal, into a buffer of one, and empties
\* workCh.
AgentStop ==
  /\ pc["ctl"] = "halt"
  /\ agent.isMining => agent.stop = 0
  /\ agent' = IF agent.isMining
                THEN [agent EXCEPT !.isMining = FALSE, !.stop = 1, !.workCh = <<>>]
                ELSE agent
  /\ pc' = [pc EXCEPT !["ctl"] = "join"]
  /\ UNCHANGED <<mining, height, quitClosed, recv, sealVars, backendVars,
                 ledgerVars, panicked>>

\* core.Stop returns when handleEvents has left its loop, which it does
\* between two events only.
CoreStopped ==
  /\ pc["ctl"] = "join"
  /\ coreLoop.at = "on"
  /\ coreLoop' = [coreLoop EXCEPT !.at = "off"]
  /\ mining' = FALSE
  /\ pc' = [pc EXCEPT !["ctl"] = "idle"]
  /\ UNCHANGED <<height, agentVars, sealVars, commitCh, requests, ledgerVars,
                 panicked>>

-----------------------------------------------------------------------------
(* The agent.                                                              *)

\* A loop of the agent takes work: it closes quitCurrentOp of the work before
\* and starts a Seal.
AgentTakesWork ==
  /\ agent.loops > 0
  /\ agent.workCh # <<>>
  /\ LET w == Head(agent.workCh) IN
       /\ agent' = [agent EXCEPT !.workCh = <<>>, !.quit = w]
       /\ quitClosed' = quitClosed \cup ({agent.quit} \ {None})
       /\ seal' = [seal EXCEPT ![w] = "delay"]
  /\ UNCHANGED <<minerVars, recv, sealChan, proposed, sealMu, backendVars,
                 ledgerVars, panicked>>

\* Mutant: the signal is taken between two works only.
AgentStopsIdle ==
  /\ agent.loops > 0
  /\ agent.stop = 1
  /\ agent.quit = None
  /\ agent' = [agent EXCEPT !.loops = @ - 1, !.stop = 0]
  /\ UNCHANGED <<minerVars, quitClosed, recv, sealVars, backendVars, ledgerVars,
                 panicked>>

\* Or it takes the stop signal and ends.
AgentStops ==
  /\ agent.loops > 0
  /\ agent.stop = 1
  /\ agent' = [agent EXCEPT !.loops = @ - 1, !.stop = 0, !.quit = None]
  /\ quitClosed' = quitClosed \cup ({agent.quit} \ {None})
  /\ UNCHANGED <<minerVars, recv, sealVars, backendVars, ledgerVars, panicked>>

-----------------------------------------------------------------------------
(* Seal.                                                                   *)

\* Before it proposes, Seal may find that the node may not sign, that the
\* parent is gone or that there are no transactions, or be stopped.
SealBailsOut(w) ==
  /\ seal[w] = "delay"
  /\ seal' = [seal EXCEPT ![w] = "done"]
  /\ UNCHANGED <<minerVars, agentVars, sealChan, proposed, sealMu,
                 backendVars, ledgerVars, panicked>>

\* With sealMu held it names its block and asks the core to propose it.  The
\* request is posted by a goroutine, and lost if the core does not listen.
SealProposes(w) ==
  /\ seal[w] = "delay"
  /\ sealMu = None
  /\ sealMu' = w
  /\ proposed' = w
  /\ seal' = [seal EXCEPT ![w] = "wait"]
  /\ sealChan' = [sealChan EXCEPT ![w] = Len(commitCh)]
  /\ requests' \in {requests, requests \cup {w}}
  /\ UNCHANGED <<minerVars, agentVars, commitCh, coreLoop, ledgerVars, panicked>>

CanReceive(w) == seal[w] = "wait" /\ commitCh[sealChan[w]] # <<>>

\* Mutant: Seal takes whatever comes for its own block.
SealReceivesAny(w) ==
  /\ CanReceive(w)
  /\ seal' = [seal EXCEPT ![w] = "done"]
  /\ proposed' = None
  /\ sealMu' = None
  /\ recv' = recv \cup {w}
  /\ commitCh' = [commitCh EXCEPT ![sealChan[w]] = <<>>]
  /\ UNCHANGED <<minerVars, agent, quitClosed, sealChan, coreLoop, requests,
                 ledgerVars, panicked>>

\* A block from commitChBlock: its own block is the result, for any other
\* Seal keeps waiting, on the channel of the moment.
SealReceives(w) ==
  /\ CanReceive(w)
  /\ IF Head(commitCh[sealChan[w]]) = w
       THEN /\ seal' = [seal EXCEPT ![w] = "done"]
            /\ proposed' = None
            /\ sealMu' = None
            /\ recv' = recv \cup {w}
            /\ UNCHANGED sealChan
       ELSE /\ sealChan' = [sealChan EXCEPT ![w] = Len(commitCh)]
            /\ UNCHANGED <<seal, proposed, sealMu, recv>>
  /\ commitCh' = [commitCh EXCEPT ![sealChan[w]] = <<>>]
  /\ UNCHANGED <<minerVars, agent, quitClosed, coreLoop, requests, ledgerVars,
                 panicked>>

\* A closed and empty channel yields nil, and the log line of the branch that
\* keeps waiting asks nil for its hash.
SealReceivesNil(w) ==
  /\ seal[w] = "wait"
  /\ sealChan[w] < Len(commitCh)
  /\ commitCh[sealChan[w]] = <<>>
  /\ panicked' = TRUE
  /\ UNCHANGED <<minerVars, agentVars, sealVars, backendVars, ledgerVars>>

SealQuits(w) ==
  /\ seal[w] = "wait"
  /\ w \in quitClosed
  /\ seal' = [seal EXCEPT ![w] = "done"]
  /\ proposed' = None
  /\ sealMu' = None
  /\ UNCHANGED <<minerVars, agentVars, sealChan, backendVars, ledgerVars,
                 panicked>>

-----------------------------------------------------------------------------
(* The consensus core, seen from the backend.                              *)

\* The blocks that may turn out to be decided at a height: one the core was
\* asked to propose, or one of another fullnode.
Decisions(h) ==
  IF decided[h] = 0 THEN {w \in requests : height[w] = h} \cup {None}
                    ELSE {decided[h]}

\* The core takes an event, unless Stop has closed its subscriptions.
HandleEvent ==
  /\ coreLoop.at = "on"
  /\ pc["ctl"] # "join"
  /\ coreLoop' = [coreLoop EXCEPT !.at = "busy"]
  /\ UNCHANGED <<minerVars, agentVars, sealVars, commitCh, requests, ledgerVars,
                 panicked>>

\* Mutant: a block no Seal waits for is dropped.
CommitToSeal ==
  /\ coreLoop.at = "busy"
  /\ head < MaxHeads
  /\ \E b \in Decisions(head + 1) :
       /\ decided' = [decided EXCEPT ![head + 1] = b]
       /\ coreLoop' = IF b = proposed /\ b # None
                        THEN [at |-> "sending", block |-> b, last |-> head + 1]
                        ELSE [coreLoop EXCEPT !.at = "on", !.last = head + 1]
  /\ UNCHANGED <<minerVars, agentVars, sealVars, commitCh, requests, enqueued,
                 head, heads, panicked>>

\* The event makes the core commit the block of the next height.  A block that
\* was committed before is committed again in a later round only, and a round
\* is far longer than a goroutine waits to run.  Commit compares the hash with
\* proposedBlockHash, without sealMu: the block of a waiting Seal is sent to
\* it, any other goes to the fetcher.
BackendCommit ==
  /\ coreLoop.at = "busy"
  /\ head < MaxHeads
  /\ coreLoop.last = head + 1 => \A w \in Works : ~CanReceive(w)
  /\ \E b \in Decisions(head + 1) :
       /\ decided' = [decided EXCEPT ![head + 1] = b]
       /\ IF b = proposed /\ b # None
            THEN /\ coreLoop' = [at |-> "sending", block |-> b, last |-> head + 1]
                 /\ UNCHANGED enqueued
            ELSE /\ coreLoop' = [coreLoop EXCEPT !.at = "on", !.last = head + 1]
                 /\ enqueued' = enqueued \cup {head + 1}
  /\ UNCHANGED <<minerVars, agentVars, sealVars, commitCh, requests, head, heads,
                 panicked>>

\* Or it does nothing the backend sees.
EventHandled ==
  /\ coreLoop.at = "busy"
  /\ coreLoop' = [coreLoop EXCEPT !.at = "on"]
  /\ UNCHANGED <<minerVars, agentVars, sealVars, commitCh, requests, ledgerVars,
                 panicked>>

\* The send of Commit waits for room in the buffer of one.
CommitSends ==
  /\ coreLoop.at = "sending"
  /\ LET n == Len(commitCh) IN
       /\ commitCh[n] = <<>>
       /\ commitCh' = [commitCh EXCEPT ![n] = <<coreLoop.block>>]
  /\ coreLoop' = [coreLoop EXCEPT !.at = "on", !.block = None]
  /\ UNCHANGED <<minerVars, agentVars, sealVars, requests, ledgerVars, panicked>>

ImportEnqueued ==
  /\ head + 1 \in enqueued
  /\ head' = head + 1
  /\ heads' = heads + 1
  /\ UNCHANGED <<minerVars, agentVars, sealVars, backendVars, enqueued, decided,
                 panicked>>

\* The block of the next height comes from another node.
BlockArrives ==
  /\ head < MaxHeads
  /\ \E b \in Decisions(head + 1) : decided' = [decided EXCEPT ![head + 1] = b]
  /\ head' = head + 1
  /\ heads' = heads + 1
  /\ UNCHANGED <<minerVars, agentVars, sealVars, backendVars, enqueued, panicked>>

-----------------------------------------------------------------------------
SealStep(w) ==
  \/ SealBailsOut(w) \/ SealProposes(w)
  \/ SealReceives(w) \/ SealReceivesNil(w) \/ SealQuits(w)

SealingNext ==
  /\ ~panicked
  /\ \/ HandleChainHead \/ HandleNewTxs
     \/ \E t \in Threads : CommitNewWork(t) \/ Push(t)
     \/ StartMining \/ StopMining \/ AgentStop \/ CoreStopped
     \/ AgentTakesWork \/ AgentStops
     \/ \E w \in Works : SealStep(w) \/ Wait(w)
     \/ HandleEvent \/ BackendCommit \/ EventHandled \/ CommitSends
     \/ ImportEnqueued \/ BlockArrives

SealingSpec == SealingInit /\ [][SealingNext]_sealingVars

\* The steps of the goroutines, each of which goes on when it can while the
\* process is up; the fetcher imports what it was given, and the core commits a
\* decided block again in a later round.  The operator, transactions and other
\* nodes owe nothing.
Routines == {"head", "stop", "agent", "halt", "loop", "send", "import"}
Run(r) ==
  /\ ~panicked
  /\ \/ r = "head" /\ HandleChainHead
     \/ r \in Threads /\ (CommitNewWork(r) \/ Push(r))
     \/ r = "stop" /\ (AgentStop \/ CoreStopped)
     \/ r = "agent" /\ AgentTakesWork
     \/ r = "halt" /\ AgentStops
     \/ r = "loop" /\ (HandleEvent \/ EventHandled)
     \/ r = "send" /\ CommitSends
     \/ r = "import" /\ ImportEnqueued
RunWork(w, r) ==
  /\ ~panicked
  /\ (r = "seal" /\ SealStep(w)) \/ (r = "wait" /\ Wait(w))
CommitAgain == ~panicked /\ BackendCommit

FairSealing ==
  /\ SealingSpec
  /\ \A r \in Routines \cup Threads : WF_sealingVars(Run(r))
  /\ \A w \in Works, r \in {"seal", "wait"} : WF_sealingVars(RunWork(w, r))
  /\ SF_sealingVars(CommitAgain)

-----------------------------------------------------------------------------
(* Properties.                                                             *)

\* Commit waits for room in commitChBlock and no Seal is there to make it.
CoreStuck ==
  /\ coreLoop.at = "sending"
  /\ commitCh[Len(commitCh)] # <<>>
  /\ \A w \in Works : seal[w] # "wait"

\* Whatever the order in which works are replaced, engines restarted and
\* blocks committed, a block that Seal hands to the worker to be written is
\* the one the fullnodes decided on at its height, although Commit and Seal
\* meet through a hash and a channel that several Seals share.
SealedIsDecided == \A w \in recv : decided[height[w]] = w

\* A decided block reaches the chain of a node that keeps mining, although
\* its Seal may be stopped with the block already in commitChBlock and the
\* block is then in nobody's hands until the core commits it again.
DecidedReachesChain ==
  \A h \in SealHeights :
    decided[h] # 0 ~> head >= h \/ ~mining \/ panicked \/ CoreStuck

\* Stop returns: the agent takes the signal, and the core's loop reaches the
\* end of its event unless it is stuck in Commit.
StopReturns == pc["ctl"] = "halt" ~> pc["ctl"] = "idle" \/ panicked \/ CoreStuck
=============================================================================
