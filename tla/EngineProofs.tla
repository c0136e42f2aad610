---------------------------- MODULE EngineProofs ----------------------------
(***************************************************************************)
(* Theorems about two parts of the engine around its core.                 *)
(*                                                                         *)
(* Sealing, for every number of works, heights and runs of the engine:     *)
(* Seal hands on decided blocks only.                                      *)
(*                                                                         *)
(* CoreBacklog, for every set of sources and every bound on messages:      *)
(* processBacklog loses no message, and as long as float32 tells the       *)
(* priorities of the heights apart it leaves none that could be handled in *)
(* a queue; the same for the requests.  Both rest on what one pass over a  *)
(* queue takes off it (PopsRight) and on the order in which toPriority     *)
(* ranks a message that may be handled and one that may not (ReadyFirst).  *)
(***************************************************************************)
EXTENDS CoreBacklog, Sealing, WellFoundedInduction, SequenceTheorems, TLAPS

-----------------------------------------------------------------------------
(* Sealing.                                                                *)

\* A block built for a height at which it was decided.
Good(b) ==
  /\ b \in Works /\ height[b] \in SealHeights /\ decided[height[b]] = b

SealPlaces == {"none", "delay", "wait", "done"}

AgentOK == "loops" \in DOMAIN agent /\ agent.loops \in Nat
LoopOK ==
  coreLoop \in [at : {"off", "on", "busy", "sending"},
               block : Works \cup {None}, last : Nat]

SealTypeOK ==
  /\ head \in Nat
  /\ height \in [Works -> Nat]
  /\ decided \in [SealHeights -> Works \cup {0, None}]
  /\ proposed \in Works \cup {None}
  /\ requests \subseteq Works
  /\ recv \subseteq Works
  /\ seal \in [Works -> SealPlaces]
  /\ sealChan \in [Works -> Nat]
  /\ commitCh \in Seq(Seq(Works))
  /\ AgentOK
  /\ LoopOK

\* What is decided was built for its height.
DecidedBuilt == \A h \in SealHeights : decided[h] \in Works => height[decided[h]] = h

\* A decided block keeps its place on the whole way from Commit through the
\* channels, closed ones too, to the result.
GoodOnTheWay ==
  /\ \A i \in 1 .. Len(commitCh) : \A j \in 1 .. Len(commitCh[i]) : Good(commitCh[i][j])
  /\ coreLoop.at = "sending" => Good(coreLoop.block)
  /\ \A w \in recv : Good(w)

\* Goroutines that use commitChBlock exist only after Start has made one.
ChannelMade ==
  /\ coreLoop.at # "off" => Len(commitCh) > 0
  /\ agent.loops > 0 => Len(commitCh) > 0
  /\ \A w \in Works : /\ seal[w] = "delay" => Len(commitCh) > 0
                      /\ seal[w] = "wait" => sealChan[w] \in 1 .. Len(commitCh)

SealingInd == SealTypeOK /\ DecidedBuilt /\ GoodOnTheWay /\ ChannelMade

------------------------------------------------------------------------------
\* The invariant holds before anything runs.
LEMMA SealingInitInd == SealingInit => SealingInd
<1> SUFFICES ASSUME SealingInit PROVE SealingInd
  OBVIOUS
<1>1. SealTypeOK
  BY SealingAssumption DEF SealingInit, SealTypeOK, AgentOK, LoopOK, SealPlaces, Works, SealHeights
<1>2. DecidedBuilt
  BY DEF SealingInit, DecidedBuilt, Works, SealHeights
<1>3. GoodOnTheWay
  BY DEF SealingInit, GoodOnTheWay
<1>4. ChannelMade
  BY DEF SealingInit, ChannelMade
<1> QED
  BY <1>1, <1>2, <1>3, <1>4 DEF SealingInd

\* A block that is good stays good when works keep their heights and heights
\* their decisions.
LEMMA GoodStays ==
  ASSUME NEW b, Good(b), SealTypeOK,
         \A w \in Works : height[w] # 0 => height'[w] = height[w],
         \A h \in SealHeights : decided[h] \in Works => decided'[h] = decided[h]
  PROVE  Good(b)'
<1>1. height[b] # 0
  BY SealingAssumption DEF Good, SealHeights
<1> QED
  BY <1>1 DEF Good

\* A step that changes neither works, decisions, channels nor results keeps the
\* invariant if it keeps the types and makes no user of a missing channel.
LEMMA SameWay ==
  ASSUME SealingInd, UNCHANGED <<height, decided, commitCh, recv>>,
         coreLoop'.at = "sending" => coreLoop' = coreLoop
  PROVE  DecidedBuilt' /\ GoodOnTheWay'
<1>1. DecidedBuilt'
  BY DEF SealingInd, DecidedBuilt
<1>2. \A b : Good(b) => Good(b)'
  BY DEF Good
<1>3. GoodOnTheWay'
  BY <1>2 DEF SealingInd, GoodOnTheWay, Good
<1> QED
  BY <1>1, <1>3

------------------------------------------------------------------------------
\* The worker.
LEMMA WorkerInd ==
  ASSUME SealingInd,
         HandleChainHead \/ HandleNewTxs \/ \E t \in Threads : CommitNewWork(t) \/ Push(t)
  PROVE  SealingInd'
<1> USE SealingAssumption
<1>1. CASE HandleChainHead \/ HandleNewTxs
  <2>1. UNCHANGED <<height, decided, commitCh, recv, coreLoop, head, proposed,
                    requests, seal, sealChan, agent>>
    BY <1>1 DEF HandleChainHead, HandleNewTxs, minerVars, agentVars, sealVars,
                backendVars, ledgerVars
  <2>2. SealTypeOK' /\ ChannelMade'
    BY <2>1 DEF SealingInd, SealTypeOK, AgentOK, LoopOK, ChannelMade
  <2> QED
    BY <2>1, <2>2, SameWay DEF SealingInd
<1>2. ASSUME NEW t \in Threads, CommitNewWork(t) PROVE SealingInd'
  <2>1. UNCHANGED <<decided, commitCh, recv, coreLoop, head, proposed,
                    requests, seal, sealChan, agent>>
    BY <1>2 DEF CommitNewWork, agentVars, sealVars, backendVars, ledgerVars
  <2>2. \/ \E w \in Works : height[w] = 0 /\ height' = [height EXCEPT ![w] = head + 1]
        \/ height' = height
    BY <1>2 DEF CommitNewWork, Unbuilt
  <2>3. SealTypeOK'
    BY <2>1, <2>2 DEF SealingInd, SealTypeOK, AgentOK, LoopOK
  <2>4. \A w \in Works : height[w] # 0 => height'[w] = height[w]
    BY <2>2 DEF SealingInd, SealTypeOK, AgentOK, LoopOK
  <2>5. \A b : Good(b) => Good(b)'
    BY <2>1, <2>4, GoodStays DEF SealingInd
  <2>6. DecidedBuilt'
    BY <2>1, <2>4 DEF SealingInd, DecidedBuilt, SealHeights
  <2>7. GoodOnTheWay'
    BY <2>1, <2>5 DEF SealingInd, GoodOnTheWay, Good
  <2>8. ChannelMade'
    BY <2>1 DEF SealingInd, ChannelMade
  <2> QED
    BY <2>3, <2>6, <2>7, <2>8 DEF SealingInd
<1>3. ASSUME NEW t \in Threads, Push(t) PROVE SealingInd'
  <2>1. UNCHANGED <<height, decided, commitCh, recv, coreLoop, head, proposed,
                    requests, seal, sealChan>>
    BY <1>3 DEF Push, sealVars, backendVars, ledgerVars
  <2>2. agent' = [agent EXCEPT !.workCh = <<Newest>>]
    BY <1>3 DEF Push
  <2>3. SealTypeOK' /\ ChannelMade'
    BY <2>1, <2>2 DEF SealingInd, SealTypeOK, AgentOK, LoopOK, ChannelMade
  <2> QED
    BY <2>1, <2>3, SameWay DEF SealingInd
<1> QED
  BY <1>1, <1>2, <1>3

\* Start and stop of the engine, and the agent.
LEMMA EngineInd ==
  ASSUME SealingInd,
         StartMining \/ StopMining \/ AgentStop \/ CoreStopped \/ AgentTakesWork \/ AgentStops
  PROVE  SealingInd'
<1> USE SealingAssumption
<1>1. CASE StartMining
  <2>1. /\ UNCHANGED <<height, decided, recv, head, requests, seal, sealChan>>
        /\ proposed' = None
        /\ commitCh' = Append(commitCh, <<>>)
        /\ coreLoop' = [coreLoop EXCEPT !.at = "on"]
        /\ \/ agent' = agent
           \/ agent' = [agent EXCEPT !.isMining = TRUE, !.loops = @ + 1]
    BY <1>1 DEF StartMining, ledgerVars
  <2>2. /\ commitCh \in Seq(Seq(Works)) /\ <<>> \in Seq(Works)
        /\ Len(commitCh) \in Nat
    BY DEF SealingInd, SealTypeOK, AgentOK, LoopOK
  <2>3. /\ commitCh' \in Seq(Seq(Works))
        /\ Len(commitCh') = Len(commitCh) + 1
        /\ \A i \in 1 .. Len(commitCh) : commitCh'[i] = commitCh[i]
        /\ commitCh'[Len(commitCh) + 1] = <<>>
    BY <2>1, <2>2, AppendProperties
  <2>4. SealTypeOK'
    <3>1. AgentOK'
      <4>1. "loops" \in DOMAIN agent /\ agent.loops \in Nat
        BY DEF SealingInd, SealTypeOK, AgentOK
      <4>2. DOMAIN agent' = DOMAIN agent
        BY Zenon, <2>1
      <4>3. agent'.loops \in {agent.loops, agent.loops + 1}
        BY Zenon, <2>1, <4>1
      <4> QED
        BY <4>1, <4>2, <4>3 DEF AgentOK
    <3>2. LoopOK'
      BY <2>1, Zenon DEF SealingInd, SealTypeOK, LoopOK
    <3> QED
      BY <2>1, <2>3, <3>1, <3>2 DEF SealingInd, SealTypeOK
  <2>5. DecidedBuilt'
    BY <2>1 DEF SealingInd, DecidedBuilt
  <2>6. \A b : Good(b) => Good(b)'
    BY <2>1 DEF Good
  <2>7. ASSUME NEW i \in 1 .. Len(commitCh'), NEW j \in 1 .. Len(commitCh'[i])
        PROVE  Good(commitCh[i][j])'
    <3>1. i # Len(commitCh) + 1
      BY <2>3
    <3>2. i \in 1 .. Len(commitCh)
      <4>1. Len(commitCh') = Len(commitCh) + 1
        BY <2>3
      <4> HIDE DEF SealingInd
      <4> QED
        BY <2>2, <3>1, <4>1
    <3>3. commitCh'[i] = commitCh[i]
      BY Zenon, <2>3, <3>2
    <3>4. Good(commitCh[i][j])
      BY <3>2, <3>3 DEF SealingInd, GoodOnTheWay
    <3> QED
      BY <2>6, <3>3, <3>4 DEF Good
  <2>8. coreLoop'.at = "on"
    BY <2>1 DEF SealingInd, SealTypeOK, AgentOK, LoopOK
  <2>9. GoodOnTheWay'
    BY <2>1, <2>6, <2>7, <2>8 DEF SealingInd, GoodOnTheWay, Good
  <2>10. ChannelMade'
    BY <2>1, <2>2, <2>3 DEF SealingInd, ChannelMade
  <2> QED
    BY <2>4, <2>5, <2>9, <2>10 DEF SealingInd
<1>2. CASE StopMining \/ AgentStop \/ CoreStopped \/ AgentStops
  <2>1. /\ UNCHANGED <<height, decided, commitCh, recv, head, proposed, requests,
                       seal, sealChan>>
        /\ coreLoop' = coreLoop \/ coreLoop' = [coreLoop EXCEPT !.at = "off"]
        /\ \/ agent' = agent
           \/ agent' = [agent EXCEPT !.isMining = FALSE, !.stop = 1, !.workCh = <<>>]
           \/ agent.loops > 0
              /\ agent' = [agent EXCEPT !.loops = @ - 1, !.stop = 0, !.quit = None]
    BY <1>2 DEF StopMining, AgentStop, CoreStopped, AgentStops, minerVars, agentVars,
                sealVars, backendVars, ledgerVars
  <2>2. SealTypeOK'
    <3>1. AgentOK'
      <4>1. "loops" \in DOMAIN agent /\ agent.loops \in Nat
        BY DEF SealingInd, SealTypeOK, AgentOK
      <4>2. DOMAIN agent' = DOMAIN agent
        BY Zenon, <2>1
      <4>3. agent'.loops \in {agent.loops, agent.loops - 1} /\ (agent'.loops # agent.loops => agent.loops > 0)
        BY Zenon, <2>1, <4>1
      <4> QED
        BY <4>1, <4>2, <4>3 DEF AgentOK
    <3>2. LoopOK'
      BY <2>1, Zenon DEF SealingInd, SealTypeOK, LoopOK
    <3> QED
      BY <2>1, <3>1, <3>2 DEF SealingInd, SealTypeOK
  <2>3. ChannelMade'
    BY <2>1, Zenon DEF SealingInd, SealTypeOK, AgentOK, LoopOK, ChannelMade
  <2>4. coreLoop'.at = "sending" => coreLoop' = coreLoop
    BY <2>1 DEF SealingInd, SealTypeOK, AgentOK, LoopOK
  <2> QED
    BY <2>1, <2>2, <2>3, <2>4, SameWay DEF SealingInd
<1>3. CASE AgentTakesWork
  <2>1. /\ UNCHANGED <<height, decided, commitCh, recv, head, proposed, requests,
                       sealChan, coreLoop>>
        /\ agent.loops > 0
        /\ agent' = [agent EXCEPT !.workCh = <<>>, !.quit = Head(agent.workCh)]
        /\ seal' = [seal EXCEPT ![Head(agent.workCh)] = "delay"]
    BY <1>3 DEF AgentTakesWork, minerVars, backendVars, ledgerVars
  <2>2. SealTypeOK'
    BY <2>1, Zenon DEF SealingInd, SealTypeOK, AgentOK, LoopOK, SealPlaces
  <2>3. \A w \in Works : seal'[w] = seal[w] \/ seal'[w] = "delay"
    BY <2>1 DEF SealingInd, SealTypeOK, AgentOK, LoopOK
  <2>4. ChannelMade'
    BY <2>1, <2>3 DEF SealingInd, SealTypeOK, AgentOK, LoopOK, ChannelMade
  <2> QED
    BY <2>1, <2>2, <2>4, SameWay DEF SealingInd
<1> QED
  BY <1>1, <1>2, <1>3

\* Taking the block out of a channel leaves the others as they are.
LEMMA Emptied ==
  ASSUME NEW S, NEW c \in Seq(Seq(S)), NEW i \in 1 .. Len(c), NEW e \in Seq(S)
  PROVE  /\ [c EXCEPT ![i] = e] \in Seq(Seq(S))
         /\ Len([c EXCEPT ![i] = e]) = Len(c)
         /\ [c EXCEPT ![i] = e][i] = e
         /\ \A j \in 1 .. Len(c) : j # i => [c EXCEPT ![i] = e][j] = c[j]
BY ExceptSeq

\* Seal and the worker's wait.
LEMMA SealStepInd ==
  ASSUME SealingInd, NEW w \in Works, SealStep(w) \/ Wait(w)
  PROVE  SealingInd'
<1> USE SealingAssumption
<1>1. CASE SealBailsOut(w) \/ SealQuits(w)
  <2>1. /\ UNCHANGED <<height, decided, commitCh, recv, head, requests, sealChan,
                       coreLoop, agent>>
        /\ proposed' = proposed \/ proposed' = None
        /\ seal' = [seal EXCEPT ![w] = "done"]
    BY <1>1 DEF SealBailsOut, SealQuits, minerVars, agentVars, backendVars, ledgerVars
  <2>2. SealTypeOK'
    BY <2>1 DEF SealingInd, SealTypeOK, AgentOK, LoopOK, SealPlaces
  <2>3. ChannelMade'
    BY <2>1 DEF SealingInd, SealTypeOK, AgentOK, LoopOK, ChannelMade
  <2> QED
    BY <2>1, <2>2, <2>3, SameWay DEF SealingInd
<1>2. CASE SealProposes(w)
  <2>1. /\ UNCHANGED <<height, decided, commitCh, recv, head, coreLoop, agent>>
        /\ seal[w] = "delay" /\ proposed' = w
        /\ seal' = [seal EXCEPT ![w] = "wait"]
        /\ sealChan' = [sealChan EXCEPT ![w] = Len(commitCh)]
        /\ requests' \in {requests, requests \cup {w}}
    BY <1>2 DEF SealProposes, minerVars, agentVars, ledgerVars
  <2>2. Len(commitCh) \in Nat /\ Len(commitCh) > 0
    BY <2>1 DEF SealingInd, SealTypeOK, AgentOK, LoopOK, ChannelMade
  <2>3. SealTypeOK'
    BY <2>1, <2>2 DEF SealingInd, SealTypeOK, AgentOK, LoopOK, SealPlaces
  <2>4. ChannelMade'
    BY <2>1, <2>2 DEF SealingInd, SealTypeOK, AgentOK, LoopOK, ChannelMade
  <2> QED
    BY <2>1, <2>3, <2>4, SameWay DEF SealingInd
<1>3. CASE SealReceives(w)
  <2> DEFINE i == sealChan[w]
  <2>1. /\ UNCHANGED <<height, decided, head, requests, coreLoop, agent>>
        /\ seal[w] = "wait" /\ commitCh[i] # <<>>
        /\ commitCh' = [commitCh EXCEPT ![i] = <<>>]
        /\ \/ /\ Head(commitCh[i]) = w /\ seal' = [seal EXCEPT ![w] = "done"]
              /\ proposed' = None /\ recv' = recv \cup {w} /\ sealChan' = sealChan
           \/ /\ sealChan' = [sealChan EXCEPT ![w] = Len(commitCh)]
              /\ UNCHANGED <<seal, proposed, recv>>
    BY <1>3 DEF SealReceives, CanReceive, minerVars, ledgerVars
  <2>2. /\ commitCh \in Seq(Seq(Works)) /\ i \in 1 .. Len(commitCh)
        /\ <<>> \in Seq(Works) /\ Len(commitCh) \in Nat
    BY <2>1 DEF SealingInd, SealTypeOK, AgentOK, LoopOK, ChannelMade
  <2>3. /\ commitCh' \in Seq(Seq(Works)) /\ Len(commitCh') = Len(commitCh)
        /\ commitCh'[i] = <<>>
        /\ \A j \in 1 .. Len(commitCh) : j # i => commitCh'[j] = commitCh[j]
    BY <2>1, <2>2, Emptied
  <2>4. SealTypeOK'
    BY <2>1, <2>2, <2>3, Zenon DEF SealingInd, SealTypeOK, AgentOK, LoopOK, SealPlaces
  <2>5. DecidedBuilt'
    BY <2>1 DEF SealingInd, DecidedBuilt
  <2>6. \A b : Good(b) => Good(b)'
    BY <2>1 DEF Good
  <2>7. Good(Head(commitCh[i]))
    <3>1. commitCh[i] \in Seq(Works)
      BY <2>2, ElementOfSeq
    <3>2. Head(commitCh[i]) = commitCh[i][1] /\ 1 \in 1 .. Len(commitCh[i])
      BY <3>1, <2>1
    <3> QED
      BY <2>2, <3>2 DEF SealingInd, GoodOnTheWay, Good
  <2>8. ASSUME NEW k \in 1 .. Len(commitCh'), NEW j \in 1 .. Len(commitCh'[k])
        PROVE  Good(commitCh[k][j])'
    <3>1. k # i
      BY <2>3
    <3>2. k \in 1 .. Len(commitCh) /\ commitCh'[k] = commitCh[k]
      BY <2>3, <3>1
    <3> QED
      BY <2>6, <3>2 DEF SealingInd, GoodOnTheWay, Good
  <2>9. GoodOnTheWay'
    BY <2>1, <2>6, <2>7, <2>8 DEF SealingInd, GoodOnTheWay, Good
  <2>10. ChannelMade'
    <3>1. \A v \in Works : /\ seal'[v] = seal[v] \/ seal'[v] = "done"
                           /\ sealChan'[v] = sealChan[v] \/ sealChan'[v] = Len(commitCh)
      BY <2>1 DEF SealingInd, SealTypeOK
    <3>2. Len(commitCh) \in 1 .. Len(commitCh)
      BY <2>2
    <3> QED
      BY <2>1, <2>3, <3>1, <3>2, Zenon DEF SealingInd, ChannelMade
  <2> QED
    BY <2>4, <2>5, <2>9, <2>10 DEF SealingInd
<1>4. CASE SealReceivesNil(w)
  <2>1. UNCHANGED <<height, decided, commitCh, recv, head, requests, sealChan, coreLoop,
                    agent, proposed, seal>>
    BY <1>4 DEF SealReceivesNil, minerVars, agentVars, sealVars, backendVars, ledgerVars
  <2>2. SealTypeOK' /\ ChannelMade'
    BY <2>1 DEF SealingInd, SealTypeOK, AgentOK, LoopOK, ChannelMade
  <2> QED
    BY <2>1, <2>2, SameWay DEF SealingInd
<1>5. CASE Wait(w)
  <2>1. /\ UNCHANGED <<height, decided, commitCh, requests, sealChan, coreLoop,
                       agent, proposed, seal>>
        /\ recv' = recv \ {w} /\ (head' = head \/ head' = height[w])
    BY <1>5 DEF Wait, minerVars, sealVars, backendVars
  <2>2. SealTypeOK'
    BY <2>1 DEF SealingInd, SealTypeOK, AgentOK, LoopOK
  <2>3. DecidedBuilt' /\ ChannelMade'
    BY <2>1 DEF SealingInd, DecidedBuilt, ChannelMade
  <2>4. \A b : Good(b) => Good(b)'
    BY <2>1 DEF Good
  <2>5. GoodOnTheWay'
    BY <2>1, <2>4 DEF SealingInd, GoodOnTheWay, Good
  <2> QED
    BY <2>2, <2>3, <2>5 DEF SealingInd
<1> QED
  BY <1>1, <1>2, <1>3, <1>4, <1>5 DEF SealStep

\* Whatever a step decides at the next height, it was undecided or stays, and it
\* is a block built for that height.
LEMMA DecisionKept ==
  ASSUME SealingInd, head < MaxHeads, NEW b \in Decisions(head + 1),
         decided' = [decided EXCEPT ![head + 1] = b], height' = height
  PROVE  /\ head + 1 \in SealHeights
         /\ b \in Works \cup {None}
         /\ b \in Works => height[b] = head + 1
         /\ decided' \in [SealHeights -> Works \cup {0, None}]
         /\ \A h \in SealHeights : decided[h] \in Works => decided'[h] = decided[h]
         /\ DecidedBuilt'
         /\ \A x : Good(x) => Good(x)'
         /\ b \in Works => Good(b)'
<1> USE SealingAssumption
<1>1. head + 1 \in SealHeights
  BY DEF SealingInd, SealTypeOK, AgentOK, LoopOK, SealHeights
<1>2. 0 \notin Works /\ None \notin Works /\ None # 0
  BY DEF Works
<1>3. /\ b \in Works \cup {None}
      /\ b \in Works => height[b] = head + 1
      /\ decided[head + 1] \in Works => b = decided[head + 1]
  BY <1>1, <1>2 DEF SealingInd, SealTypeOK, AgentOK, LoopOK, DecidedBuilt, Decisions
<1>4. decided' \in [SealHeights -> Works \cup {0, None}]
  BY <1>1, <1>3 DEF SealingInd, SealTypeOK, AgentOK, LoopOK
<1>5. \A h \in SealHeights : decided[h] \in Works => decided'[h] = decided[h]
  BY <1>1, <1>3 DEF SealingInd, SealTypeOK, AgentOK, LoopOK
<1>6. DecidedBuilt'
  BY <1>1, <1>3, <1>5 DEF SealingInd, SealTypeOK, AgentOK, LoopOK, DecidedBuilt
<1>7. \A x : Good(x) => Good(x)'
  BY <1>5, GoodStays DEF SealingInd
<1>8. b \in Works => Good(b)'
  BY <1>1, <1>3 DEF Good, SealingInd, SealTypeOK, AgentOK, LoopOK
<1> QED
  BY <1>1, <1>3, <1>4, <1>5, <1>6, <1>7, <1>8

\* The core, and blocks from elsewhere.
LEMMA CoreInd ==
  ASSUME SealingInd,
         HandleEvent \/ BackendCommit \/ EventHandled \/ CommitSends
           \/ ImportEnqueued \/ BlockArrives
  PROVE  SealingInd'
<1> USE SealingAssumption
<1>1. CASE HandleEvent \/ EventHandled
  <2>1. /\ UNCHANGED <<height, decided, commitCh, recv, head, requests, sealChan,
                       agent, proposed, seal>>
        /\ coreLoop.at # "off"
        /\ \/ coreLoop' = [coreLoop EXCEPT !.at = "busy"]
           \/ coreLoop' = [coreLoop EXCEPT !.at = "on"]
    BY <1>1 DEF HandleEvent, EventHandled, minerVars, agentVars, sealVars, ledgerVars
  <2>2. SealTypeOK' /\ coreLoop'.at # "sending"
    BY <2>1, Zenon DEF SealingInd, SealTypeOK, AgentOK, LoopOK
  <2>3. ChannelMade'
    BY <2>1 DEF SealingInd, ChannelMade
  <2> QED
    BY <2>1, <2>2, <2>3, SameWay DEF SealingInd
<1>2. CASE BackendCommit
  <2>1. PICK b \in Decisions(head + 1) :
          /\ decided' = [decided EXCEPT ![head + 1] = b]
          /\ \/ /\ b # None
                /\ coreLoop' = [at |-> "sending", block |-> b, last |-> head + 1]
             \/ coreLoop' = [coreLoop EXCEPT !.at = "on", !.last = head + 1]
    BY <1>2, Zenon DEF BackendCommit
  <2>2. /\ UNCHANGED <<height, commitCh, recv, head, requests, sealChan, agent,
                       proposed, seal>>
        /\ head < MaxHeads /\ coreLoop.at = "busy"
    BY <1>2 DEF BackendCommit, minerVars, agentVars, sealVars
  <2>3. /\ b \in Works \cup {None} /\ decided' \in [SealHeights -> Works \cup {0, None}]
        /\ DecidedBuilt' /\ (\A x : Good(x) => Good(x)') /\ (b \in Works => Good(b)')
    BY <2>1, <2>2, DecisionKept, Zenon
  <2>4. SealTypeOK'
    <3>1. head \in Nat
      BY DEF SealingInd, SealTypeOK
    <3>2. LoopOK'
      <4>1. LoopOK
        BY DEF SealingInd, SealTypeOK
      <4>2. CASE coreLoop' = [at |-> "sending", block |-> b, last |-> head + 1]
        BY <2>3, <3>1, <4>2 DEF LoopOK
      <4>3. CASE coreLoop' = [coreLoop EXCEPT !.at = "on", !.last = head + 1]
        <5>1. head + 1 \in Nat
          BY <3>1
        <5> QED
          BY <4>1, <4>3, <5>1, Zenon DEF LoopOK
      <4> QED
        BY <2>1, <4>2, <4>3
    <3> QED
      BY <2>2, <2>3, <3>2 DEF SealingInd, SealTypeOK, AgentOK
  <2>5. coreLoop'.at = "sending" => Good(coreLoop.block)'
    <3>1. coreLoop'.at = "sending" => b \in Works /\ coreLoop'.block = b
      <4>1. LoopOK
        BY DEF SealingInd, SealTypeOK
      <4>2. CASE b # None /\ coreLoop' = [at |-> "sending", block |-> b, last |-> head + 1]
        <5>1. b \in Works
          BY Zenon, <2>3, <4>2
        <5>2. coreLoop'.block = b
          BY <4>2
        <5> QED
          BY <5>1, <5>2
      <4>3. CASE coreLoop' = [coreLoop EXCEPT !.at = "on", !.last = head + 1]
        BY <4>1, <4>3 DEF LoopOK
      <4> QED
        BY <2>1, <4>2, <4>3
    <3> QED
      BY <2>3, <3>1 DEF Good
  <2>6. GoodOnTheWay'
    BY <2>2, <2>3, <2>5, Zenon DEF SealingInd, GoodOnTheWay, Good
  <2>7. ChannelMade'
    BY <2>2 DEF SealingInd, ChannelMade
  <2> QED
    BY <2>3, <2>4, <2>6, <2>7 DEF SealingInd
<1>3. CASE CommitSends
  <2> DEFINE n == Len(commitCh)
  <2>1. /\ UNCHANGED <<height, decided, recv, head, requests, sealChan, agent,
                       proposed, seal>>
        /\ coreLoop.at = "sending"
        /\ commitCh' = [commitCh EXCEPT ![n] = <<coreLoop.block>>]
        /\ coreLoop' = [coreLoop EXCEPT !.at = "on", !.block = None]
    BY <1>3 DEF CommitSends, minerVars, agentVars, sealVars, ledgerVars
  <2>2. /\ commitCh \in Seq(Seq(Works)) /\ n \in 1 .. Len(commitCh) /\ n \in Nat
        /\ Good(coreLoop.block)
    BY <2>1 DEF SealingInd, SealTypeOK, AgentOK, LoopOK, ChannelMade, GoodOnTheWay
  <2>3. <<coreLoop.block>> \in Seq(Works)
    BY <2>2 DEF Good
  <2>4. /\ commitCh' \in Seq(Seq(Works)) /\ Len(commitCh') = Len(commitCh)
        /\ commitCh'[n] = <<coreLoop.block>>
        /\ \A j \in 1 .. Len(commitCh) : j # n => commitCh'[j] = commitCh[j]
    BY <2>1, <2>2, <2>3, Emptied
  <2>5. SealTypeOK' /\ coreLoop'.at = "on"
    BY <2>1, <2>4, Zenon DEF SealingInd, SealTypeOK, AgentOK, LoopOK
  <2>6. DecidedBuilt' /\ \A b : Good(b) => Good(b)'
    BY <2>1 DEF SealingInd, DecidedBuilt, Good
  <2>7. ASSUME NEW k \in 1 .. Len(commitCh'), NEW j \in 1 .. Len(commitCh'[k])
        PROVE  Good(commitCh[k][j])'
    <3>1. CASE k = n
      <4>1. j = 1 /\ commitCh'[k][j] = coreLoop.block
        <5>1. Len(<<coreLoop.block>>) = 1 /\ <<coreLoop.block>>[1] = coreLoop.block
          OBVIOUS
        <5> HIDE DEF n
        <5>2. Len(commitCh'[k]) = 1 /\ commitCh'[k][1] = coreLoop.block
          BY Zenon, <2>4, <3>1, <5>1
        <5>3. j = 1
          BY <5>2
        <5> QED
          BY Zenon, <5>2, <5>3
      <4> QED
        BY <2>2, <2>6, <4>1 DEF Good
    <3>2. CASE k # n
      <4>1. k \in 1 .. Len(commitCh) /\ commitCh'[k] = commitCh[k]
        BY <2>4, <3>2
      <4>2. Good(commitCh[k][j])
        BY <4>1 DEF SealingInd, GoodOnTheWay
      <4> QED
        BY <2>6, <4>1, <4>2 DEF Good
    <3> QED
      BY <3>1, <3>2
  <2>8. GoodOnTheWay'
    BY <2>1, <2>5, <2>6, <2>7 DEF SealingInd, GoodOnTheWay, Good
  <2>9. ChannelMade'
    BY <2>1, <2>2, <2>4 DEF SealingInd, ChannelMade
  <2> QED
    BY <2>5, <2>6, <2>8, <2>9 DEF SealingInd
<1>4. CASE ImportEnqueued
  <2>1. /\ UNCHANGED <<height, decided, commitCh, recv, requests, sealChan, coreLoop,
                       agent, proposed, seal>>
        /\ head' = head + 1
    BY <1>4 DEF ImportEnqueued, minerVars, agentVars, sealVars, backendVars
  <2>2. SealTypeOK' /\ ChannelMade'
    BY <2>1 DEF SealingInd, SealTypeOK, AgentOK, LoopOK, ChannelMade
  <2> QED
    BY <2>1, <2>2, SameWay DEF SealingInd
<1>5. CASE BlockArrives
  <2>1. PICK b \in Decisions(head + 1) : decided' = [decided EXCEPT ![head + 1] = b]
    BY <1>5, Zenon DEF BlockArrives
  <2>2. /\ UNCHANGED <<height, commitCh, recv, requests, sealChan, agent, proposed,
                       seal, coreLoop>>
        /\ head < MaxHeads /\ head' = head + 1
    BY <1>5 DEF BlockArrives, minerVars, agentVars, sealVars, backendVars
  <2>3. /\ decided' \in [SealHeights -> Works \cup {0, None}]
        /\ DecidedBuilt' /\ \A x : Good(x) => Good(x)'
    BY <2>1, <2>2, DecisionKept, Zenon
  <2>4. SealTypeOK' /\ ChannelMade'
    BY <2>2, <2>3 DEF SealingInd, SealTypeOK, AgentOK, LoopOK, ChannelMade
  <2>5. GoodOnTheWay'
    BY <2>2, <2>3 DEF SealingInd, GoodOnTheWay, Good
  <2> QED
    BY <2>3, <2>4, <2>5 DEF SealingInd
<1> QED
  BY <1>1, <1>2, <1>3, <1>4, <1>5

------------------------------------------------------------------------------
\* No step leads out of the invariant.
LEMMA SealingNextInd == SealingInd /\ [SealingNext]_sealingVars => SealingInd'
<1>1. ASSUME SealingInd, SealingNext PROVE SealingInd'
  BY <1>1, WorkerInd, EngineInd, SealStepInd, CoreInd DEF SealingNext
<1>2. ASSUME SealingInd, UNCHANGED sealingVars PROVE SealingInd'
  <2>1. UNCHANGED <<height, decided, commitCh, recv, head, requests, sealChan, coreLoop,
                    agent, proposed, seal>>
    BY <1>2 DEF sealingVars, minerVars, agentVars, sealVars, backendVars, ledgerVars
  <2>2. SealTypeOK' /\ ChannelMade'
    BY <1>2, <2>1 DEF SealingInd, SealTypeOK, AgentOK, LoopOK, ChannelMade
  <2> QED
    BY <1>2, <2>1, <2>2, SameWay DEF SealingInd
<1> QED
  BY <1>1, <1>2

\* Whatever Seals, works and runs of the engine there are, a block that Seal hands
\* to the worker is the one decided at its height (Seal of backend_engine.go and
\* Commit of backend_impl.go).
THEOREM SealedSafety == SealingSpec => []SealedIsDecided
<1>1. SealingInd => SealedIsDecided
  BY DEF SealingInd, GoodOnTheWay, Good, SealedIsDecided
<1> QED
  BY <1>1, SealingInitInd, SealingNextInd, PTL DEF SealingSpec

-----------------------------------------------------------------------------
(* Numbers.                                                                *)

\* A set of integers with a bound has a greatest element: the loop over a
\* queue stops at a definite priority.
LEMMA Greatest ==
  ASSUME NEW S, S \subseteq Int, S # {}, NEW bound \in Int, \A x \in S : x <= bound
  PROVE  \E x \in S : \A y \in S : y <= x
<1>. DEFINE T == {bound - x : x \in S}
<1>1. T \subseteq Nat /\ T # {}
  <2>1. \A x \in S : bound - x \in Nat
    <3>. TAKE x \in S
    <3>1. x \in Int /\ x <= bound
      OBVIOUS
    <3>. QED
      BY ONLY <3>1, bound \in Int
  <2>2. PICK x \in S : TRUE
    BY Zenon
  <2>3. bound - x \in T
    OBVIOUS
  <2>. QED
    BY <2>1, <2>3, Zenon
<1>2. PICK t \in T : \A y \in T : ~(<<y, t>> \in OpToRel(<, Nat))
  <2>. HIDE DEF T
  <2>. QED
    BY <1>1, WFMin, NatLessThanWellFounded, Zenon
<1>3. PICK x \in S : t = bound - x
  OBVIOUS
<1>4. \A y \in S : ~(bound - y < bound - x)
  <2>. TAKE y \in S
  <2>1. bound - y \in T /\ bound - y \in Nat /\ t \in Nat
    BY <1>1, <1>2
  <2>2. <<bound - y, t>> \notin {ss \in Nat \X Nat : ss[1] < ss[2]}
    BY ONLY <1>2, <2>1 DEF OpToRel
  <2>3. ~(bound - y < t)
    BY ONLY <2>1, <2>2
  <2>. QED
    BY <1>3, <2>3
<1>5. \A y \in S : y <= x
  <2>. TAKE y \in S
  <2>1. y \in Int /\ x \in Int
    BY Zenon
  <2>2. ~(bound - y < bound - x)
    BY <1>4, Zenon
  <2>. QED
    BY ONLY <2>1, <2>2, bound \in Int
<1>. QED
  BY <1>5, Zenon

\* The powers of two the spacing is chosen from.
LEMMA Powers ==
  /\ 2^0 = 1 /\ 2^1 = 2 /\ 2^2 = 4 /\ 2^3 = 8 /\ 2^4 = 16 /\ 2^5 = 32 /\ 2^6 = 64 /\ 2^7 = 128
  /\ 2^23 \in Nat /\ 2^24 \in Nat /\ 2^24 = 2 * 2^23
  /\ {2^k : k \in 0 .. 7} = {1, 2, 4, 8, 16, 32, 64, 128}
<1>1. /\ 2^0 = 1 /\ 2^1 = 2 /\ 2^2 = 4 /\ 2^3 = 8 /\ 2^4 = 16 /\ 2^5 = 32 /\ 2^6 = 64 /\ 2^7 = 128
  BY SMT
<1>2. 0 .. 7 = {0, 1, 2, 3, 4, 5, 6, 7}
  BY SMT
<1>3. {2^k : k \in 0 .. 7} = {1, 2, 4, 8, 16, 32, 64, 128}
  BY SMT, <1>1, <1>2
<1>4. 2^23 \in Nat /\ 2^24 \in Nat /\ 2^24 = 2 * 2^23
  BY SMT
<1>. QED
  BY <1>1, <1>3, <1>4

\* Up to 2^24 float32 holds every integer.
LEMMA Float32Exact ==
  ASSUME NEW v \in Nat, v < 2^24
  PROVE  Float32(v) = v
<1>. DEFINE E == {2^k : k \in 0 .. 7}
<1>1. 1 \in E /\ \A e \in E : e = 1 \/ (e \in Nat /\ e >= 2)
  BY Powers
<1>2. \A e \in Nat : e >= 2 => 2^23 * e >= 2^24 /\ 2^23 * e \in Nat
  BY SMT, Powers
<1>3. v < 2^24 * 1
  BY SMT, Powers
<1>4. Spacing(v) = 1
  <2>. HIDE DEF E
  <2>1. \A e \in E : e = 1 \/ ~(2^23 * e <= v)
    BY SMT, <1>1, <1>2, Powers
  <2>2. Spacing(v) = CHOOSE e \in E : v < 2^24 * e /\ (e = 1 \/ 2^23 * e <= v)
    BY DEF Spacing, E
  <2>. QED
    BY <1>1, <1>3, <2>1, <2>2
<1>5. v % 1 = 0 /\ v \div 1 = v
  BY SMT
<1>. QED
  BY SMT, <1>4, <1>5 DEF Float32

\* Further up it rounds, to a number.
LEMMA Float32Natural ==
  ASSUME NEW v \in Nat, v < 2^24 * 128
  PROVE  Float32(v) \in Nat
<1>. DEFINE E == {1, 2, 4, 8, 16, 32, 64, 128}
<1>1. Spacing(v) = CHOOSE e \in E : v < 2^24 * e /\ (e = 1 \/ 2^23 * e <= v)
  BY Powers DEF Spacing
<1>2. \E e \in E : v < 2^24 * e /\ (e = 1 \/ 2^23 * e <= v)
  BY SMT, Powers
<1>3. Spacing(v) \in Nat \ {0}
  BY <1>1, <1>2
<1>. DEFINE e == Spacing(v)
           low == v \div e
<1>4. low \in Nat
  <2>. HIDE DEF e
  <2>. QED
    BY SMT, <1>3 DEF e
<1>5. Float32(v) = e * low \/ Float32(v) = e * (low + 1)
  BY DEF Float32
<1>. QED
  <2>. HIDE DEF e, low
  <2>. QED
    BY SMT, <1>3, <1>4, <1>5 DEF e

-----------------------------------------------------------------------------
(* What one pass over a queue takes off it.                                *)

\* The loop pops entries that are not future only, and what it leaves is not
\* above some future entry.
LEMMA PopsRight ==
  ASSUME NEW queue, NEW future \in SUBSET queue, NEW prio \in [queue -> Int],
         \A m \in queue : prio[m] <= 0, NEW pop \in Pops(queue, future, prio)
  PROVE  /\ pop \subseteq queue \ future
         /\ \A m \in queue \ pop : \E f \in future : prio[m] <= prio[f]
<1>1. CASE future = {}
  BY <1>1 DEF Pops
<1>2. CASE future # {}
  <2>. DEFINE P == {prio[m] : m \in future}
              stop == CHOOSE p \in P : \A q \in P : q <= p
  <2>1. P \subseteq Int /\ P # {} /\ \A p \in P : p <= 0
    BY <1>2
  <2>2. \E p \in P : \A q \in P : q <= p
    <3>. HIDE DEF P
    <3>. QED
      BY <2>1, Greatest, 0 \in Int, Zenon
  <2>3. stop \in P /\ \A q \in P : q <= stop
    <3>. HIDE DEF P
    <3>. QED
      BY <2>2
  <2>4. \E tied \in SUBSET {m \in queue \ future : prio[m] = stop} :
          pop = {m \in queue : prio[m] > stop} \cup tied
    BY <1>2 DEF Pops
  <2>. HIDE DEF stop
  <2>5. stop \in Int /\ \A f \in future : prio[f] <= stop
    BY <2>1, <2>3
  <2>6. PICK f \in future : prio[f] = stop
    BY <2>3
  <2>7. pop \subseteq queue \ future
    BY <2>4, <2>5
  <2>8. \A m \in queue \ pop : prio[m] <= stop
    BY <2>4, <2>5
  <2>. QED
    BY <2>6, <2>7, <2>8
<1>. QED
  BY <1>1, <1>2

-----------------------------------------------------------------------------
(* Types.                                                                  *)

Core == [sequence : Heights, round : 0 .. MaxRound, waiting : BOOLEAN,
         state : {"AcceptRequest", "Preprepared", "Prepared", "Committed"}]

\* A queue holds messages of its sender, and the view stays within the bounds.
BacklogType ==
  /\ core \in Core /\ members \subseteq Sources
  /\ backlogs \in [Sources -> SUBSET Message]
  /\ posted \in [Senders -> SUBSET Message]
  /\ postponed \in [source : Senders, messages : SUBSET Message]
  /\ pendingRequests \subseteq Heights

\* The number a priority is made of.
Rank(m) ==
  m.sequence * 1000 + (IF m.code = "roundchange" THEN 0
                       ELSE m.round * 10 + msgPriority[m.code])

LastHeight == FirstSequence + Sequences - 1

\* The heights for which Float32 describes the conversion.
Covered == LastHeight * 1000 + MaxRound * 10 + 3 < 2^24 * 128

\* The heights and rounds for which the priorities order the messages: float32
\* holds every rank, and the rounds do not reach into the next height's ranks.
PrioritiesExact == LastHeight * 1000 + MaxRound * 10 + 3 < 2^24 /\ MaxRound < 100

\* What the bounds say of the parts of a message.
LEMMA MessageBounds ==
  ASSUME NEW m \in Message
  PROVE  /\ m.code \in Codes /\ m.sequence \in Nat /\ m.round \in Nat
         /\ m.sequence <= LastHeight /\ m.round <= MaxRound /\ LastHeight \in Nat
         /\ m.code = "preprepare" => msgPriority[m.code] = 1
         /\ m.code = "commit" => msgPriority[m.code] = 2
         /\ m.code = "prepare" => msgPriority[m.code] = 3
<1>1. m.code \in Codes /\ m.sequence \in Heights /\ m.round \in 0 .. MaxRound
  BY DEF Message
<1>2. /\ m.code = "preprepare" => msgPriority[m.code] = 1
      /\ m.code = "commit" => msgPriority[m.code] = 2
      /\ m.code = "prepare" => msgPriority[m.code] = 3
  BY DEF msgPriority
<1>. QED
  BY <1>1, <1>2, BacklogAssumption DEF Heights, LastHeight

\* A rank is a number within the bounds of Covered and PrioritiesExact.
LEMMA RankBounds ==
  ASSUME NEW m \in Message
  PROVE  Rank(m) \in Nat /\ Rank(m) <= LastHeight * 1000 + MaxRound * 10 + 3
<1>1. m.code # "roundchange" => msgPriority[m.code] \in 1 .. 3
  BY MessageBounds DEF Codes
<1>2. m.sequence * 1000 <= LastHeight * 1000 /\ m.round * 10 <= MaxRound * 10
  BY MessageBounds, BacklogAssumption
<1>. QED
  BY <1>1, <1>2, MessageBounds, BacklogAssumption DEF Rank

\* A priority is an integer that is not positive.
LEMMA PriorityType ==
  ASSUME Covered, NEW m \in Message
  PROVE  toPriority(m) \in Int /\ toPriority(m) <= 0
<1>1. Rank(m) \in Nat /\ Rank(m) < 2^24 * 128
  BY SMT, RankBounds, MessageBounds, Powers, BacklogAssumption DEF Covered
<1>2. Float32(Rank(m)) \in Nat
  BY <1>1, Float32Natural
<1>3. toPriority(m) = -Float32(Rank(m))
  BY DEF toPriority, Rank
<1>. QED
  BY <1>2, <1>3

\* The queue's order serves checkMessage: a message the core can handle in a
\* state ranks before every message that is of the future in that state.
LEMMA ReadyFirst ==
  ASSUME PrioritiesExact, NEW m \in Message, NEW f \in Message, NEW c \in Core,
         Accepts(m, c), Future(f, c)
  PROVE  toPriority(m) > toPriority(f)
<1>1. \A k \in Message : toPriority(k) = -Rank(k)
  <2>. TAKE k \in Message
  <2>1. Rank(k) \in Nat /\ Rank(k) < 2^24
    BY SMT, RankBounds, MessageBounds, Powers, BacklogAssumption DEF PrioritiesExact
  <2>. QED
    BY <2>1, Float32Exact DEF toPriority, Rank
<1>2. c.sequence \in Nat /\ c.round \in Nat
  BY BacklogAssumption DEF Core, Heights
<1>3. m.round * 10 <= 990
  BY MessageBounds, BacklogAssumption DEF PrioritiesExact
<1>4. Rank(m) < Rank(f)
  <2>1. CASE m.code = "roundchange"
    <3>1. m.sequence = c.sequence
      BY <1>2, <2>1, MessageBounds DEF Accepts, Future, Old, viewCmp
    <3>2. f.sequence > c.sequence \/ (f.sequence = c.sequence /\ f.code # "roundchange")
      BY <1>2, MessageBounds DEF Future, viewCmp
    <3>3. Rank(m) = c.sequence * 1000
      BY <1>2, <2>1, <3>1 DEF Rank
    <3>. QED
      BY <1>2, <3>2, <3>3, MessageBounds DEF Rank, Codes
  <2>2. CASE m.code # "roundchange"
    <3>1. m.sequence = c.sequence /\ m.round = c.round /\ ~c.waiting
      BY <1>2, <2>2, MessageBounds DEF Accepts, Future, Old, viewCmp
    <3>2. Rank(m) = c.sequence * 1000 + c.round * 10 + msgPriority[m.code]
      BY <1>2, <2>2, <3>1, MessageBounds DEF Rank, Codes
    <3>3. msgPriority[m.code] \in 1 .. 3
      BY <2>2, MessageBounds DEF Codes
    <3>4. CASE f.sequence > c.sequence
      <4>1. Rank(f) >= c.sequence * 1000 + 1000
        BY <1>2, <3>4, MessageBounds DEF Rank, Codes
      <4>. QED
        BY <1>2, <1>3, <3>1, <3>2, <3>3, <4>1, RankBounds
    <3>5. CASE f.sequence = c.sequence /\ f.code # "roundchange" /\ f.round > c.round
      <4>1. Rank(f) >= c.sequence * 1000 + c.round * 10 + 10
        BY <1>2, <3>5, MessageBounds DEF Rank, Codes
      <4>. QED
        BY <1>2, <3>2, <3>3, <4>1, RankBounds
    <3>6. CASE /\ f.sequence = c.sequence /\ f.code # "roundchange" /\ f.round = c.round
               /\ c.state = "AcceptRequest" /\ f.code # "preprepare"
      <4>1. m.code = "preprepare"
        BY <1>2, <2>2, <3>1, <3>6, MessageBounds DEF Accepts, Future, viewCmp
      <4>2. msgPriority[m.code] = 1 /\ msgPriority[f.code] \in 2 .. 3
        BY <3>6, <4>1, MessageBounds DEF Codes
      <4>3. Rank(f) = c.sequence * 1000 + c.round * 10 + msgPriority[f.code]
        BY <1>2, <3>6, MessageBounds DEF Rank, Codes
      <4>. QED
        BY <1>2, <3>2, <4>2, <4>3
    <3>7. \/ f.sequence > c.sequence
          \/ f.sequence = c.sequence /\ f.code # "roundchange" /\ f.round > c.round
          \/ /\ f.sequence = c.sequence /\ f.code # "roundchange" /\ f.round = c.round
             /\ c.state = "AcceptRequest" /\ f.code # "preprepare"
      BY <1>2, <3>1, MessageBounds DEF Future, viewCmp
    <3>. QED
      BY <3>4, <3>5, <3>6, <3>7
  <2>. QED
    BY <2>1, <2>2
<1>. QED
  BY <1>1, <1>4, RankBounds

-----------------------------------------------------------------------------
(* What processBacklog and processPendingRequests do.                      *)

\* processBacklog takes messages off the queues only to post them, to drop
\* them because they are old, or with their sender; what it leaves in the queue
\* of a fullnode cannot be handled in the state it is called for.
LEMMA BacklogProcessed ==
  ASSUME Covered, BacklogType, NEW c \in Core, NEW present \in SUBSET Sources, NEW handled,
         processBacklog(c, present, handled)
  PROVE  /\ \A s \in Sources : \A m \in backlogs[s] \ backlogs'[s] :
              m \in posted'[s] \/ Old(m, c) \/ s \notin present
         /\ PrioritiesExact => \A s \in present : \A m \in backlogs'[s] : ~Accepts(m, c)
<1>1. PICK pop \in [Sources -> SUBSET UNION {backlogs[s] : s \in Sources}] :
        /\ \A s \in Sources : pop[s] \in MessagePops(backlogs[s], c)
        /\ backlogs' = [s \in Sources |-> IF s \in present THEN backlogs[s] \ pop[s] ELSE {}]
        /\ posted' = [s \in Senders |->
                        (posted[s] \ handled[s]) \cup
                          (IF s \in present THEN {m \in pop[s] : Accepts(m, c)} ELSE {})]
  BY Zenon DEF processBacklog
<1>2. ASSUME NEW s \in Sources
      PROVE  /\ \A m \in pop[s] : ~Future(m, c)
             /\ \A m \in backlogs[s] \ pop[s] :
                  \E f \in backlogs[s] : Future(f, c) /\ toPriority(m) <= toPriority(f)
  <2>. DEFINE queue == backlogs[s]
              future == {m \in queue : Future(m, c)}
              prio == [m \in queue |-> toPriority(m)]
  <2>1. queue \subseteq Message
    BY DEF BacklogType
  <2>2. prio \in [queue -> Int] /\ \A m \in queue : prio[m] <= 0 /\ prio[m] = toPriority(m)
    BY <2>1, PriorityType
  <2>3. pop[s] \in Pops(queue, future, prio)
    BY <1>1 DEF MessagePops
  <2>4. future \in SUBSET queue
    OBVIOUS
  <2>5. /\ pop[s] \subseteq queue \ future
        /\ \A m \in queue \ pop[s] : \E f \in future : prio[m] <= prio[f]
    <3>. HIDE DEF queue, future, prio
    <3>1. \A m \in queue : prio[m] <= 0
      BY <2>2
    <3>. QED
      BY <2>2, <2>3, <2>4, <3>1, PopsRight
  <2>. QED
    BY <2>2, <2>5, Zenon
<1>3. ASSUME NEW s \in Sources, NEW m \in backlogs[s] \ backlogs'[s], s \in present
      PROVE  m \in posted'[s] \/ Old(m, c)
  <2>1. m \in pop[s]
    BY <1>1, <1>3
  <2>2. s \in Senders
    BY DEF Senders
  <2>3. Accepts(m, c) => m \in posted'[s]
    BY <1>1, <1>3, <2>1, <2>2
  <2>. QED
    BY <1>2, <2>1, <2>3 DEF Accepts
<1>4. ASSUME PrioritiesExact, NEW s \in present, NEW m \in backlogs'[s]
      PROVE  ~Accepts(m, c)
  <2>1. m \in backlogs[s] \ pop[s] /\ s \in Sources
    BY <1>1
  <2>2. PICK f \in backlogs[s] : Future(f, c) /\ toPriority(m) <= toPriority(f)
    BY <1>2, <2>1
  <2>3. m \in Message /\ f \in Message
    BY <2>1, <2>2 DEF BacklogType
  <2>4. /\ toPriority(m) \in Int /\ toPriority(f) \in Int
    BY <2>3, PriorityType
  <2>5. Accepts(m, c) => toPriority(m) > toPriority(f)
    BY Zenon, <1>4, <2>2, <2>3, ReadyFirst
  <2>. QED
    BY <2>2, <2>4, <2>5
<1>. QED
  BY <1>3, <1>4

\* processPendingRequests leaves the requests for later heights.
LEMMA RequestsProcessed ==
  ASSUME LastHeight < 2^24, BacklogType, NEW c \in Core, processPendingRequests(c)
  PROVE  \A h \in pendingRequests' : h > c.sequence
<1>. DEFINE future == {h \in pendingRequests : h > c.sequence}
            prio == [h \in pendingRequests |-> -Float32(h)]
<1>1. \A h \in pendingRequests : h \in Nat /\ h < 2^24
  BY SMT, BacklogAssumption, Powers DEF BacklogType, Heights, LastHeight
<1>2. \A h \in pendingRequests : prio[h] = -h
  BY <1>1, Float32Exact
<1>3. prio \in [pendingRequests -> Int] /\ \A h \in pendingRequests : prio[h] <= 0
  BY <1>1, Float32Exact
<1>4. PICK pop \in Pops(pendingRequests, future, prio) : pendingRequests' = pendingRequests \ pop
  BY Zenon DEF processPendingRequests
<1>5. future \in SUBSET pendingRequests
  OBVIOUS
<1>6. \A h \in pendingRequests \ pop : \E f \in future : prio[h] <= prio[f]
  <2>. HIDE DEF future, prio
  <2>. QED
    BY <1>3, <1>4, <1>5, PopsRight
<1>7. c.sequence \in Nat
  BY BacklogAssumption DEF Core, Heights
<1>8. ASSUME NEW h \in pendingRequests'
      PROVE  h > c.sequence
  <2>1. h \in pendingRequests \ pop
    BY <1>4
  <2>2. PICK f \in future : prio[h] <= prio[f]
    BY <1>6, <2>1
  <2>3. -h <= -f /\ f > c.sequence /\ h \in Nat /\ f \in Nat
    BY <1>1, <1>2, <2>1, <2>2
  <2>. QED
    BY <1>7, <2>3
<1>. QED
  BY <1>8

-----------------------------------------------------------------------------
(* The steps, as far as the queues can tell them apart.                    *)

\* catchUpRound and a failed commit leave the height and wait in a later round.
CaughtUp(c, d) == d.sequence = c.sequence /\ d.round > c.round /\ d.waiting

\* A step runs processBacklog, for the new state or one it catches up from;
\* or leaves the queues alone; or stores one message of the future.
QueueStep ==
  \/ \E c \in Core : \E handled :
       processBacklog(c, members', handled) /\ (core' = c \/ CaughtUp(c, core'))
  \/ /\ UNCHANGED <<backlogs, members>>
     /\ core' = core \/ CaughtUp(core, core')
  \/ /\ \E s \in Sources, m \in Message :
          Future(m, core) /\ backlogs' = [backlogs EXCEPT ![s] = @ \cup {m}]
     /\ UNCHANGED <<core, members>>

\* A step that moves to another height runs processPendingRequests there; any
\* other adds only requests for later heights.
RequestStep ==
  \/ processPendingRequests(core')
  \/ core'.sequence = core.sequence /\ \A h \in pendingRequests' \ pendingRequests : h > core.sequence

StepGood == BacklogType' /\ QueueStep /\ RequestStep

\* processBacklog keeps the types.
LEMMA ProcessType ==
  ASSUME BacklogType, NEW c, NEW present \in SUBSET Sources, NEW handled,
         processBacklog(c, present, handled)
  PROVE  backlogs' \in [Sources -> SUBSET Message] /\ posted' \in [Senders -> SUBSET Message]
<1>1. PICK pop \in [Sources -> SUBSET UNION {backlogs[s] : s \in Sources}] :
        /\ backlogs' = [s \in Sources |-> IF s \in present THEN backlogs[s] \ pop[s] ELSE {}]
        /\ posted' = [s \in Senders |->
                        (posted[s] \ handled[s]) \cup
                          (IF s \in present THEN {m \in pop[s] : Accepts(m, c)} ELSE {})]
        /\ \A s \in Sources : pop[s] \in MessagePops(backlogs[s], c)
  BY Zenon DEF processBacklog
<1>2. \A s \in Sources : pop[s] \subseteq Message
  BY DEF BacklogType
<1>3. backlogs' \in [Sources -> SUBSET Message]
  BY <1>1 DEF BacklogType
<1>4. \A s \in Senders : (IF s \in present THEN {m \in pop[s] : Accepts(m, c)} ELSE {}) \subseteq Message
  BY <1>2
<1>5. posted' \in [Senders -> SUBSET Message]
  BY <1>1, <1>4 DEF BacklogType
<1>. QED
  BY <1>3, <1>5

\* setState.
LEMMA SetStateGood ==
  ASSUME BacklogType, NEW c \in Core, NEW present \in SUBSET Sources, NEW handled,
         SetState(c, present, handled), c.sequence = core.sequence \/ c.state = "AcceptRequest",
         postponed' \in [source : Senders, messages : SUBSET Message]
  PROVE  StepGood
<1>1. core' = c /\ members' = present /\ processBacklog(c, present, handled)
  BY DEF SetState
<1>2. pendingRequests' \subseteq pendingRequests
  BY Zenon DEF SetState, processPendingRequests
<1>3. BacklogType'
  BY <1>1, <1>2, ProcessType DEF BacklogType
<1>4. QueueStep
  BY Zenon, <1>1 DEF QueueStep
<1>5. RequestStep
  <2>1. CASE c.state = "AcceptRequest"
    BY <1>1, <2>1 DEF SetState, RequestStep
  <2>2. CASE c.sequence = core.sequence
    BY <1>1, <1>2, <2>2 DEF RequestStep
  <2>. QED
    BY <2>1, <2>2
<1>. QED
  BY <1>3, <1>4, <1>5 DEF StepGood

\* catchUpRound.
LEMMA CatchUpGood ==
  ASSUME BacklogType, NEW r \in 0 .. MaxRound, NEW handled, CatchUpRound(r, handled)
  PROVE  StepGood
<1>1. /\ core' = [core EXCEPT !.round = r, !.waiting = TRUE] /\ r > core.round
      /\ posted' = Without(handled) /\ postponed' = NotPostponed
      /\ UNCHANGED <<members, backlogs, pendingRequests>>
  BY DEF CatchUpRound
<1>2. core' \in Core /\ CaughtUp(core, core') /\ core'.sequence = core.sequence
  BY <1>1, Zenon DEF BacklogType, Core, CaughtUp
<1>3. posted' \in [Senders -> SUBSET Message]
  BY <1>1 DEF BacklogType, Without
<1>4. postponed' \in [source : Senders, messages : SUBSET Message]
  BY <1>1 DEF NotPostponed, Senders
<1>5. BacklogType'
  BY <1>1, <1>2, <1>3, <1>4 DEF BacklogType
<1>6. QueueStep
  BY <1>1, <1>2 DEF QueueStep
<1>7. RequestStep
  BY <1>1, <1>2 DEF RequestStep
<1>. QED
  BY <1>5, <1>6, <1>7 DEF StepGood

\* commit, when the backend refuses the block: processBacklog runs for the
\* state in which the core is not any more when the step is over.
LEMMA CommitFailsGood ==
  ASSUME BacklogType, NEW handled, CommitFails(handled)
  PROVE  StepGood
<1>. DEFINE c == [core EXCEPT !.state = "Committed"]
<1>1. /\ core' = [core EXCEPT !.state = "Committed", !.round = @ + 1, !.waiting = TRUE]
      /\ processBacklog(c, members', handled) /\ postponed' = NotPostponed
      /\ core.round < MaxRound /\ UNCHANGED <<members, pendingRequests>>
  BY DEF CommitFails
<1>2. c \in Core
  BY DEF BacklogType, Core
<1>3. core' \in Core /\ CaughtUp(c, core') /\ core'.sequence = core.sequence
  <2>1. core.round + 1 \in 0 .. MaxRound /\ core.round + 1 > core.round
    BY <1>1, BacklogAssumption DEF BacklogType, Core
  <2>2. core' \in Core
    BY <1>1, <2>1, Zenon DEF BacklogType, Core
  <2>3. /\ core'.sequence = core.sequence /\ core'.round = core.round + 1 /\ core'.waiting
        /\ c.sequence = core.sequence /\ c.round = core.round
    BY <1>1 DEF BacklogType, Core
  <2>. QED
    BY <2>1, <2>2, <2>3 DEF CaughtUp
<1>4. postponed' \in [source : Senders, messages : SUBSET Message]
  BY <1>1 DEF NotPostponed, Senders
<1>. HIDE DEF c
<1>5. members' \in SUBSET Sources
  BY <1>1 DEF BacklogType
<1>6. BacklogType'
  BY <1>1, <1>3, <1>4, <1>5, ProcessType DEF BacklogType
<1>7. QueueStep
  BY Zenon, <1>1, <1>2, <1>3 DEF QueueStep
<1>8. RequestStep
  BY <1>1, <1>3 DEF RequestStep
<1>. QED
  BY <1>6, <1>7, <1>8 DEF StepGood

\* What handling a message does to the core.
LEMMA StepOnGood ==
  ASSUME BacklogType, NEW code, NEW handled, StepOn(code, handled)
  PROVE  StepGood
<1>1. core.round \in 0 .. MaxRound /\ core \in Core /\ members \in SUBSET Sources
  BY DEF BacklogType, Core
<1>2. NotPostponed \in [source : Senders, messages : SUBSET Message]
  BY DEF NotPostponed, Senders
<1>3. ASSUME NEW state \in {"Preprepared", "Prepared", "Committed"}, EnterState(state, handled)
      PROVE  StepGood
  <2>. DEFINE c == [core EXCEPT !.state = state]
  <2>1. c \in Core /\ c.sequence = core.sequence
    BY <1>1 DEF Core
  <2>2. SetState(c, members, handled) /\ UNCHANGED postponed
    BY <1>3 DEF EnterState
  <2>3. postponed' \in [source : Senders, messages : SUBSET Message]
    BY <2>2 DEF BacklogType
  <2>. HIDE DEF c
  <2>. QED
    BY <1>1, <2>1, <2>2, <2>3, SetStateGood
<1>4. ASSUME NEW r \in 0 .. MaxRound, StartNewRound(r, handled)
      PROVE  StepGood
  <2>. DEFINE c == [core EXCEPT !.round = r, !.state = "AcceptRequest", !.waiting = FALSE]
  <2>1. c \in Core /\ c.sequence = core.sequence
    BY <1>1, Zenon DEF Core
  <2>2. SetState(c, members, handled) /\ postponed' = NotPostponed
    BY <1>4 DEF StartNewRound
  <2>. HIDE DEF c
  <2>. QED
    BY <1>1, <1>2, <2>1, <2>2, SetStateGood
<1>5. ASSUME StartNewSequence(handled)
      PROVE  StepGood
  <2>1. PICK h \in Heights, present \in SUBSET Sources :
          /\ SetState([sequence |-> h, round |-> 0, state |-> "AcceptRequest",
                       waiting |-> FALSE], present, handled)
          /\ postponed' = NotPostponed
    BY Zenon, <1>5 DEF StartNewSequence
  <2>. DEFINE c == [sequence |-> h, round |-> 0, state |-> "AcceptRequest", waiting |-> FALSE]
  <2>2. c \in Core /\ c.state = "AcceptRequest"
    BY BacklogAssumption DEF Core
  <2>3. SetState(c, present, handled)
    BY <2>1
  <2>. HIDE DEF c
  <2>. QED
    BY <1>2, <2>1, <2>2, <2>3, SetStateGood
<1>6. core.round < MaxRound => core.round + 1 \in 0 .. MaxRound
  BY <1>1, BacklogAssumption
<1>7. \/ \E state \in {"Preprepared", "Prepared", "Committed"} : EnterState(state, handled)
      \/ \E r \in 0 .. MaxRound : CatchUpRound(r, handled) \/ StartNewRound(r, handled)
      \/ CommitFails(handled) \/ StartNewSequence(handled)
  BY <1>6 DEF StepOn
<1>. QED
  BY <1>3, <1>4, <1>5, <1>7, CatchUpGood, CommitFailsGood

\* A message that is handled.
LEMMA HandleCheckedGood ==
  ASSUME BacklogType, NEW s \in Senders, NEW m \in Message, NEW handled,
         handleCheckedMsg(s, m, handled)
  PROVE  StepGood
<1>1. Without(handled) \in [Senders -> SUBSET Message]
  BY DEF BacklogType, Without
<1>2. CASE Stay(handled)
  BY <1>1, <1>2 DEF Stay, StepGood, BacklogType, QueueStep, RequestStep
<1>3. CASE Postpone(s, m, handled)
  BY <1>1, <1>3 DEF Postpone, StepGood, BacklogType, QueueStep, RequestStep
<1>4. CASE Future(m, core) /\ storeBacklog(s, m, handled)
  <2>1. UNCHANGED <<core, members, postponed, pendingRequests>> /\ posted' = Without(handled)
    BY <1>4 DEF storeBacklog
  <2>2. CASE s = Self
    BY <1>1, <1>4, <2>1, <2>2 DEF storeBacklog, StepGood, BacklogType, QueueStep, RequestStep
  <2>3. CASE s # Self
    <3>1. s \in Sources /\ backlogs' = [backlogs EXCEPT ![s] = @ \cup {m}]
      BY <1>4, <2>3 DEF storeBacklog, Senders
    <3>2. backlogs' \in [Sources -> SUBSET Message]
      BY <3>1 DEF BacklogType
    <3>3. BacklogType'
      BY <1>1, <2>1, <3>2 DEF BacklogType
    <3>4. QueueStep
      BY Zenon, <1>4, <2>1, <3>1 DEF QueueStep
    <3>5. RequestStep
      BY <2>1 DEF RequestStep
    <3>. QED
      BY <3>3, <3>4, <3>5 DEF StepGood
  <2>. QED
    BY <2>2, <2>3
<1>5. CASE StepOn(m.code, handled)
  BY <1>5, StepOnGood
<1>. QED
  BY Zenon, <1>2, <1>3, <1>4, <1>5 DEF handleCheckedMsg

\* Every step.
LEMMA NextGood ==
  ASSUME BacklogType, Next
  PROVE  StepGood
<1>1. ASSUME NEW s \in Senders, NEW m \in Message, HandleMsg(s, m)
      PROVE  StepGood
  <2>1. CASE Stay(NoneHandled)
    <3>1. Without(NoneHandled) \in [Senders -> SUBSET Message]
      BY DEF BacklogType, Without
    <3>. QED
      BY <2>1, <3>1 DEF Stay, StepGood, BacklogType, QueueStep, RequestStep
  <2>2. CASE handleCheckedMsg(s, m, NoneHandled)
    BY <2>2, HandleCheckedGood
  <2>. QED
    BY <1>1, <2>1, <2>2 DEF HandleMsg
<1>2. ASSUME NEW s \in Senders, NEW m \in posted[s], HandleBacklogEvent(s, m)
      PROVE  StepGood
  <2>1. m \in Message
    BY DEF BacklogType
  <2>2. PICK handled : handleCheckedMsg(s, m, handled)
    BY Zenon, <1>2 DEF HandleBacklogEvent
  <2>. QED
    BY <2>1, <2>2, HandleCheckedGood
<1>3. CASE FirePostponed
  <2>1. posted' \in [Senders -> SUBSET Message]
    BY <1>3 DEF FirePostponed, BacklogType
  <2>2. postponed' \in [source : Senders, messages : SUBSET Message]
    BY <1>3 DEF FirePostponed, NotPostponed, Senders
  <2>. QED
    BY <1>3, <2>1, <2>2 DEF FirePostponed, StepGood, BacklogType, QueueStep, RequestStep
<1>4. CASE HandleOther
  <2>1. CASE \E code \in Codes : StepOn(code, NoneHandled)
    BY <2>1, StepOnGood
  <2>2. CASE core.round < MaxRound /\ CatchUpRound(core.round + 1, NoneHandled)
    <3>1. core.round + 1 \in 0 .. MaxRound
      BY <2>2, BacklogAssumption DEF BacklogType, Core
    <3>. QED
      BY <2>2, <3>1, CatchUpGood
  <2>. QED
    BY <1>4, <2>1, <2>2 DEF HandleOther
<1>5. ASSUME NEW h \in Heights, HandleRequest(h)
      PROVE  StepGood
  BY <1>5 DEF HandleRequest, StepGood, BacklogType, QueueStep, RequestStep
<1>. QED
  BY Zenon, <1>1, <1>2, <1>3, <1>4, <1>5 DEF Next

-----------------------------------------------------------------------------
(* The theorems.                                                           *)

LEMMA BacklogInit == Init => BacklogType
<1>. SUFFICES ASSUME Init PROVE BacklogType
  OBVIOUS
<1>1. core \in Core
  BY BacklogAssumption DEF Init, Core, Heights
<1>. QED
  BY <1>1 DEF Init, BacklogType, NotPostponed, Senders

LEMMA BacklogStep == BacklogType /\ [Next]_vars => BacklogType'
<1>1. ASSUME BacklogType, UNCHANGED vars
      PROVE  BacklogType'
  BY <1>1 DEF BacklogType, vars
<1>. QED
  BY Zenon, <1>1, NextGood DEF StepGood

\* A core that waits in a later round can handle no message that it could not
\* handle before, and what was old is old.
LEMMA CaughtUpKeeps ==
  ASSUME NEW c \in Core, NEW d \in Core, CaughtUp(c, d), NEW m \in Message
  PROVE  /\ Old(m, c) => Old(m, d)
         /\ ~Accepts(m, c) => ~Accepts(m, d)
<1>1. /\ c.sequence \in Nat /\ c.round \in Nat /\ d.sequence \in Nat /\ d.round \in Nat
      /\ m.sequence \in Nat /\ m.round \in Nat
  BY MessageBounds, BacklogAssumption DEF Core, Heights
<1>2. Old(m, c) => Old(m, d)
  BY <1>1 DEF CaughtUp, Old, viewCmp
<1>3. Future(m, c) => Future(m, d) \/ Old(m, d)
  BY <1>1 DEF CaughtUp, Old, Future, viewCmp
<1>. QED
  BY <1>2, <1>3 DEF Accepts

\* What exceeds float32's integers exceeds what the model covers.
LEMMA ExactIsCovered == PrioritiesExact => Covered
<1>1. LastHeight * 1000 + MaxRound * 10 + 3 \in Nat
  BY BacklogAssumption DEF LastHeight
<1>2. \A v \in Nat : v < 2^24 => v < 2^24 * 128
  BY SMT, Powers
<1>. QED
  BY <1>1, <1>2 DEF PrioritiesExact, Covered

\* A message the core can handle does not stay in a queue.
LEMMA ReadyStep ==
  ASSUME PrioritiesExact, BacklogType, NoReadyMessageHeld, [Next]_vars
  PROVE  NoReadyMessageHeld'
<1>1. CASE UNCHANGED vars
  BY <1>1 DEF vars, NoReadyMessageHeld
<1>2. CASE Next
  <2>1. BacklogType' /\ QueueStep
    BY <1>2, NextGood DEF StepGood
  <2>2. core \in Core /\ core' \in Core /\ members \in SUBSET Sources /\ members' \in SUBSET Sources
    BY <2>1 DEF BacklogType
  <2>3. \A s \in members' : \A m \in backlogs'[s] : m \in Message
    BY <2>1, <2>2 DEF BacklogType
  <2>4. ASSUME NEW c \in Core, NEW handled, processBacklog(c, members', handled),
               core' = c \/ CaughtUp(c, core')
        PROVE  NoReadyMessageHeld'
    <3>1. \A s \in members' : \A m \in backlogs'[s] : ~Accepts(m, c)
      BY <2>2, <2>4, BacklogProcessed, ExactIsCovered, Zenon
    <3>2. ASSUME NEW s \in members', NEW m \in backlogs'[s]
          PROVE  ~Accepts(m, core')
      <4>1. CASE core' = c
        BY <3>1, <4>1
      <4>2. CASE CaughtUp(c, core')
        BY <2>2, <2>3, <3>1, <4>2, CaughtUpKeeps
      <4>. QED
        BY <2>4, <4>1, <4>2
    <3>. QED
      BY <3>2 DEF NoReadyMessageHeld
  <2>5. CASE UNCHANGED <<backlogs, members>> /\ (core' = core \/ CaughtUp(core, core'))
    <3>1. ASSUME NEW s \in members', NEW m \in backlogs'[s]
          PROVE  ~Accepts(m, core')
      <4>1. ~Accepts(m, core)
        BY <2>5 DEF NoReadyMessageHeld
      <4>2. CASE CaughtUp(core, core')
        BY <2>2, <2>3, <4>1, <4>2, CaughtUpKeeps
      <4>. QED
        BY <2>5, <4>1, <4>2
    <3>. QED
      BY <3>1 DEF NoReadyMessageHeld
  <2>6. ASSUME NEW s \in Sources, NEW m \in Message, Future(m, core),
               backlogs' = [backlogs EXCEPT ![s] = @ \cup {m}], UNCHANGED <<core, members>>
        PROVE  NoReadyMessageHeld'
    <3>1. \A k \in members : \A x \in backlogs'[k] : x \in backlogs[k] \/ x = m
      BY <2>2, <2>6 DEF BacklogType
    <3>2. ~Accepts(m, core)
      BY <2>6 DEF Accepts
    <3>3. \A k \in members : \A x \in backlogs'[k] : ~Accepts(x, core)
      BY Zenon, <3>1, <3>2 DEF NoReadyMessageHeld
    <3>. QED
      BY <2>6, <3>3 DEF NoReadyMessageHeld
  <2>. QED
    BY Zenon, <2>1, <2>4, <2>5, <2>6 DEF QueueStep
<1>. QED
  BY <1>1, <1>2

\* As long as float32 holds every rank and the rounds stay below 100, no message
\* that the core could handle is ever left in the queue of a fullnode, whatever
\* arrives, changes the view or fails: setState always posts it.
THEOREM MessagesReady ==
  ASSUME PrioritiesExact
  PROVE  Spec => []NoReadyMessageHeld
<1>1. Init => NoReadyMessageHeld
  BY DEF Init, NoReadyMessageHeld
<1>2. BacklogType /\ NoReadyMessageHeld /\ [Next]_vars => NoReadyMessageHeld'
  BY ReadyStep
<1>. QED
  BY <1>1, <1>2, BacklogInit, BacklogStep, PTL DEF Spec

\* A request for the current height is always posted, as long as float32 holds
\* the heights.
THEOREM RequestsReady ==
  ASSUME LastHeight < 2^24
  PROVE  Spec => []NoReadyRequestHeld
<1>1. Init => NoReadyRequestHeld
  BY DEF Init, NoReadyRequestHeld
<1>2. ASSUME BacklogType, NoReadyRequestHeld, [Next]_vars
      PROVE  NoReadyRequestHeld'
  <2>1. CASE UNCHANGED vars
    BY <1>2, <2>1 DEF vars, NoReadyRequestHeld
  <2>2. CASE Next
    <3>1. BacklogType' /\ RequestStep
      BY <1>2, <2>2, NextGood DEF StepGood
    <3>2. core' \in Core
      BY <3>1 DEF BacklogType
    <3>3. CASE processPendingRequests(core')
      BY <1>2, <3>2, <3>3, RequestsProcessed DEF NoReadyRequestHeld
    <3>4. CASE /\ core'.sequence = core.sequence
               /\ \A h \in pendingRequests' \ pendingRequests : h > core.sequence
      BY <1>2, <3>4 DEF NoReadyRequestHeld
    <3>. QED
      BY <3>1, <3>3, <3>4 DEF RequestStep
  <2>. QED
    BY <1>2, <2>1, <2>2
<1>. QED
  BY <1>1, <1>2, BacklogInit, BacklogStep, PTL DEF Spec

\* A message leaves a queue only to be posted, because the view has moved past
\* it, or with its sender: ties between priorities hold messages back, but
\* lose none.
THEOREM NothingDropped ==
  ASSUME Covered
  PROVE  Spec => BacklogLosesNothing
<1>. DEFINE Kept == \A s \in Sources : \A m \in backlogs[s] \ backlogs'[s] :
                      m \in posted'[s] \/ Old(m, core') \/ s \notin members'
<1>1. ASSUME BacklogType, [Next]_vars
      PROVE  [Kept]_vars
  <2>1. CASE UNCHANGED vars
    BY <2>1
  <2>2. CASE Next
    <3>1. BacklogType' /\ QueueStep
      BY <1>1, <2>2, NextGood DEF StepGood
    <3>2. core' \in Core /\ members' \in SUBSET Sources
      BY <3>1 DEF BacklogType
    <3>3. ASSUME NEW c \in Core, NEW handled, processBacklog(c, members', handled),
                 core' = c \/ CaughtUp(c, core')
          PROVE  Kept
      <4>1. ASSUME NEW s \in Sources, NEW m \in backlogs[s] \ backlogs'[s]
            PROVE  m \in posted'[s] \/ Old(m, core') \/ s \notin members'
        <5>1. m \in posted'[s] \/ Old(m, c) \/ s \notin members'
          BY <1>1, <3>2, <3>3, BacklogProcessed, Zenon
        <5>2. m \in Message
          BY <1>1 DEF BacklogType
        <5>3. Old(m, c) => Old(m, core')
          BY <3>2, <3>3, <5>2, CaughtUpKeeps, Zenon
        <5>. QED
          BY <5>1, <5>3
      <4>. QED
        BY <4>1
    <3>4. ASSUME UNCHANGED backlogs
          PROVE  Kept
      BY <3>4
    <3>5. ASSUME NEW s \in Sources, NEW m \in Message, backlogs' = [backlogs EXCEPT ![s] = @ \cup {m}]
          PROVE  Kept
      BY <1>1, <3>5, Zenon DEF BacklogType
    <3>. HIDE DEF Kept
    <3>6. Kept
      BY Zenon, <3>1, <3>3, <3>4, <3>5 DEF QueueStep
    <3>. QED
      BY <3>6
  <2>. QED
    BY <1>1, <2>1, <2>2
<1>. QED
  BY <1>1, BacklogInit, BacklogStep, PTL DEF Spec, BacklogLosesNothing
=============================================================================
