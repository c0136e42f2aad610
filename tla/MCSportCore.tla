----------------------------- MODULE MCSportCore -----------------------------
(***************************************************************************)
(* SportCore for TLC.  LiveView leaves out the data nothing reads again:   *)
(* the PREPAREs of a core that is Prepared, the COMMITs of one that is     *)
(* Committed, and the ROUND CHANGEs for the round a core already runs (all *)
(* three are dropped when the round changes).  States that agree on        *)
(* LiveView have the same future, and the invariants do not look at what   *)
(* it leaves out.                                                          *)
(***************************************************************************)
EXTENDS SportCore, TLC

LivePrepares ==
  [n \in Cores |-> IF state[n] = "Preprepared" THEN prepares[n] ELSE {}]
LiveCommits ==
  [n \in Cores |-> IF state[n] = "Committed" THEN {} ELSE commits[n]]
LiveRoundChanges ==
  [n \in Cores |-> {p \in roundChanges[n] :
                      p[1] > round[n] \/ waitingForRoundChange[n]}]

\* The contents of valid blocks are interchangeable.
PayloadSymmetry == Permutations(Payloads)

LiveView ==
  <<state, sequence, round, preprepare, LivePrepares, LiveCommits, lockedHash,
    pendingRequest, LiveRoundChanges, waitingForRoundChange, speaker,
    chainVars, msgs>>
=============================================================================
