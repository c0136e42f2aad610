----------------------------- MODULE MCSportOpen -----------------------------
(***************************************************************************)
(* One core among fullnodes that may send anything, within two bounds at   *)
(* once: three rounds with valid blocks, and two rounds in which the       *)
(* fullnodes also propose and seal a block that does not execute, all of   *)
(* the core's own.                                                         *)
(***************************************************************************)
EXTENDS MCSportCore

Proposals(n) == {preprepare[n], pendingRequest[n]} \ {NoBlock}

Sent(n) == {m.digest : m \in {x \in msgs : x.src = n}} \ {NoBlock}

OnlyValid(n) ==
  badBlocks[n] = {} /\ \A b \in Proposals(n) \cup Sent(n) : Valid(b)
TwoRounds(n) ==
  /\ round[n] <= 1 /\ \A p \in roundChanges[n] : p[1] <= 1
  /\ \A b \in Proposals(n) \cup badBlocks[n] : b.author = n

Explored == \A n \in Cores : OnlyValid(n) \/ TwoRounds(n)
=============================================================================
