------------------------------- MODULE Ledger -------------------------------
(***************************************************************************)
(* What consensus promises the rest of the program: every node writes the  *)
(* same blocks in the same order, and never takes a block back.  A node    *)
(* decides the next block when no other node has one at that height, and   *)
(* otherwise writes the block the others have.                             *)
(***************************************************************************)
EXTENDS Naturals, Sequences

CONSTANTS Nodes, Blocks

VARIABLE chain

Init == chain = [n \in Nodes |-> <<>>]

\* b may follow the chain of n: whoever has a block at that height has b.
Agreed(n, b) ==
  LET h == Len(chain[n]) + 1
  IN  \A k \in Nodes : Len(chain[k]) >= h => chain[k][h] = b

Write(n, b) ==
  /\ Agreed(n, b)
  /\ chain' = [chain EXCEPT ![n] = Append(@, b)]

Next == \E n \in Nodes, b \in Blocks : Write(n, b)

Spec == Init /\ [][Next]_chain
=============================================================================
