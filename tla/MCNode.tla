------------------------------- MODULE MCNode -------------------------------
(***************************************************************************)
(* What a node does with what comes in: early messages of the core, the    *)
(* transaction pool, the fetcher, and the freezer that moves old blocks    *)
(* away.  A behaviour runs one of them, chosen at the start, so the state  *)
(* spaces add up.                                                          *)
(***************************************************************************)
EXTENDS CoreBacklog, TxPool, Fetcher, Freezer

VARIABLE part

Tx(a, n, p) == [from |-> a, nonce |-> n, price |-> p]
SomeTxs == {Tx("a", 0, 1), Tx("a", 1, 1), Tx("a", 1, 2), Tx("a", 2, 1), Tx("b", 0, 1)}
SomeHeads == {{}, {Tx("a", 0, 1), Tx("a", 1, 2)}}

\* Block "g" is empty.
Number(h) == IF h = "g" THEN 1 ELSE 2
IsEmpty(h) == h = "g"

TableOrder == <<"hashes", "bodies">>
SizeOf(t) == IF t = "hashes" THEN 1 ELSE 2

NodeInit ==
  /\ part \in {"backlog", "pool", "fetcher", "freezer"}
  /\ Init /\ TxPoolInit /\ FetcherInit /\ FreezerInit

NodeNext ==
  /\ UNCHANGED part
  /\ \/ /\ part = "backlog" /\ Next
        /\ UNCHANGED <<poolVars, fetcherVars, freezerVars>>
     \/ /\ part = "pool" /\ TxPoolNext
        /\ UNCHANGED <<vars, fetcherVars, freezerVars>>
     \/ /\ part = "fetcher" /\ FetcherNext
        /\ UNCHANGED <<vars, poolVars, freezerVars>>
     \/ /\ part = "freezer" /\ FreezerNext
        /\ UNCHANGED <<vars, poolVars, fetcherVars>>

NodeSpec ==
  NodeInit
  /\ [][NodeNext]_<<part, vars, poolVars, fetcherVars, freezerVars>>

\* The other parts stay as they are.
NodeView ==
  <<part, CASE part = "backlog" -> vars
            [] part = "pool" -> poolVars
            [] part = "fetcher" -> fetcherVars
            [] part = "freezer" -> freezerVars>>
=============================================================================
