------------------------------- MODULE MCSync -------------------------------
(***************************************************************************)
(* How nodes come to one chain: two cores, and the queue that downloads    *)
(* what a node has missed, each in two instances.  The cores go through    *)
(* several rounds of one height, with two payloads, or through two heights *)
(* of one round, with one payload.  The queue serves full syncs with two   *)
(* peers, or full and fast syncs in turn with one.  A behaviour runs one   *)
(* of the four, chosen at the start, so the state spaces add up.           *)
(***************************************************************************)
EXTENDS MCSportCore, DownloadQueue

CONSTANT SecondPeer   \* takes part where every sync is full

VARIABLE part

\* The payloads requested or sent so far.
UsedPayloads ==
  {b.payload : b \in ({m.digest : m \in msgs} \cup {pendingRequest[n] : n \in Cores}) \ {NoBlock}}

\* Where there is one payload, contending blocks still differ in their authors.
WithinRounds == \A n \in Cores : sequence[n] = 1 /\ Len(chain[n]) <= 1
WithinHeights ==
  /\ \A n \in Cores : round[n] = 0
  /\ Cardinality(UsedPayloads) <= 1

\* Block 1 has no receipts, block 2 no body.
NothingOf(k, h) == <<k, h>> \in {<<"receipt", 1>>, <<"body", 2>>}

WithinPeers == dq.mode = "full"
WithinModes == SecondPeer \notin syncing.peers

SyncInit ==
  /\ part \in {"rounds", "heights", "peers", "modes"}
  /\ Init /\ DownloadInit
  /\ CASE part = "peers" -> WithinPeers
       [] part = "modes" -> WithinModes
       [] OTHER -> dq.mode = "full" /\ syncing.peers = {}

SyncNext ==
  /\ UNCHANGED part
  /\ \/ part = "rounds" /\ Next /\ WithinRounds' /\ UNCHANGED downloadVars
     \/ part = "heights" /\ Next /\ WithinHeights' /\ UNCHANGED downloadVars
     \/ part = "peers" /\ DownloadNext /\ WithinPeers' /\ UNCHANGED vars
     \/ part = "modes" /\ DownloadNext /\ WithinModes' /\ UNCHANGED vars

SyncSpec == SyncInit /\ [][SyncNext]_<<part, vars, downloadVars>>

\* The other parts stay as they are.
SyncView == <<part, IF part \in {"peers", "modes"} THEN downloadVars ELSE LiveView>>
=============================================================================
