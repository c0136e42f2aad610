------------------------------- MODULE MCLive -------------------------------
(***************************************************************************)
(* The components with liveness properties: two cores that end a height,   *)
(* and the goroutines that mine and seal.  A behaviour runs one of them,   *)
(* chosen at the start, so the state spaces add up.                        *)
(***************************************************************************)
EXTENDS SportLive, Sealing

VARIABLE part

LiveInit == part \in {"core", "sealing"} /\ Init /\ SealingInit

LiveNext ==
  /\ UNCHANGED part
  /\ \/ part = "core" /\ Next /\ UNCHANGED sealingVars
     \/ part = "sealing" /\ SealingNext /\ UNCHANGED vars

FairSpec ==
  /\ LiveInit /\ [][LiveNext]_<<part, vars, sealingVars>>
  /\ \A n \in Cores, k \in Steps : WF_vars(part = "core" /\ Step(n, k))
  /\ \A r \in Routines \cup Threads : WF_sealingVars(part = "sealing" /\ Run(r))
  /\ \A w \in Works, r \in {"seal", "wait"} :
       WF_sealingVars(part = "sealing" /\ RunWork(w, r))
  /\ SF_sealingVars(part = "sealing" /\ CommitAgain)
=============================================================================
