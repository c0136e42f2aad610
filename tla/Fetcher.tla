------------------------------- MODULE Fetcher -------------------------------
(***************************************************************************)
(* The block fetcher of package eth/fetcher, which turns announced hashes  *)
(* into header requests, headers into body requests and blocks into        *)
(* imports.  The state of its loop is one record; one pass of the loop     *)
(* (an event, then the clean-up and the imports before the next one) is    *)
(* one action.  Imports run in goroutines of their own and report on the   *)
(* done channel.                                                           *)
(*                                                                         *)
(* Requests and deliveries are not tied to each other: any peer may send   *)
(* any header or body at any time, or never.  Time is not clocked: an      *)
(* announcement may be old or not whenever its age is looked at.           *)
(***************************************************************************)
EXTENDS Naturals, Integers, Sequences, FiniteSets, FiniteSetsExt, SequencesExt

CONSTANTS
  Hashes,         \* blocks, by their hash
  BlockNumber(_), \* number of a block
  EmptyBlock(_),  \* whether it has no transactions and no uncles
  FetchPeers,     \* peers
  NoAnnounce,     \* no announcement, no peer
  HashLimit, BlockLimit, MaxUncleDist, MaxQueueDist,
  MaxAnnounces    \* bound: announcements of a block at a time

ASSUME FetcherAssumption ==
  /\ \A h \in Hashes : BlockNumber(h) \in Nat \ {0} /\ EmptyBlock(h) \in BOOLEAN
  /\ {HashLimit, BlockLimit, MaxUncleDist, MaxQueueDist} \subseteq Nat
  /\ MaxAnnounces \in Nat
  /\ IsFiniteSet(Hashes) /\ NoAnnounce \notin FetchPeers

\* An announcement: who made it, and whether its block number is the right one.
Announce == [origin : FetchPeers, right : BOOLEAN]

VARIABLES
  fetcher,     \* the maps and timers of Fetcher
  imports,     \* imports[h]: "no", "run", or "done" while it reports
  imported     \* blocks of the local chain

fetcherVars == <<fetcher, imports, imported>>

chainHeight == Max({0} \cup {BlockNumber(h) : h \in imported})

TooFar(number) ==
  LET dist == number - chainHeight IN dist < -MaxUncleDist \/ dist > MaxQueueDist

-----------------------------------------------------------------------------
(* forgetHash, forgetBlock, enqueue.                                       *)

\* One announcement less is counted for its peer; a count never gets below 0.
Uncount(announces, a) ==
  [announces EXCEPT ![a.origin] = IF @ <= 1 THEN 0 ELSE @ - 1]

One(a) == IF a = NoAnnounce THEN <<>> ELSE <<a>>

Waiting(f, h) == f.announced[h] \o One(f.fetching[h]) \o f.fetched[h] \o One(f.completing[h])

Uncounted(f, hs) == FoldSet(LAMBDA h, c : FoldLeft(Uncount, c, Waiting(f, h)), f.announces, hs)

\* forgetHash of each of hs.
forgetHashes(f, hs) ==
  [f EXCEPT !.announces = Uncounted(f, hs),
            !.announced = [h \in Hashes |-> IF h \in hs THEN <<>> ELSE @[h]],
            !.fetching = [h \in Hashes |-> IF h \in hs THEN NoAnnounce ELSE @[h]],
            !.fetched = [h \in Hashes |-> IF h \in hs THEN <<>> ELSE @[h]],
            !.completing = [h \in Hashes |-> IF h \in hs THEN NoAnnounce ELSE @[h]]]

forgetHash(f, h) == forgetHashes(f, {h})

\* Mutant: the block is dropped without its peer's count.
forgetBlockOnly(f, h) == [f EXCEPT !.queued[h] = NoAnnounce]

forgetBlock(f, h) ==
  IF f.queued[h] = NoAnnounce THEN f
  ELSE [f EXCEPT !.queues[f.queued[h]] = @ - 1, !.queued[h] = NoAnnounce]

\* forgetBlock of each of hs.
forgetBlocks(f, hs) ==
  [f EXCEPT !.queues = [p \in FetchPeers |-> @[p] - Cardinality({h \in hs : f.queued[h] = p})],
            !.queued = [h \in Hashes |-> IF h \in hs THEN NoAnnounce ELSE @[h]]]

enqueue(f, peer, h) ==
  IF f.queues[peer] + 1 > BlockLimit \/ TooFar(BlockNumber(h)) THEN forgetHash(f, h)
  ELSE IF f.queued[h] # NoAnnounce THEN f
  ELSE [f EXCEPT !.queues[peer] = @ + 1, !.queued[h] = peer,
                 !.queue = @ \cup {h}]

\* rescheduleFetch and rescheduleComplete: the timer runs if there is something
\* to wait for.
rescheduleFetch(f) ==
  [f EXCEPT !.fetchTimer = @ \/ \E h \in Hashes : f.announced[h] # <<>>]
rescheduleComplete(f) ==
  [f EXCEPT !.completeTimer = @ \/ \E h \in Hashes : f.fetched[h] # <<>>]

-----------------------------------------------------------------------------
(* The loop.                                                               *)

\* The blocks of the queue that could fit, and those of them that are too old
\* or in the chain already.
Fitting(f) == {h \in f.queue : BlockNumber(h) <= chainHeight + 1}
Stale(f) ==
  {h \in Fitting(f) : BlockNumber(h) + MaxUncleDist < chainHeight \/ h \in imported}

\* Before each event, some fetches have expired and fitting blocks are imported.
LoopFrom(f, running) ==
  \E expired \in SUBSET {h \in Hashes : f.fetching[h] # NoAnnounce} :
    LET c == forgetHashes(f, expired)
        started == Fitting(c) \ Stale(c)
    IN /\ fetcher' = [forgetBlocks(c, Stale(c)) EXCEPT !.queue = @ \ Fitting(c)]
       /\ imports' = [h \in Hashes |-> IF h \in started THEN "run" ELSE running[h]]
       /\ UNCHANGED imported

Loop(f) == LoopFrom(f, imports)

\* A peer announces a block.  The number 0, "unknown", is one that is not right.
Notify(h, a) ==
  LET count == fetcher.announces[a.origin] + 1
      f == [fetcher EXCEPT !.announces[a.origin] = count,
                           !.announced[h] = Append(@, a)]
      alone == {g \in Hashes : f.announced[g] # <<>>} = {h}
  IN /\ Len(fetcher.announced[h]) < MaxAnnounces
     /\ Loop(IF \/ count > HashLimit
                \/ a.right /\ TooFar(BlockNumber(h))
                \/ fetcher.fetching[h] # NoAnnounce
                \/ fetcher.completing[h] # NoAnnounce
             THEN fetcher
             ELSE IF alone THEN rescheduleFetch(f) ELSE f)

\* A peer propagates a block.
Inject(h, peer) == Loop(enqueue(fetcher, peer, h))

\* An import reports.
ImportDone(h) ==
  /\ imports[h] = "done"
  /\ LoopFrom(forgetBlock(forgetHash(fetcher, h), h), [imports EXCEPT ![h] = "no"])

\* Mutant: the timer is left alone after it fired.
FetchTimerOnce ==
  /\ fetcher.fetchTimer
  /\ \E old \in SUBSET {h \in Hashes : fetcher.announced[h] # <<>>} :
       \E a \in [old -> Announce] :
         /\ \A h \in old : a[h] \in Range(fetcher.announced[h])
         /\ LET f == forgetHashes([fetcher EXCEPT !.fetchTimer = FALSE], old)
            IN Loop([f EXCEPT !.fetching = [h \in Hashes |->
                       IF h \in old \ imported THEN a[h] ELSE @[h]]])

\* The fetch timer fires: the announcements that are old enough turn into a
\* request to one of the peers that made them.
FetchTimer ==
  /\ fetcher.fetchTimer
  /\ \E old \in SUBSET {h \in Hashes : fetcher.announced[h] # <<>>} :
       \E a \in [old -> Announce] :
         /\ \A h \in old : a[h] \in Range(fetcher.announced[h])
         /\ LET f == forgetHashes([fetcher EXCEPT !.fetchTimer = FALSE], old)
            IN Loop(rescheduleFetch([f EXCEPT !.fetching = [h \in Hashes |->
                      IF h \in old \ imported THEN a[h] ELSE @[h]]]))

\* The complete timer fires: bodies are requested for all fetched headers.
CompleteTimer ==
  LET ready == {h \in Hashes : fetcher.fetched[h] # <<>>} IN
    /\ fetcher.completeTimer
    /\ \E a \in [ready -> Announce] :
         /\ \A h \in ready : a[h] \in Range(fetcher.fetched[h])
         /\ LET f == forgetHashes([fetcher EXCEPT !.completeTimer = FALSE], ready)
            IN Loop(rescheduleComplete([f EXCEPT !.completing = [h \in Hashes |->
                      IF h \in ready \ imported THEN a[h] ELSE @[h]]]))

\* FilterHeaders of one header that a peer delivered.
FilterHeader(h, peer) ==
  LET a == fetcher.fetching[h]
      f == [fetcher EXCEPT !.fetched[h] = Append(@, a)]
      alone == {g \in Hashes : f.fetched[g] # <<>>} = {h}
  IN /\ a # NoAnnounce /\ a.origin = peer
     /\ fetcher.fetched[h] = <<>> /\ fetcher.completing[h] = NoAnnounce
     /\ fetcher.queued[h] = NoAnnounce
     /\ Loop(IF ~a.right \/ h \in imported THEN forgetHash(fetcher, h)
             ELSE IF EmptyBlock(h)
               THEN enqueue([fetcher EXCEPT !.completing[h] = a], peer, h)
             ELSE IF alone THEN rescheduleComplete(f) ELSE f)

\* FilterBodies of one body that a peer delivered.
FilterBody(h, peer) ==
  /\ fetcher.completing[h] # NoAnnounce /\ fetcher.completing[h].origin = peer
  /\ fetcher.queued[h] = NoAnnounce
  /\ Loop(IF h \in imported THEN forgetHash(fetcher, h)
          ELSE enqueue(fetcher, peer, h))

\* The goroutine of insert ends: the block is in the chain, or its parent is
\* unknown or it is not valid.
ImportRuns(h) ==
  /\ imports[h] = "run"
  /\ imported' \in {imported, imported \cup {h}}
  /\ imports' = [imports EXCEPT ![h] = "done"]
  /\ UNCHANGED fetcher

\* The block gets into the chain another way.
ImportedElsewhere(h) ==
  /\ imported' = imported \cup {h}
  /\ UNCHANGED <<fetcher, imports>>

FetcherInit ==
  /\ fetcher = [announces |-> [p \in FetchPeers |-> 0],
                announced |-> [h \in Hashes |-> <<>>],
                fetching |-> [h \in Hashes |-> NoAnnounce],
                fetched |-> [h \in Hashes |-> <<>>],
                completing |-> [h \in Hashes |-> NoAnnounce],
                queue |-> {}, queues |-> [p \in FetchPeers |-> 0],
                queued |-> [h \in Hashes |-> NoAnnounce],
                fetchTimer |-> TRUE, completeTimer |-> TRUE]
  /\ imports = [h \in Hashes |-> "no"]
  /\ imported = {}

FetcherNext ==
  \/ \E h \in Hashes : \/ \E a \in Announce : Notify(h, a)
                       \/ \E p \in FetchPeers : \/ Inject(h, p)
                                                \/ FilterHeader(h, p)
                                                \/ FilterBody(h, p)
                       \/ ImportDone(h) \/ ImportRuns(h) \/ ImportedElsewhere(h)
  \/ FetchTimer \/ CompleteTimer

FetcherSpec == FetcherInit /\ [][FetcherNext]_fetcherVars

-----------------------------------------------------------------------------
(* What matters.                                                           *)

\* Whatever peers do, the fetcher's books of blocks balance: a queued block is
\* waiting in the queue or being imported, never both and never twice, and the
\* count of each peer is the number of its queued blocks, so the limit on them
\* neither leaks nor locks the peer out.
QueueAccounted ==
  /\ \A h \in Hashes : /\ fetcher.queued[h] # NoAnnounce
                            <=> (h \in fetcher.queue \/ imports[h] # "no")
                       /\ ~(h \in fetcher.queue /\ imports[h] # "no")
  /\ \A p \in FetchPeers :
       fetcher.queues[p] = Cardinality({h \in Hashes : fetcher.queued[h] = p})

\* An announced hash, or a fetched header, never waits without a timer that
\* will ask for the rest of the block.
TimersArmed ==
  \A h \in Hashes : /\ fetcher.announced[h] # <<>> => fetcher.fetchTimer
                    /\ fetcher.fetched[h] # <<>> => fetcher.completeTimer
==============================================================================
