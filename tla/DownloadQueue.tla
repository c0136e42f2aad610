--------------------------- MODULE DownloadQueue ---------------------------
(***************************************************************************)
(* The download queue of chain synchronisation (eth/downloader/queue.go)   *)
(* and the loops that drive it: one fetchParts goroutine per kind of part  *)
(* (bodies, and receipts in fast sync), the header processor that          *)
(* schedules, the content processor that takes Results, and the handler    *)
(* that registers and drops peers.  Every method of the queue holds its    *)
(* lock, so each is one step; what happens between two calls is not.       *)
(*                                                                         *)
(* A header is its number.  The parts of one header are what the headers   *)
(* commit to; a reply is the sequence of the headers whose parts a peer    *)
(* found, a subsequence of what it was asked, and replies come back in the *)
(* order of the requests.                                                  *)
(***************************************************************************)
EXTENDS Integers, FiniteSets, SequencesExt, FiniteSetsExt

CONSTANTS
  SyncModes,        \* sync modes a synchronisation may run in: "full", "fast"
  SyncPeers,        \* peers that may register
  MaxHeader,        \* number of the last header of the remote chain
  EmptyPart(_, _),  \* EmptyPart(part, h): the header says h has nothing of this kind
  CacheItems,       \* blockCacheItems, the slots of resultCache
  MemoryItems,      \* slots the memory limit may leave, by the size of past blocks
  MaxResults,       \* maxResultsProcess
  MaxCount,         \* capacity of a peer, in parts per request
  FewFails,         \* a request of at most this many parts that expires drops its peer
  MaxAsked,         \* bound: unanswered requests of one kind at one peer
  MaxSyncs,         \* bound: synchronisations started
  NoRequest, NoSlot

Headers == 1 .. MaxHeader
Kinds == {"body", "receipt"}

\* What a header is fetched for in a mode.
Parts(mode) == IF mode = "fast" THEN Kinds ELSE {"body"}

ASSUME QueueAssumption ==
  /\ MaxHeader \in Nat \ {0} /\ CacheItems \in Nat \ {0}
  /\ MemoryItems \subseteq 1 .. CacheItems /\ CacheItems \in MemoryItems
  /\ MaxResults \in Nat \ {0}

VARIABLES
  dq,        \* the queue
  syncing,   \* the goroutines of the sync and the peer set
  asked      \* asked[part][peer]: requests the peer has not answered yet

downloadVars == <<dq, syncing, asked>>

EmptyQueue(mode, offset, limit) ==
  [mode |-> mode,
   next |-> offset,                                     \* header to schedule next
   pool |-> [k \in Kinds |-> {}],                       \* *TaskPool
   tasks |-> [k \in Kinds |-> [h \in Headers |-> 0]],   \* *TaskQueue, a multiset
   pend |-> [k \in Kinds |-> [p \in SyncPeers |-> NoRequest]],
   done |-> [k \in Kinds |-> {}],                       \* *DonePool
   cache |-> [h \in Headers |-> NoSlot],                \* resultCache: parts pending
   offset |-> offset,                                   \* resultOffset
   limit |-> limit,                                     \* slots within the memory limit
   invalid |-> FALSE,                                   \* errInvalidChain was returned
   closed |-> FALSE]

Tasks(q, k) == {h \in Headers : q.tasks[k][h] > 0}
InFlight(q, k) == {p \in SyncPeers : q.pend[k][p] # NoRequest}
Window(q, n) == {h \in Headers : q.offset <= h /\ h < q.offset + n}

\* Slots for requests: the cache up to the memory limit, less the parts done
\* before the first empty slot and the parts being fetched.
resultSlots(q, k) ==
  LET filled == {h \in Window(q, q.limit) :
                   \A g \in q.offset .. h : q.cache[g] # NoSlot}
      finished == Cardinality(filled \cap q.done[k])
      fetching == {r \in InFlight(q, k) \X Headers :
                     r[2] \in ToSet(q.pend[k][r[1]]) /\ r[2] < q.offset + q.limit}
  IN q.limit - finished - Cardinality(fetching)

\* Leading results with nothing pending.
countProcessableItems(q) ==
  Cardinality({h \in Window(q, CacheItems) :
                 \A g \in q.offset .. h : q.cache[g] # NoSlot /\ q.cache[g] <= 0})

PutBack(q, k, hs) ==
  [q EXCEPT !.tasks[k] = [h \in Headers |-> @[h] + Cardinality({i \in DOMAIN hs : hs[i] = h})]]

Schedule(q, n) ==
  LET hs == q.next .. q.next + n - 1
      new == [k \in Kinds |-> IF k \in Parts(q.mode) THEN hs ELSE {}]
  IN [q EXCEPT !.pool = [k \in Kinds |-> @[k] \cup new[k]],
               !.tasks = [k \in Kinds |-> [h \in Headers |->
                            @[k][h] + (IF h \in new[k] THEN 1 ELSE 0)]],
               !.next = @ + n]

\* One turn of reserveHeaders' loop, at the lowest task h.
ReserveOne(k, lacks, count, s, h) ==
  LET q == s.q
      slot == [q EXCEPT !.tasks[k][h] = @ - 1,
                        !.cache[h] = IF @ = NoSlot THEN Cardinality(Parts(q.mode)) ELSE @]
  IN IF q.invalid \/ s.proc >= s.space \/ Len(s.send) >= count THEN s
     ELSE IF h \notin Window(q, CacheItems) THEN [s EXCEPT !.q.invalid = TRUE]
     ELSE IF EmptyPart(k, h)
     THEN [s EXCEPT !.space = @ - 1, !.progress = TRUE,
                    !.q = [slot EXCEPT !.done[k] = @ \cup {h}, !.pool[k] = @ \ {h},
                                       !.cache[h] = @ - 1]]
     ELSE IF h \in lacks
     THEN [s EXCEPT !.q = slot, !.proc = @ + 1, !.skip = Append(@, h)]
     ELSE [s EXCEPT !.q = slot, !.proc = @ + 1, !.send = Append(@, h)]

\* reserveHeaders: the new queue, what to ask the peer, and whether results
\* became ready.
reserveHeaders(q, k, p, lacks, count) ==
  LET tasks == SelectSeq([h \in Headers |-> h], LAMBDA h : h \in Tasks(q, k))
      end == FoldLeft(LAMBDA s, h : ReserveOne(k, lacks, count, s, h),
                      [q |-> q, space |-> resultSlots(q, k), proc |-> 0,
                       send |-> <<>>, skip |-> <<>>, progress |-> FALSE], tasks)
      back == IF end.q.invalid THEN end.q ELSE PutBack(end.q, k, end.skip)
  IN [q |-> IF end.send = <<>> \/ back.invalid THEN back
            ELSE [back EXCEPT !.pend[k][p] = end.send],
      send |-> IF back.invalid THEN <<>> ELSE end.send,
      progress |-> end.progress /\ ~back.invalid]

\* expire, Revoke: the parts a peer was asked for go back to the task queue.
TakeBack(q, k, p) ==
  IF q.pend[k][p] = NoRequest THEN q
  ELSE [PutBack(q, k, q.pend[k][p]) EXCEPT !.pend[k][p] = NoRequest]

Revoke(q, p) == FoldSet(LAMBDA k, r : TakeBack(r, k, p), q, Kinds)

\* Parts of the request that the reply answers, up to the first that does not
\* match its header.
Matching(request, reply) ==
  LET good == {n \in 0 .. Len(request) :
                 n <= Len(reply) /\ \A i \in 1 .. n : request[i] = reply[i]}
  IN SubSeq(request, 1, CHOOSE n \in good : \A m \in good : m <= n)

\* Plausible bug: what the reply left out is not queued again.
deliverDropsRest(q, k, p, reply) ==
  LET got == ToSet(Matching(q.pend[k][p], reply))
  IN [q EXCEPT !.pend[k][p] = NoRequest, !.done[k] = @ \cup got, !.pool[k] = @ \ got,
               !.cache = [h \in Headers |-> IF h \in got THEN @[h] - 1 ELSE @[h]]]

\* deliver on a request: the parts that match are done, the others are tasks
\* again.
deliver(q, k, p, reply) ==
  LET request == q.pend[k][p]
      good == Matching(request, reply)
      rest == SubSeq(request, Len(good) + 1, Len(request))
      got == ToSet(good)
      lost == \E h \in got : h \notin Window(q, CacheItems) \/ q.cache[h] = NoSlot
      r == [q EXCEPT !.pend[k][p] = NoRequest]
  IN IF lost THEN [r EXCEPT !.invalid = TRUE]
     ELSE PutBack([r EXCEPT !.done[k] = @ \cup got, !.pool[k] = @ \ got,
                            !.cache = [h \in Headers |-> IF h \in got THEN @[h] - 1 ELSE @[h]]],
                  k, rest)

\* The reply's first part is not the first asked for.
StaleDelivery(request, reply) ==
  reply # <<>> /\ Matching(request, reply) = <<>>

Results(q, n, limit) ==
  LET taken == q.offset .. q.offset + n - 1
  IN [q EXCEPT !.done = [k \in Kinds |-> @[k] \ taken],
               !.cache = [h \in Headers |-> IF h \in taken THEN NoSlot ELSE @[h]],
               !.offset = @ + n,
               !.limit = limit]

DownloadInit ==
  /\ \E mode \in SyncModes : dq = EmptyQueue(mode, 1, CacheItems)
  /\ \E ps \in SUBSET SyncPeers : syncing =
               [count |-> 1,
                peers |-> ps,                             \* registered
                busy |-> [k \in Kinds |-> {}],            \* not idle
                lacking |-> [p \in SyncPeers |-> {}],
                idles |-> [k \in Kinds |-> {}],           \* fetchParts' list, not yet tried
                gone |-> [k \in Kinds |-> {}],            \* those of it whose connection left
                fetched |-> [k \in Kinds |-> FALSE],      \* fetchParts returned nil
                awake |-> TRUE,                           \* content processor not in Wait
                ended |-> FALSE,                          \* it returned
                imported |-> 0]
  /\ asked = [k \in Kinds |-> [p \in SyncPeers |-> <<>>]]

Running == ~dq.invalid

\* Plausible bug: nobody signals the condition variable.
SignalledNever(s, wake) == s
\* q.active.Signal, if wake.
Signalled(s, wake) == [s EXCEPT !.awake = @ \/ wake]

\* peerSet.Unregister and Register: a list of idle peers made before keeps the
\* connection that left.
Dropped(s, ps) ==
  [s EXCEPT !.peers = @ \ ps, !.gone = [k \in Kinds |-> @[k] \cup (s.idles[k] \cap ps)]]
Connected(s, p) ==
  [s EXCEPT !.peers = @ \cup {p}, !.lacking[p] = {}, !.busy = [k \in Kinds |-> @[k] \ {p}]]

\* processHeaders: the next headers of the remote chain are scheduled.
ScheduleHeaders ==
  /\ Running
  /\ \E n \in 1 .. 2 : dq.next + n - 1 <= MaxHeader /\ dq' = Schedule(dq, n)
  /\ UNCHANGED <<syncing, asked>>

\* The update case of fetchParts, up to its list of idle peers: the requests
\* that timed out go back to the queue, and the peers that failed even a small
\* one are dropped.
Update(k) ==
  /\ Running /\ ~syncing.fetched[k] /\ syncing.peers # {}
  /\ \E late \in SUBSET InFlight(dq, k) :
       LET drop == {p \in late \cap syncing.peers : Len(dq.pend[k][p]) <= FewFails}
           q1 == FoldSet(LAMBDA p, r : TakeBack(r, k, p), dq, late)
           q2 == FoldSet(LAMBDA p, r : Revoke(r, p), q1, drop)
           s == [Dropped(syncing, drop) EXCEPT !.busy[k] = @ \ late]
           over == Tasks(q2, k) = {} /\ InFlight(q2, k) = {} /\ q2.next > MaxHeader
       IN /\ dq' = q2
          /\ syncing' = [s EXCEPT !.fetched[k] = over, !.gone[k] = {},
                                  !.idles[k] = IF Tasks(q2, k) = {} THEN {}
                                               ELSE s.peers \ s.busy[k]]
  /\ UNCHANGED asked

Throttled(k) == resultSlots(dq, k) <= 0 \/ Tasks(dq, k) = {}

\* The next turn of its loop over that list; the peer may be gone by now.
Reserve(k) ==
  /\ Running /\ ~syncing.fetched[k]
  /\ ~Throttled(k)
  /\ \E p \in syncing.idles[k], count \in 1 .. MaxCount :
       \E lacks \in IF p \in syncing.gone[k] THEN SUBSET Headers ELSE {syncing.lacking[p]} :
         LET res == reserveHeaders(dq, k, p, lacks, count)
             sent == res.send # <<>> /\ p \notin syncing.gone[k]
         IN /\ dq.pend[k][p] = NoRequest
            /\ Len(asked[k][p]) < MaxAsked
            /\ dq' = res.q
            /\ syncing' = [Signalled(syncing, res.progress) EXCEPT
                             !.idles[k] = @ \ {p}, !.gone[k] = @ \ {p},
                             !.busy[k] = IF sent THEN @ \cup {p} ELSE @]
            /\ asked' = IF sent THEN [asked EXCEPT ![k][p] = Append(@, res.send)] ELSE asked

\* The loop passes over a peer that has a request already, and ends once the
\* cache has no room or nothing is left to ask for.
ReserveNone(k) ==
  /\ Running /\ ~syncing.fetched[k]
  /\ \E p \in syncing.idles[k] :
       LET full == Throttled(k)
           past == IF full THEN syncing.idles[k] ELSE {p}
       IN /\ full \/ dq.pend[k][p] # NoRequest
          /\ syncing' = [syncing EXCEPT !.idles[k] = @ \ past, !.gone[k] = @ \ past]
  /\ UNCHANGED <<dq, asked>>

\* The delivery case of fetchParts: the answer to the peer's oldest request.
Deliver(k) ==
  /\ Running /\ ~syncing.fetched[k]
  /\ \E p \in SyncPeers :
       /\ p \in syncing.peers /\ asked[k][p] # <<>>
       /\ \E found \in SUBSET ToSet(Head(asked[k][p])) :
            LET reply == SelectSeq(Head(asked[k][p]), LAMBDA h : h \in found)
                request == dq.pend[k][p]
                idle == [syncing EXCEPT !.busy[k] = @ \ {p}]
            IN IF request = NoRequest
               THEN syncing' = idle /\ UNCHANGED dq
               ELSE /\ dq' = deliver(dq, k, p, reply)
                    /\ syncing' = LET s == IF StaleDelivery(request, reply) THEN syncing ELSE idle
                                      t == Signalled(s, Matching(request, reply) # <<>>)
                                  IN [t EXCEPT !.lacking[p] =
                                        IF reply = <<>> THEN @ \cup ToSet(request) ELSE @]
       /\ asked' = [asked EXCEPT ![k][p] = Tail(@)]

\* The content processor: takes the results that are ready, waits, or returns
\* once the queue is closed and nothing is left.
Process ==
  /\ Running /\ syncing.awake /\ ~syncing.ended
  /\ LET n == countProcessableItems(dq)
         m == IF n > MaxResults THEN MaxResults ELSE n
     IN IF n > 0
        THEN /\ \E limit \in MemoryItems : dq' = Results(dq, m, limit)
             /\ syncing' = [syncing EXCEPT !.imported = dq.offset + m - 1]
        ELSE /\ syncing' = [syncing EXCEPT !.awake = dq.closed, !.ended = dq.closed]
             /\ UNCHANGED dq
  /\ UNCHANGED asked

\* spawnSync: only the content processor is left.
Close ==
  /\ Running /\ ~dq.closed /\ \A k \in Kinds : syncing.fetched[k]
  /\ dq' = [dq EXCEPT !.closed = TRUE]
  /\ syncing' = [syncing EXCEPT !.awake = TRUE]
  /\ UNCHANGED asked

\* UnregisterPeer; requests to a peer that left are never answered.
Unregister ==
  /\ Running
  /\ \E p \in syncing.peers :
       /\ dq' = Revoke(dq, p)
       /\ syncing' = Dropped(syncing, {p})
       /\ asked' = [k \in Kinds |-> [asked[k] EXCEPT ![p] = <<>>]]

Register ==
  /\ Running
  /\ \E p \in SyncPeers \ syncing.peers :
       /\ syncing' = Connected(syncing, p)
       /\ asked' = [k \in Kinds |-> [asked[k] EXCEPT ![p] = <<>>]]
  /\ UNCHANGED dq

\* The sync is given up and synchronise runs again from a block the chain has;
\* answers to the old requests are still to come.
Restart ==
  /\ syncing.count < MaxSyncs
  /\ \E origin \in 0 .. syncing.imported, mode \in SyncModes :
       /\ dq' = EmptyQueue(mode, origin + 1, dq.limit)
       /\ syncing' = [syncing EXCEPT !.count = @ + 1,
                                     !.busy = [k \in Kinds |-> {}],
                                     !.lacking = [p \in SyncPeers |-> {}],
                                     !.idles = [k \in Kinds |-> {}],
                                     !.gone = [k \in Kinds |-> {}],
                                     !.fetched = [k \in Kinds |-> FALSE],
                                     !.awake = TRUE, !.ended = FALSE]
  /\ UNCHANGED asked

DownloadNext ==
  \/ ScheduleHeaders \/ Process \/ Close \/ Unregister \/ Register \/ Restart
  \/ \E k \in Kinds : Update(k) \/ Reserve(k) \/ ReserveNone(k) \/ Deliver(k)

DownloadSpec == DownloadInit /\ [][DownloadNext]_downloadVars

------------------------------------------------------------------------------
\* Every part scheduled and not yet done is in one place: once in the task
\* queue or in one request, whatever expired, was answered late or was asked
\* of a peer that left; and a result waits for exactly the parts not done.  The
\* throttle keeps requests inside the result cache: reserveHeaders never meets
\* "index allocation went beyond available resultCache space", and no answer
\* finds its slot gone.
PartsAccounted ==
  /\ Running
  /\ \A k \in Kinds, h \in Headers :
       dq.tasks[k][h]
         + Cardinality({p \in InFlight(dq, k) : h \in ToSet(dq.pend[k][p])})
         = (IF h \in dq.pool[k] THEN 1 ELSE 0)
  /\ \A h \in Headers : dq.cache[h] # NoSlot =>
       dq.cache[h] = Cardinality({k \in Parts(dq.mode) : h \notin dq.done[k]})

\* The content processor does not sleep on results that are ready, nor on a
\* closed queue, and returns only when every header was imported.
ProcessorWoken ==
  Running =>
    /\ ~syncing.awake => countProcessableItems(dq) = 0 /\ ~dq.closed
    /\ syncing.ended => syncing.imported = MaxHeader /\ dq.offset = MaxHeader + 1
=============================================================================
