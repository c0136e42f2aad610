---------------------------- MODULE FetcherProofs ----------------------------
(***************************************************************************)
(* The block fetcher keeps its books: for every set of blocks and peers,   *)
(* and all limits, QueueAccounted and TimersArmed are invariants.          *)
(***************************************************************************)
EXTENDS Fetcher, FiniteSetTheorems, TLAPS

\* The books of the loop when its record is f and the imports are run.
FetcherShape(f) ==
  /\ DOMAIN f = {"announces", "announced", "fetching", "fetched", "completing",
                 "queue", "queues", "queued", "fetchTimer", "completeTimer"}
  /\ {f.announced, f.fetched} \subseteq [Hashes -> Seq(Announce)]
  /\ {f.fetching, f.completing} \subseteq [Hashes -> Announce \cup {NoAnnounce}]
  /\ f.queue \subseteq Hashes /\ f.queues \in [FetchPeers -> Nat]
  /\ f.queued \in [Hashes -> FetchPeers \cup {NoAnnounce}]
  /\ {f.fetchTimer, f.completeTimer} \subseteq BOOLEAN

ImportsType(run) == run \in [Hashes -> {"no", "run", "done"}]

\* The blocks of peer p among those queued or being imported.
HeldBy(f, p) == {h \in Hashes : f.queued[h] = p}

\* queues counts the blocks of every peer.
Counted(f) == \A p \in FetchPeers : f.queues[p] = Cardinality(HeldBy(f, p))

\* A block accounted for is in the queue or being imported, never in both.
InOnePlace(f, run) ==
  \A h \in Hashes : /\ f.queued[h] # NoAnnounce <=> (h \in f.queue \/ run[h] # "no")
                    /\ ~(h \in f.queue /\ run[h] # "no")

\* Where there is something to time out, the timer is armed.
Armed(f) ==
  \A h \in Hashes : /\ f.announced[h] # <<>> => f.fetchTimer
                    /\ f.fetched[h] # <<>> => f.completeTimer

\* The inductive invariant, of any record and any imports: a pass of the loop is
\* several operators in a row.
Books(f, run) ==
  FetcherShape(f) /\ ImportsType(run) /\ Counted(f) /\ InOnePlace(f, run) /\ Armed(f)

-----------------------------------------------------------------------------
(* The operators on the record.                                            *)

\* forgetHash touches no queued block and leaves less to wait for.
LEMMA ForgetHashesBooks ==
  ASSUME NEW f, NEW run, NEW hs, Books(f, run)
  PROVE  Books(forgetHashes(f, hs), run)
<1> DEFINE g == forgetHashes(f, hs)
<1>1. FetcherShape(g)
  <2> DEFINE nothing(m) == [h \in Hashes |-> IF h \in hs THEN <<>> ELSE m[h]]
             nobody(m) == [h \in Hashes |-> IF h \in hs THEN NoAnnounce ELSE m[h]]
  <2>1. \A m \in [Hashes -> Seq(Announce)] : nothing(m) \in [Hashes -> Seq(Announce)]
    <3>1. <<>> \in Seq(Announce)
      OBVIOUS
    <3> QED
      BY <3>1
  <2>2. \A m \in [Hashes -> Announce \cup {NoAnnounce}] :
          nobody(m) \in [Hashes -> Announce \cup {NoAnnounce}]
    OBVIOUS
  <2> HIDE DEF nothing, nobody
  <2>3. g = [f EXCEPT !.announces = Uncounted(f, hs),
                      !.announced = nothing(f.announced), !.fetching = nobody(f.fetching),
                      !.fetched = nothing(f.fetched), !.completing = nobody(f.completing)]
    BY Zenon DEF forgetHashes, nothing, nobody
  <2> QED
    BY <2>1, <2>2, <2>3 DEF Books, FetcherShape
<1>2. /\ g.queued = f.queued /\ g.queue = f.queue /\ g.queues = f.queues
      /\ g.fetchTimer = f.fetchTimer /\ g.completeTimer = f.completeTimer
  BY DEF Books, FetcherShape, forgetHashes
<1>3. \A h \in Hashes : /\ g.announced[h] \in {<<>>, f.announced[h]}
                        /\ g.fetched[h] \in {<<>>, f.fetched[h]}
  BY DEF Books, FetcherShape, forgetHashes
<1>4. Counted(g) /\ InOnePlace(g, run)
  BY <1>2 DEF Books, Counted, HeldBy, InOnePlace
<1>5. Armed(g)
  BY <1>2, <1>3 DEF Books, Armed
<1> QED
  BY <1>1, <1>4, <1>5 DEF Books

\* What a peer holds of the queue is a finite set.
LEMMA HeldFinite ==
  ASSUME NEW f, NEW p
  PROVE  IsFiniteSet(HeldBy(f, p)) /\ Cardinality(HeldBy(f, p)) \in Nat
BY FetcherAssumption, FS_Subset, FS_CardinalityType DEF HeldBy

\* An accepted block is counted once, for the peer that sent it.
LEMMA EnqueueBooks ==
  ASSUME NEW f, NEW run, NEW peer \in FetchPeers, NEW h \in Hashes, Books(f, run)
  PROVE  Books(enqueue(f, peer, h), run)
<1> DEFINE full == f.queues[peer] + 1 > BlockLimit \/ TooFar(BlockNumber(h))
           g == [f EXCEPT !.queues[peer] = @ + 1, !.queued[h] = peer,
                          !.queue = @ \cup {h}]
<1>1. CASE full
  BY <1>1, ForgetHashesBooks DEF enqueue, forgetHash
<1>2. CASE ~full /\ f.queued[h] # NoAnnounce
  BY <1>2 DEF enqueue
<1>3. CASE ~full /\ f.queued[h] = NoAnnounce
  <2>1. enqueue(f, peer, h) = g
    BY <1>3 DEF enqueue
  <2> HIDE DEF full
  <2>2. FetcherShape(g)
    BY DEF Books, FetcherShape
  <2>3. /\ g.announced = f.announced /\ g.fetched = f.fetched
        /\ g.fetchTimer = f.fetchTimer /\ g.completeTimer = f.completeTimer
    BY DEF Books, FetcherShape
  <2>4. Armed(g)
    BY <2>3 DEF Books, Armed
  <2>5. /\ g.queue = f.queue \cup {h}
        /\ \A x \in Hashes : g.queued[x] = IF x = h THEN peer ELSE f.queued[x]
        /\ \A p \in FetchPeers : g.queues[p] = IF p = peer THEN f.queues[p] + 1 ELSE f.queues[p]
    BY DEF Books, FetcherShape
  <2> HIDE DEF g
  <2>6. h \notin f.queue /\ run[h] = "no" /\ peer # NoAnnounce
    BY <1>3, FetcherAssumption DEF Books, InOnePlace
  <2>7. InOnePlace(g, run)
    BY <2>5, <2>6 DEF Books, InOnePlace
  <2>8. ASSUME NEW p \in FetchPeers PROVE g.queues[p] = Cardinality(HeldBy(g, p))
    <3>1. CASE p = peer
      <4>1. HeldBy(g, p) = HeldBy(f, p) \cup {h} /\ h \notin HeldBy(f, p)
        BY <1>3, <2>5, <2>6, <3>1 DEF HeldBy
      <4>2. Cardinality(HeldBy(g, p)) = Cardinality(HeldBy(f, p)) + 1
        BY <4>1, HeldFinite, FS_AddElement, Zenon
      <4> QED
        BY <4>2, <2>5, <3>1 DEF Books, Counted
    <3>2. CASE p # peer
      <4>1. HeldBy(g, p) = HeldBy(f, p)
        BY <1>3, <2>5, <3>2, FetcherAssumption DEF HeldBy
      <4> QED
        BY <4>1, <2>5, <3>2 DEF Books, Counted
    <3> QED
      BY <3>1, <3>2
  <2> QED
    BY <2>1, <2>2, <2>4, <2>7, <2>8 DEF Books, Counted
<1> QED
  BY <1>1, <1>2, <1>3

\* A forgotten block is taken off the count of the peer that holds it.
LEMMA ForgetBlocksBooks ==
  ASSUME NEW f, FetcherShape(f), Counted(f), NEW hs \in SUBSET Hashes
  PROVE  LET g == forgetBlocks(f, hs)
         IN /\ FetcherShape(g) /\ Counted(g)
            /\ \A h \in Hashes : g.queued[h] = IF h \in hs THEN NoAnnounce ELSE f.queued[h]
            /\ g.queue = f.queue /\ g.announced = f.announced /\ g.fetched = f.fetched
            /\ g.fetchTimer = f.fetchTimer /\ g.completeTimer = f.completeTimer
<1> DEFINE g == forgetBlocks(f, hs)
           off(p) == {h \in hs : f.queued[h] = p}
<1>1. /\ g.queue = f.queue /\ g.announced = f.announced /\ g.fetched = f.fetched
      /\ g.fetchTimer = f.fetchTimer /\ g.completeTimer = f.completeTimer
      /\ g.fetching = f.fetching /\ g.completing = f.completing
      /\ g.queues = [p \in FetchPeers |-> f.queues[p] - Cardinality(off(p))]
      /\ g.queued = [h \in Hashes |-> IF h \in hs THEN NoAnnounce ELSE f.queued[h]]
      /\ DOMAIN g = DOMAIN f
  BY DEF FetcherShape, forgetBlocks
<1>2. ASSUME NEW p \in FetchPeers
      PROVE  f.queues[p] - Cardinality(off(p)) = Cardinality(HeldBy(g, p))
  <2>1. HeldBy(g, p) = HeldBy(f, p) \ off(p)
    BY <1>1, FetcherAssumption DEF HeldBy
  <2>2. HeldBy(f, p) \cap off(p) = off(p)
    BY DEF HeldBy
  <2>3. /\ Cardinality(HeldBy(f, p) \ off(p))
             = Cardinality(HeldBy(f, p)) - Cardinality(HeldBy(f, p) \cap off(p))
    BY HeldFinite, FS_Difference, Zenon
  <2> HIDE DEF off
  <2> QED
    BY <2>1, <2>2, <2>3 DEF Counted
<1> HIDE DEF g, off
<1>3. Counted(g)
  BY <1>1, <1>2 DEF Counted
<1>4. \A p \in FetchPeers : f.queues[p] - Cardinality(off(p)) \in Nat
  BY <1>2, HeldFinite
<1>5. g.queues \in [FetchPeers -> Nat]
  BY <1>1, <1>4
<1>6. g.queued \in [Hashes -> FetchPeers \cup {NoAnnounce}]
  BY <1>1 DEF FetcherShape
<1>7. FetcherShape(g)
  BY <1>1, <1>5, <1>6 DEF FetcherShape
<1> QED
  BY <1>1, <1>3, <1>7 DEF g

\* The import of h has ended: nothing of it is left.
LEMMA ForgetBlockBooks ==
  ASSUME NEW f, NEW run, NEW h \in Hashes, Books(f, run), run[h] # "no"
  PROVE  Books(forgetBlock(f, h), [run EXCEPT ![h] = "no"])
<1> DEFINE g == forgetBlock(f, h)
           d == forgetBlocks(f, {h})
<1>1. f.queued[h] \in FetchPeers /\ h \notin f.queue
  BY DEF Books, InOnePlace, FetcherShape
<1>2. ASSUME NEW p \in FetchPeers
      PROVE  Cardinality({x \in {h} : f.queued[x] = p}) = IF f.queued[h] = p THEN 1 ELSE 0
  <2>1. {x \in {h} : f.queued[x] = p} = IF f.queued[h] = p THEN {h} ELSE {}
    OBVIOUS
  <2> QED
    BY <2>1, FS_Singleton, FS_EmptySet, Zenon
<1>3. g = d
  <2>1. g = [f EXCEPT !.queues[f.queued[h]] = @ - 1, !.queued[h] = NoAnnounce]
    BY <1>1, FetcherAssumption DEF forgetBlock
  <2>2. [f.queues EXCEPT ![f.queued[h]] = @ - 1]
          = [p \in FetchPeers |-> f.queues[p] - Cardinality({x \in {h} : f.queued[x] = p})]
    <3>1. \A p \in FetchPeers : f.queues[p] - 0 = f.queues[p]
      BY DEF Books, FetcherShape
    <3> QED
      BY <1>1, <1>2, <3>1, Zenon DEF Books, FetcherShape
  <2>3. [f.queued EXCEPT ![h] = NoAnnounce]
          = [x \in Hashes |-> IF x \in {h} THEN NoAnnounce ELSE f.queued[x]]
    BY Zenon DEF Books, FetcherShape
  <2> QED
    BY <2>1, <2>2, <2>3, Zenon DEF forgetBlocks
<1>4. /\ FetcherShape(d) /\ Counted(d)
      /\ \A x \in Hashes : d.queued[x] = IF x \in {h} THEN NoAnnounce ELSE f.queued[x]
      /\ d.queue = f.queue /\ d.announced = f.announced /\ d.fetched = f.fetched
      /\ d.fetchTimer = f.fetchTimer /\ d.completeTimer = f.completeTimer
  BY ForgetBlocksBooks DEF Books
<1> HIDE DEF d
<1>5. InOnePlace(d, [run EXCEPT ![h] = "no"])
  BY <1>1, <1>4 DEF Books, InOnePlace, ImportsType
<1>6. Armed(d) /\ ImportsType([run EXCEPT ![h] = "no"])
  BY <1>4 DEF Books, Armed, ImportsType
<1> QED
  BY <1>3, <1>4, <1>5, <1>6 DEF Books

\* The clean-up and the imports before the next event keep the books.
LEMMA LoopBooks ==
  ASSUME NEW f, NEW running, Books(f, running), LoopFrom(f, running)
  PROVE  Books(fetcher', imports')
<1>1. PICK expired \in SUBSET Hashes :
        LET c == forgetHashes(f, expired)
        IN /\ fetcher' = [forgetBlocks(c, Stale(c)) EXCEPT !.queue = @ \ Fitting(c)]
           /\ imports' = [h \in Hashes |-> IF h \in Fitting(c) \ Stale(c) THEN "run"
                                           ELSE running[h]]
  BY Zenon DEF LoopFrom
<1> DEFINE c == forgetHashes(f, expired)
           d == forgetBlocks(c, Stale(c))
<1>2. Books(c, running)
  BY ForgetHashesBooks
<1> HIDE DEF c
<1>3. Stale(c) \subseteq Fitting(c) /\ Fitting(c) \subseteq c.queue /\ c.queue \subseteq Hashes
  BY <1>2 DEF Stale, Fitting, Books, FetcherShape
<1>4. /\ FetcherShape(d) /\ Counted(d)
      /\ \A h \in Hashes : d.queued[h] = IF h \in Stale(c) THEN NoAnnounce ELSE c.queued[h]
      /\ d.queue = c.queue /\ d.announced = c.announced /\ d.fetched = c.fetched
      /\ d.fetchTimer = c.fetchTimer /\ d.completeTimer = c.completeTimer
  BY <1>2, <1>3, ForgetBlocksBooks DEF Books
<1>5. fetcher' = [d EXCEPT !.queue = @ \ Fitting(c)]
  BY <1>1 DEF c
<1> HIDE DEF d
<1>6. /\ FetcherShape(fetcher') /\ fetcher'.queue = c.queue \ Fitting(c)
      /\ fetcher'.queued = d.queued /\ fetcher'.queues = d.queues
      /\ fetcher'.announced = c.announced /\ fetcher'.fetched = c.fetched
      /\ fetcher'.fetchTimer = c.fetchTimer /\ fetcher'.completeTimer = c.completeTimer
  BY <1>4, <1>5 DEF FetcherShape
<1>7. \A h \in Hashes :
        imports'[h] = IF h \in Fitting(c) \ Stale(c) THEN "run" ELSE running[h]
  BY <1>1 DEF c
<1>8. ImportsType(imports')
  BY <1>1, <1>2 DEF Books, ImportsType, c
<1>9. InOnePlace(fetcher', imports')
  BY <1>2, <1>3, <1>4, <1>6, <1>7 DEF Books, InOnePlace
<1>10. Counted(fetcher') /\ Armed(fetcher')
  BY <1>2, <1>4, <1>6 DEF Books, Counted, HeldBy, Armed
<1> QED
  BY <1>6, <1>8, <1>9, <1>10 DEF Books

-----------------------------------------------------------------------------
(* One step.                                                               *)

\* Waiting for one more thing under an armed timer keeps the books.
LEMMA AnnouncedBooks ==
  ASSUME NEW f, NEW run, Books(f, run), NEW m \in [Hashes -> Seq(Announce)],
         NEW t \in BOOLEAN, (\E h \in Hashes : m[h] # <<>>) => t
  PROVE  Books([f EXCEPT !.announced = m, !.fetchTimer = t], run)
<1> DEFINE g == [f EXCEPT !.announced = m, !.fetchTimer = t]
<1>1. FetcherShape(g) /\ g.announced = m /\ g.fetchTimer = t
  BY DEF Books, FetcherShape
<1>2. /\ g.queued = f.queued /\ g.queue = f.queue /\ g.queues = f.queues
      /\ g.fetched = f.fetched /\ g.completeTimer = f.completeTimer
  BY DEF Books, FetcherShape
<1> HIDE DEF g
<1>3. Counted(g) /\ InOnePlace(g, run) /\ Armed(g)
  BY <1>1, <1>2 DEF Books, Counted, HeldBy, InOnePlace, Armed
<1> QED
  BY <1>1, <1>3 DEF Books, g

\* Books through the filters of headers and bodies.
LEMMA FetchedBooks ==
  ASSUME NEW f, NEW run, Books(f, run), NEW m \in [Hashes -> Seq(Announce)],
         NEW t \in BOOLEAN, (\E h \in Hashes : m[h] # <<>>) => t
  PROVE  Books([f EXCEPT !.fetched = m, !.completeTimer = t], run)
<1> DEFINE g == [f EXCEPT !.fetched = m, !.completeTimer = t]
<1>1. FetcherShape(g) /\ g.fetched = m /\ g.completeTimer = t
  BY DEF Books, FetcherShape
<1>2. /\ g.queued = f.queued /\ g.queue = f.queue /\ g.queues = f.queues
      /\ g.announced = f.announced /\ g.fetchTimer = f.fetchTimer
  BY DEF Books, FetcherShape
<1> HIDE DEF g
<1>3. Counted(g) /\ InOnePlace(g, run) /\ Armed(g)
  BY <1>1, <1>2 DEF Books, Counted, HeldBy, InOnePlace, Armed
<1> QED
  BY <1>1, <1>3 DEF Books, g

\* Requests and counts of announcements are no part of the books.
LEMMA RequestBooks ==
  ASSUME NEW f, NEW run, Books(f, run), NEW n,
         NEW u \in [Hashes -> Announce \cup {NoAnnounce}],
         NEW v \in [Hashes -> Announce \cup {NoAnnounce}]
  PROVE  Books([f EXCEPT !.announces = n, !.fetching = u, !.completing = v], run)
<1> DEFINE g == [f EXCEPT !.announces = n, !.fetching = u, !.completing = v]
<1>1. FetcherShape(g)
  BY DEF Books, FetcherShape
<1>2. /\ g.queued = f.queued /\ g.queue = f.queue /\ g.queues = f.queues
      /\ g.announced = f.announced /\ g.fetched = f.fetched
      /\ g.fetchTimer = f.fetchTimer /\ g.completeTimer = f.completeTimer
  BY DEF Books, FetcherShape
<1> HIDE DEF g
<1>3. Counted(g) /\ InOnePlace(g, run) /\ Armed(g)
  BY <1>2 DEF Books, Counted, HeldBy, InOnePlace, Armed
<1> QED
  BY <1>1, <1>3 DEF Books, g

\* A sequence that was appended to is not empty.
LEMMA AppendNotEmpty ==
  ASSUME NEW s \in Seq(Announce), NEW a \in Announce
  PROVE  Append(s, a) # <<>>
BY Len(Append(s, a)) = Len(s) + 1, Len(s) \in Nat, Len(<<>>) = 0

\* The first announcement arms the timer; others find it armed.
LEMMA NotifyBooks ==
  ASSUME Books(fetcher, imports), NEW h \in Hashes, NEW a \in Announce, Notify(h, a)
  PROVE  Books(fetcher', imports')
<1> DEFINE n == [fetcher.announces EXCEPT ![a.origin] = fetcher.announces[a.origin] + 1]
           m == [fetcher.announced EXCEPT ![h] = Append(@, a)]
           f == [fetcher EXCEPT !.announces[a.origin] = fetcher.announces[a.origin] + 1,
                                !.announced[h] = Append(@, a)]
           alone == {g \in Hashes : f.announced[g] # <<>>} = {h}
           after == IF alone THEN rescheduleFetch(f) ELSE f
<1>1. m \in [Hashes -> Seq(Announce)]
  BY DEF Books, FetcherShape
<1>2. /\ f = [fetcher EXCEPT !.announces = n, !.announced = m]
      /\ f.announced = m /\ f.fetchTimer = fetcher.fetchTimer
  BY DEF Books, FetcherShape
<1>3. m[h] # <<>> /\ \A g \in Hashes : g # h => m[g] = fetcher.announced[g]
  <2>1. fetcher.announced \in [Hashes -> Seq(Announce)]
    BY DEF Books, FetcherShape
  <2> QED
    BY <2>1, AppendNotEmpty
<1> HIDE DEF m, n
<1>4. after = [[fetcher EXCEPT !.announces = n, !.fetching = @, !.completing = @]
                 EXCEPT !.announced = m, !.fetchTimer = alone \/ fetcher.fetchTimer]
  <2>1. CASE alone
    <3>1. rescheduleFetch(f) = [f EXCEPT !.fetchTimer = TRUE]
      BY <2>1, <1>2, <1>3, Zenon DEF rescheduleFetch
    <3> QED
      BY <2>1, <3>1, <1>2, ZenonT(30) DEF Books, FetcherShape
  <2>2. CASE ~alone
    BY <2>2, <1>2, Zenon DEF Books, FetcherShape
  <2> QED
    BY <2>1, <2>2
<1>5. alone \/ fetcher.fetchTimer
  <2>1. SUFFICES ASSUME ~alone PROVE fetcher.fetchTimer
    OBVIOUS
  <2>2. PICK g \in Hashes : g # h /\ m[g] # <<>>
    BY <2>1, <1>2, <1>3, Zenon
  <2> QED
    BY <2>2, <1>3 DEF Books, Armed
<1>6. Books(after, imports)
  <2>1. Books([fetcher EXCEPT !.announces = n, !.fetching = @, !.completing = @], imports)
    BY RequestBooks, Zenon DEF Books, FetcherShape
  <2>2. (alone \/ fetcher.fetchTimer) \in BOOLEAN
    BY DEF Books, FetcherShape
  <2> HIDE DEF alone, after, f
  <2> QED
    BY <1>1, <1>4, <1>5, <2>1, <2>2, AnnouncedBooks, Zenon
<1>7. \E g \in {fetcher, after} : Loop(g)
  BY Zenon DEF Notify
<1> HIDE DEF after
<1> QED
  BY <1>6, <1>7, LoopBooks DEF Loop

\* The first fetched header arms the timer; others find it armed.
LEMMA FilterHeaderBooks ==
  ASSUME Books(fetcher, imports), NEW h \in Hashes, NEW peer \in FetchPeers,
         FilterHeader(h, peer)
  PROVE  Books(fetcher', imports')
<1> DEFINE a == fetcher.fetching[h]
           m == [fetcher.fetched EXCEPT ![h] = Append(@, a)]
           f == [fetcher EXCEPT !.fetched[h] = Append(@, a)]
           c == [fetcher EXCEPT !.completing[h] = a]
           alone == {g \in Hashes : f.fetched[g] # <<>>} = {h}
           after == IF alone THEN rescheduleComplete(f) ELSE f
<1>1. a \in Announce
  BY DEF FilterHeader, Books, FetcherShape
<1> HIDE DEF a
<1>2. m \in [Hashes -> Seq(Announce)]
  BY <1>1 DEF Books, FetcherShape
<1>3. /\ f = [fetcher EXCEPT !.fetched = m]
      /\ f.fetched = m /\ f.completeTimer = fetcher.completeTimer
  BY DEF Books, FetcherShape
<1>4. m[h] # <<>> /\ \A g \in Hashes : g # h => m[g] = fetcher.fetched[g]
  <2>1. fetcher.fetched \in [Hashes -> Seq(Announce)]
    BY DEF Books, FetcherShape
  <2> QED
    BY <1>1, <2>1, AppendNotEmpty
<1> HIDE DEF m
<1>5. after = [fetcher EXCEPT !.fetched = m, !.completeTimer = alone \/ fetcher.completeTimer]
  <2>1. CASE alone
    <3>1. rescheduleComplete(f) = [f EXCEPT !.completeTimer = TRUE]
      BY <2>1, <1>3, <1>4, Zenon DEF rescheduleComplete
    <3> QED
      BY <2>1, <3>1, <1>3, Zenon DEF Books, FetcherShape
  <2>2. CASE ~alone
    BY <2>2, <1>3, Zenon DEF Books, FetcherShape
  <2> QED
    BY <2>1, <2>2
<1>6. alone \/ fetcher.completeTimer
  <2>1. SUFFICES ASSUME ~alone PROVE fetcher.completeTimer
    OBVIOUS
  <2>2. PICK g \in Hashes : g # h /\ m[g] # <<>>
    BY <2>1, <1>3, <1>4, Zenon
  <2> QED
    BY <2>2, <1>4, Zenon DEF Books, Armed
<1>7. Books(after, imports)
  <2>1. (alone \/ fetcher.completeTimer) \in BOOLEAN
    BY DEF Books, FetcherShape
  <2> HIDE DEF alone, after, f
  <2> QED
    BY <1>2, <1>5, <1>6, <2>1, FetchedBooks, Zenon
<1>8. Books(c, imports)
  <2>1. [fetcher.completing EXCEPT ![h] = a] \in [Hashes -> Announce \cup {NoAnnounce}]
    BY <1>1 DEF Books, FetcherShape
  <2>2. c = [fetcher EXCEPT !.announces = fetcher.announces, !.fetching = fetcher.fetching,
                            !.completing = [fetcher.completing EXCEPT ![h] = a]]
    BY Zenon DEF Books, FetcherShape
  <2> HIDE DEF c
  <2>3. fetcher.fetching \in [Hashes -> Announce \cup {NoAnnounce}]
    BY DEF Books, FetcherShape
  <2> QED
    BY <2>1, <2>2, <2>3, RequestBooks, Zenon
<1>9. \E g \in {forgetHash(fetcher, h), enqueue(c, peer, h), after} : Loop(g)
  BY Zenon DEF FilterHeader, a
<1> HIDE DEF after, c
<1> QED
  BY <1>7, <1>8, <1>9, LoopBooks, ForgetHashesBooks, EnqueueBooks DEF Loop, forgetHash

\* The timer fires, some announcements turn into requests, and the timer is
\* armed again if others are left.
LEMMA FetchTimerBooks ==
  ASSUME Books(fetcher, imports), FetchTimer
  PROVE  Books(fetcher', imports')
<1> DEFINE fired == [fetcher EXCEPT !.fetchTimer = FALSE]
<1>0. PICK old \in SUBSET {h \in Hashes : fetcher.announced[h] # <<>>} :
        \E a \in [old -> Announce] :
          Loop(rescheduleFetch([forgetHashes(fired, old) EXCEPT !.fetching =
                 [h \in Hashes |-> IF h \in old \ imported THEN a[h] ELSE @[h]]]))
  BY Zenon DEF FetchTimer
<1>1. PICK a \in [old -> Announce] :
        Loop(rescheduleFetch([forgetHashes(fired, old) EXCEPT !.fetching =
               [h \in Hashes |-> IF h \in old \ imported THEN a[h] ELSE @[h]]]))
  BY <1>0, Zenon
<1> DEFINE c == forgetHashes(fetcher, old)
           d == forgetHashes(fired, old)
           u == [h \in Hashes |-> IF h \in old \ imported THEN a[h] ELSE d.fetching[h]]
           t == \E h \in Hashes : c.announced[h] # <<>>
           g == [d EXCEPT !.fetching = u]
           base == [c EXCEPT !.announces = d.announces, !.fetching = u, !.completing = c.completing]
<1>2. /\ FetcherShape(c) /\ Books(c, imports)
  BY ForgetHashesBooks DEF Books
<1>3. /\ DOMAIN d = DOMAIN c /\ d.announced = c.announced /\ d.fetching = c.fetching
      /\ d.fetched = c.fetched /\ d.completing = c.completing
      /\ d.queue = c.queue /\ d.queues = c.queues /\ d.queued = c.queued
      /\ d.fetchTimer = FALSE /\ d.completeTimer = c.completeTimer
  BY DEF forgetHashes, Books, FetcherShape
<1>4. d = [c EXCEPT !.announces = d.announces, !.fetchTimer = FALSE]
  BY ZenonT(30) DEF forgetHashes, Books, FetcherShape
<1>5. u \in [Hashes -> Announce \cup {NoAnnounce}]
  BY <1>2, <1>3 DEF FetcherShape
<1> HIDE DEF c, d, u
<1>6. rescheduleFetch(g)
        = [base EXCEPT !.announced = c.announced, !.fetchTimer = t]
  <2>1. g.announced = c.announced /\ g.fetchTimer = FALSE
    BY <1>2, <1>3 DEF FetcherShape
  <2>2. rescheduleFetch(g) = [g EXCEPT !.fetchTimer = t]
    BY <2>1, Zenon DEF rescheduleFetch
  <2> HIDE DEF t
  <2> QED
    BY <2>2, <1>2, <1>4, Zenon DEF FetcherShape
<1>7. Books(base, imports)
  BY <1>2, <1>5, RequestBooks, Zenon DEF FetcherShape
<1>8. Books(rescheduleFetch(g), imports)
  <2>1. t \in BOOLEAN /\ c.announced \in [Hashes -> Seq(Announce)]
    BY <1>2 DEF FetcherShape
  <2>2. (\E h \in Hashes : c.announced[h] # <<>>) => t
    OBVIOUS
  <2> HIDE DEF t, g, base
  <2>3. Books([base EXCEPT !.announced = c.announced, !.fetchTimer = t], imports)
    BY <2>1, <2>2, <1>7, AnnouncedBooks, Zenon
  <2> QED
    BY <2>3, <1>6
<1>9. Loop(rescheduleFetch(g))
  BY <1>1 DEF d, u
<1> HIDE DEF g
<1> QED
  BY <1>8, <1>9, LoopBooks DEF Loop

\* Likewise for fetched headers and the requests of bodies.
LEMMA CompleteTimerBooks ==
  ASSUME Books(fetcher, imports), CompleteTimer
  PROVE  Books(fetcher', imports')
<1> DEFINE fired == [fetcher EXCEPT !.completeTimer = FALSE]
           ready == {h \in Hashes : fetcher.fetched[h] # <<>>}
<1>1. PICK a \in [ready -> Announce] :
        Loop(rescheduleComplete([forgetHashes(fired, ready) EXCEPT !.completing =
               [h \in Hashes |-> IF h \in ready \ imported THEN a[h] ELSE @[h]]]))
  BY Zenon DEF CompleteTimer
<1> HIDE DEF ready
<1> DEFINE c == forgetHashes(fetcher, ready)
           d == forgetHashes(fired, ready)
           u == [h \in Hashes |-> IF h \in ready \ imported THEN a[h] ELSE d.completing[h]]
           t == \E h \in Hashes : c.fetched[h] # <<>>
           g == [d EXCEPT !.completing = u]
           base == [c EXCEPT !.announces = d.announces, !.fetching = c.fetching, !.completing = u]
<1>2. /\ FetcherShape(c) /\ Books(c, imports)
  BY ForgetHashesBooks DEF Books
<1>3. /\ DOMAIN d = DOMAIN c /\ d.announced = c.announced /\ d.fetching = c.fetching
      /\ d.fetched = c.fetched /\ d.completing = c.completing
      /\ d.queue = c.queue /\ d.queues = c.queues /\ d.queued = c.queued
      /\ d.completeTimer = FALSE /\ d.fetchTimer = c.fetchTimer
  BY DEF forgetHashes, Books, FetcherShape
<1>4. d = [c EXCEPT !.announces = d.announces, !.completeTimer = FALSE]
  BY ZenonT(30) DEF forgetHashes, Books, FetcherShape
<1>5. u \in [Hashes -> Announce \cup {NoAnnounce}]
  BY <1>2, <1>3, ZenonT(30) DEF FetcherShape, ready
<1> HIDE DEF c, d, u
<1>6. rescheduleComplete(g)
        = [base EXCEPT !.fetched = c.fetched, !.completeTimer = t]
  <2>1. g.fetched = c.fetched /\ g.completeTimer = FALSE
    BY <1>2, <1>3 DEF FetcherShape
  <2>2. rescheduleComplete(g) = [g EXCEPT !.completeTimer = t]
    BY <2>1, Zenon DEF rescheduleComplete
  <2> HIDE DEF t
  <2> QED
    BY <2>2, <1>2, <1>4, Zenon DEF FetcherShape
<1>7. Books(base, imports)
  BY <1>2, <1>5, RequestBooks, Zenon DEF FetcherShape
<1>8. Books(rescheduleComplete(g), imports)
  <2>1. t \in BOOLEAN /\ c.fetched \in [Hashes -> Seq(Announce)]
    BY <1>2 DEF FetcherShape
  <2>2. (\E h \in Hashes : c.fetched[h] # <<>>) => t
    OBVIOUS
  <2> HIDE DEF t, g, base
  <2>3. Books([base EXCEPT !.fetched = c.fetched, !.completeTimer = t], imports)
    BY <2>1, <2>2, <1>7, FetchedBooks, Zenon
  <2> QED
    BY <2>3, <1>6
<1>9. Loop(rescheduleComplete(g))
  BY <1>1 DEF d, u
<1> HIDE DEF g
<1> QED
  BY <1>8, <1>9, LoopBooks DEF Loop

\* A propagated block and a body.
LEMMA DeliveryBooks ==
  ASSUME Books(fetcher, imports), NEW h \in Hashes, NEW peer \in FetchPeers,
         Inject(h, peer) \/ FilterBody(h, peer)
  PROVE  Books(fetcher', imports')
<1>1. \E g \in {enqueue(fetcher, peer, h), forgetHash(fetcher, h)} : Loop(g)
  BY Zenon DEF Inject, FilterBody
<1> QED
  BY <1>1, ForgetHashesBooks, EnqueueBooks, LoopBooks DEF Loop, forgetHash

\* An import ends and reports.
LEMMA ImportBooks ==
  ASSUME Books(fetcher, imports), NEW h \in Hashes,
         ImportDone(h) \/ ImportRuns(h) \/ ImportedElsewhere(h)
  PROVE  Books(fetcher', imports')
<1>1. CASE ImportDone(h)
  <2>1. Books(forgetHash(fetcher, h), imports)
    BY ForgetHashesBooks DEF forgetHash
  <2>2. Books(forgetBlock(forgetHash(fetcher, h), h), [imports EXCEPT ![h] = "no"])
    BY <1>1, <2>1, ForgetBlockBooks DEF ImportDone
  <2> QED
    BY <1>1, <2>2, LoopBooks DEF ImportDone
<1>2. CASE ImportRuns(h)
  BY <1>2 DEF ImportRuns, Books, ImportsType, InOnePlace
<1>3. CASE ImportedElsewhere(h)
  BY <1>3 DEF ImportedElsewhere
<1> QED
  BY <1>1, <1>2, <1>3

\* A new fetcher has nothing to account for.
LEMMA FetcherInitBooks == FetcherInit => Books(fetcher, imports)
<1> SUFFICES ASSUME FetcherInit PROVE Books(fetcher, imports)
  OBVIOUS
<1>1. FetcherShape(fetcher)
  <2>1. <<>> \in Seq(Announce)
    OBVIOUS
  <2> QED
    BY <2>1 DEF FetcherInit, FetcherShape
<1>2. InOnePlace(fetcher, imports) /\ Armed(fetcher) /\ ImportsType(imports)
  BY DEF FetcherInit, InOnePlace, Armed, ImportsType
<1>3. ASSUME NEW p \in FetchPeers PROVE fetcher.queues[p] = Cardinality(HeldBy(fetcher, p))
  <2>1. HeldBy(fetcher, p) = {}
    BY FetcherAssumption DEF FetcherInit, HeldBy
  <2> QED
    BY <2>1, FS_EmptySet, Zenon DEF FetcherInit
<1> QED
  BY <1>1, <1>2, <1>3 DEF Books, Counted

\* Every pass of the loop keeps the books.
LEMMA FetcherStep ==
  Books(fetcher, imports) /\ [FetcherNext]_fetcherVars => Books(fetcher, imports)'
<1> SUFFICES ASSUME Books(fetcher, imports), [FetcherNext]_fetcherVars
             PROVE  Books(fetcher', imports')
  OBVIOUS
<1>1. CASE UNCHANGED fetcherVars
  BY <1>1 DEF fetcherVars
<1>2. ASSUME NEW h \in Hashes, NEW a \in Announce, Notify(h, a)
      PROVE  Books(fetcher', imports')
  BY <1>2, NotifyBooks
<1>3. ASSUME NEW h \in Hashes, NEW p \in FetchPeers, FilterHeader(h, p)
      PROVE  Books(fetcher', imports')
  BY <1>3, FilterHeaderBooks
<1>4. ASSUME NEW h \in Hashes, NEW p \in FetchPeers, Inject(h, p) \/ FilterBody(h, p)
      PROVE  Books(fetcher', imports')
  BY <1>4, DeliveryBooks
<1>5. ASSUME NEW h \in Hashes, ImportDone(h) \/ ImportRuns(h) \/ ImportedElsewhere(h)
      PROVE  Books(fetcher', imports')
  BY <1>5, ImportBooks
<1>6. CASE FetchTimer \/ CompleteTimer
  BY <1>6, FetchTimerBooks, CompleteTimerBooks
<1> QED
  BY <1>1, <1>2, <1>3, <1>4, <1>5, <1>6 DEF FetcherNext

\* A queued block is in the queue or being imported, once, and the count of each
\* peer is the number of its queued blocks: enqueue, forgetBlock and the loop
\* never leak a slot of blockLimit.
THEOREM QueueBalances == FetcherSpec => []QueueAccounted
<1>1. Books(fetcher, imports) => QueueAccounted
  BY DEF Books, Counted, HeldBy, InOnePlace, QueueAccounted
<1> QED
  BY <1>1, FetcherInitBooks, FetcherStep, PTL DEF FetcherSpec

\* While a hash is announced or a header fetched, the timer that will ask for
\* the rest is armed, whatever events rescheduleFetch and rescheduleComplete meet.
THEOREM NothingForgotten == FetcherSpec => []TimersArmed
<1>1. Books(fetcher, imports) => TimersArmed
  BY DEF Books, Armed, TimersArmed
<1> QED
  BY <1>1, FetcherInitBooks, FetcherStep, PTL DEF FetcherSpec
=============================================================================
