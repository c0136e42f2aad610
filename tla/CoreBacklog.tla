---------------------------- MODULE CoreBacklog ----------------------------
(***************************************************************************)
(* What one core does with messages and requests that arrive early         *)
(* (smilobftcore/core_backlog.go, core_request.go).  A message of a later  *)
(* view, or one the current state cannot use yet, waits in a priority      *)
(* queue of its sender; every setState posts the messages whose time has   *)
(* come back to the event loop.                                            *)
(*                                                                         *)
(* Of the rounds of consensus only the view, the state and the waiting     *)
(* flag are kept: checkMessage reads nothing else.  Which of the steps a   *)
(* handled message causes depends on quorums and on the block, and is left *)
(* open; so is what messages of other fullnodes, timeouts and new heads    *)
(* cause.  Messages of one sender with the same code and view are one.     *)
(* The core itself stays a member: were it not, its messages would be      *)
(* refused, which is among what handling one may do here.                  *)
(***************************************************************************)
EXTENDS Integers, FiniteSets

CONSTANTS
  Sources,       \* the other fullnodes
  Self,          \* this core, whose own messages reach it as well
  FirstSequence, \* the height the run starts at
  Sequences,     \* how many heights it covers
  MaxRound,      \* bound on the rounds
  MaxMessages    \* bound on the messages the senders have on the way

ASSUME BacklogAssumption ==
  /\ Self \notin Sources
  /\ FirstSequence \in Nat \ {0}
  /\ Sequences \in Nat \ {0}
  /\ MaxRound \in Nat
  /\ MaxMessages \in Nat

VARIABLES
  core,            \* currentView, state and waitingForRoundChange
  members,         \* the sources in the current fullnodeSet
  backlogs,        \* source -> the messages in its queue
  posted,          \* sender -> the messages in backlogEvents on the way
  postponed,       \* the future block behind futurePreprepareTimer, or none
  pendingRequests, \* the heights of the requests in the queue
  received         \* the messages received so far

vars == <<core, members, backlogs, posted, postponed, pendingRequests,
          received>>

Heights == FirstSequence..(FirstSequence + Sequences - 1)

Codes == {"preprepare", "prepare", "commit", "roundchange"}

Message == [code : Codes, sequence : Heights, round : 0..MaxRound]

Senders == Sources \cup {Self}

-----------------------------------------------------------------------------

msgPriority == [preprepare |-> 1, commit |-> 2, prepare |-> 3]

\* The spacing of the float32 values around v: 1 up to 2^24, and twice as
\* much for every further power of two.
Spacing(v) ==
  CHOOSE e \in {2^k : k \in 0..7} : v < 2^24 * e /\ (e = 1 \/ 2^23 * e <= v)

\* The conversion float32(v): to the nearest multiple of the spacing, and of
\* two nearest ones to the even one.
Float32(v) ==
  LET e   == Spacing(v)
      low == v \div e
      up  == 2 * (v % e) > e \/ (2 * (v % e) = e /\ low % 2 = 1)
  IN  e * (IF up THEN low + 1 ELSE low)

\* The mutant of toPriority that forgets msgPriority.
toPriorityOfView(m) ==
  -Float32(m.sequence * 1000 +
             (IF m.code = "roundchange" THEN 0 ELSE m.round * 10))

toPriority(m) ==
  -Float32(m.sequence * 1000 +
             (IF m.code = "roundchange" THEN 0
              ELSE m.round * 10 + msgPriority[m.code]))

viewCmp(m, c) ==
  IF m.sequence # c.sequence THEN m.sequence - c.sequence
  ELSE m.round - c.round

Future(m, c) ==
  IF m.code = "roundchange" THEN m.sequence > c.sequence
  ELSE \/ viewCmp(m, c) > 0
       \/ /\ viewCmp(m, c) = 0
          /\ \/ c.waiting
             \/ c.state = "AcceptRequest" /\ m.code # "preprepare"

Old(m, c) == viewCmp(m, c) < 0

\* checkMessage returns nil.
Accepts(m, c) == ~Future(m, c) /\ ~Old(m, c)

-----------------------------------------------------------------------------

\* What a loop over a queue may take off it when it pops by priority and
\* stops at the first future entry: all entries above the first future one,
\* and of its equals, which the queue keeps in no order, any of those that
\* are not future.
Pops(queue, future, prio) ==
  IF future = {} THEN {queue}
  ELSE LET stop == CHOOSE p \in {prio[m] : m \in future} :
                     \A q \in {prio[m] : m \in future} : q <= p
       IN  {{m \in queue : prio[m] > stop} \cup tied :
              tied \in SUBSET {m \in queue \ future : prio[m] = stop}}

\* The mutant of MessagePops that does not push the future message back.
MessagePopsThrough(queue, c) ==
  {pop \cup {m \in queue : Future(m, c) /\ \A k \in queue :
                            Future(k, c) => toPriority(k) <= toPriority(m)} :
     pop \in Pops(queue, {m \in queue : Future(m, c)},
                  [m \in queue |-> toPriority(m)])}

MessagePops(queue, c) ==
  Pops(queue, {m \in queue : Future(m, c)},
       [m \in queue |-> toPriority(m)])

\* processBacklog in state c: the queue of a source that left the set is
\* deleted; of the entries taken off a queue the old ones are skipped and the
\* others posted.
processBacklog(c, present, handled) ==
  \E pop \in [Sources -> SUBSET UNION {backlogs[s] : s \in Sources}] :
    /\ \A s \in Sources : pop[s] \in MessagePops(backlogs[s], c)
    /\ backlogs' = [s \in Sources |->
                      IF s \in present THEN backlogs[s] \ pop[s] ELSE {}]
    /\ posted' = [s \in Senders |->
                    (posted[s] \ handled[s]) \cup
                      (IF s \in present
                       THEN {m \in pop[s] : Accepts(m, c)} ELSE {})]

\* processPendingRequests: requests of the current height are posted to the
\* event loop, where they are handled like new ones; older ones are skipped.
processPendingRequests(c) ==
  \E pop \in Pops(pendingRequests, {h \in pendingRequests : h > c.sequence},
                  [h \in pendingRequests |-> -Float32(h)]) :
    pendingRequests' = pendingRequests \ pop

NotPostponed == [source |-> Self, messages |-> {}]

Init ==
  /\ core = [sequence |-> FirstSequence, round |-> 0,
             state |-> "AcceptRequest", waiting |-> FALSE]
  /\ members = Sources
  /\ backlogs = [s \in Sources |-> {}]
  /\ posted = [s \in Senders |-> {}]
  /\ postponed = NotPostponed
  /\ pendingRequests = {}
  /\ received = {}

\* The mutant of SetState that leaves the pending requests alone.
SetStateOfBacklog(c, present, handled) ==
  /\ core' = c
  /\ members' = present
  /\ UNCHANGED pendingRequests
  /\ processBacklog(c, present, handled)

\* setState, in the view c is in.
SetState(c, present, handled) ==
  /\ core' = c
  /\ members' = present
  /\ IF c.state = "AcceptRequest" THEN processPendingRequests(c)
     ELSE UNCHANGED pendingRequests
  /\ processBacklog(c, present, handled)

Without(handled) == [s \in Senders |-> posted[s] \ handled[s]]

\* handlePreprepare, handlePrepare and commit move on within the view.
EnterState(state, handled) ==
  /\ ~core.waiting
  /\ SetState([core EXCEPT !.state = state], members, handled)
  /\ UNCHANGED postponed

\* startNewRound in the current height; newRoundChangeTimer stops both timers.
StartNewRound(round, handled) ==
  /\ round > core.round \/ (core.waiting /\ round = core.round)
  /\ SetState([core EXCEPT !.round = round, !.state = "AcceptRequest",
                           !.waiting = FALSE], members, handled)
  /\ postponed' = NotPostponed

\* startNewRound after the head has moved, with the fullnodes of that head.
StartNewSequence(handled) ==
  \E h \in Heights, present \in SUBSET Sources :
    /\ h > core.sequence
    /\ SetState([sequence |-> h, round |-> 0, state |-> "AcceptRequest",
                 waiting |-> FALSE], present, handled)
    /\ postponed' = NotPostponed

\* catchUpRound, which does not go through setState.
CatchUpRound(round, handled) ==
  /\ round > core.round
  /\ core' = [core EXCEPT !.round = round, !.waiting = TRUE]
  /\ posted' = Without(handled)
  /\ postponed' = NotPostponed
  /\ UNCHANGED <<members, backlogs, pendingRequests>>

\* commit when the backend refuses the block: setState, then
\* sendNextRoundChange in the same step.
CommitFails(handled) ==
  /\ ~core.waiting
  /\ core.round < MaxRound
  /\ core' = [core EXCEPT !.state = "Committed", !.round = @ + 1,
                          !.waiting = TRUE]
  /\ processBacklog([core EXCEPT !.state = "Committed"], members, handled)
  /\ postponed' = NotPostponed
  /\ UNCHANGED <<members, pendingRequests>>

\* What handling a message with this code may do to the core.
StepOn(code, handled) ==
  \/ /\ code = "preprepare"
     /\ \/ /\ core.state = "AcceptRequest"
           /\ \E state \in {"Preprepared", "Prepared"} :
                EnterState(state, handled)
        \/ /\ ~core.waiting
           /\ core.round < MaxRound
           /\ CatchUpRound(core.round + 1, handled)
  \/ /\ code = "prepare"
     /\ core.state = "Preprepared"
     /\ EnterState("Prepared", handled)
  \/ /\ code = "commit"
     /\ core.state \in {"Preprepared", "Prepared"}
     /\ EnterState("Committed", handled) \/ CommitFails(handled)
  \/ /\ code = "roundchange"
     /\ \/ \E round \in 0..MaxRound : \/ StartNewRound(round, handled)
                                      \/ CatchUpRound(round, handled)
        \/ StartNewSequence(handled)

\* Leave the core as it is.
Stay(handled) ==
  /\ posted' = Without(handled)
  /\ UNCHANGED <<core, members, backlogs, postponed, pendingRequests>>

\* storeBacklog; the core keeps none of its own messages.
storeBacklog(s, m, handled) ==
  /\ IF s = Self THEN UNCHANGED backlogs
     ELSE backlogs' = [backlogs EXCEPT ![s] = @ \cup {m}]
  /\ posted' = Without(handled)
  /\ UNCHANGED <<core, members, postponed, pendingRequests>>

\* A block of the near future is handled again when its time has come.
Postpone(s, m, handled) ==
  /\ m.code = "preprepare"
  /\ postponed' = [source |-> s, messages |-> {m}]
  /\ posted' = Without(handled)
  /\ UNCHANGED <<core, members, backlogs, pendingRequests>>

handleCheckedMsg(s, m, handled) ==
  \/ Future(m, core) /\ storeBacklog(s, m, handled)
  \/ Old(m, core) /\ Stay(handled)
  \/ /\ Accepts(m, core)
     /\ \/ Stay(handled)
        \/ StepOn(m.code, handled)
        \/ Postpone(s, m, handled)

NoneHandled == [s \in Senders |-> {}]

\* A message arrives.  knownMessages lets each through once.
HandleMsg(s, m) ==
  /\ <<s, m>> \notin received
  /\ Cardinality(received) < MaxMessages
  /\ received' = received \cup {<<s, m>>}
  /\ IF s \in members \cup {Self} THEN handleCheckedMsg(s, m, NoneHandled)
     ELSE Stay(NoneHandled)

\* A backlogEvent arrives; goroutines post them, in any order.
HandleBacklogEvent(s, m) ==
  /\ m \in posted[s]
  /\ handleCheckedMsg(s, m, [NoneHandled EXCEPT ![s] = {m}])
  /\ UNCHANGED received

\* futurePreprepareTimer fires and posts its event.
FirePostponed ==
  /\ postponed.messages # {}
  /\ posted' = [posted EXCEPT ![postponed.source] = @ \cup postponed.messages]
  /\ postponed' = NotPostponed
  /\ UNCHANGED <<core, members, backlogs, pendingRequests, received>>

\* Messages of other fullnodes, timeouts and new heads drive the core too.
HandleOther ==
  /\ \/ \E code \in Codes : StepOn(code, NoneHandled)
     \/ core.round < MaxRound /\ CatchUpRound(core.round + 1, NoneHandled)
  /\ UNCHANGED received

\* handleRequest: a request for a later height waits.
HandleRequest(h) ==
  /\ h > core.sequence
  /\ pendingRequests' = pendingRequests \cup {h}
  /\ UNCHANGED <<core, members, backlogs, posted, postponed, received>>

Next ==
  \/ \E s \in Senders, m \in Message : HandleMsg(s, m)
  \/ \E s \in Senders : \E m \in posted[s] : HandleBacklogEvent(s, m)
  \/ FirePostponed
  \/ HandleOther
  \/ \E h \in Heights : HandleRequest(h)

Spec == Init /\ [][Next]_vars

-----------------------------------------------------------------------------

\* A message the core could handle now is not left in a queue: whoever must
\* wait for it to move on would wait for ever.  msgPriority promises the
\* order for this, "msgPreprepare > msgCommit > msgPrepare".
NoReadyMessageHeld ==
  \A s \in members : \A m \in backlogs[s] : ~Accepts(m, core)

\* Nor is a request for the current height (processPendingRequests).
NoReadyRequestHeld == \A h \in pendingRequests : h > core.sequence

\* processBacklog loses nothing: a message leaves a queue to be posted, or
\* because the view has moved past it, or with its sender.
BacklogLosesNothing ==
  [][\A s \in Sources : \A m \in backlogs[s] \ backlogs'[s] :
       m \in posted'[s] \/ Old(m, core') \/ s \notin members']_vars
=============================================================================
