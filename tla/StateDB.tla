------------------------------- MODULE StateDB -------------------------------
(***************************************************************************)
(* The state database of package core/state: live account objects above   *)
(* the account trie, the journal that lets the EVM revert to a snapshot,   *)
(* and SmiloPay, the allowance that grows with the blocks.  A StateDB is a *)
(* record and each of its methods an operator from StateDB to StateDB; an  *)
(* action is a call the EVM, the state transition or the miner makes.      *)
(*                                                                         *)
(* An account has one storage slot; its storage root is the value in it,   *)
(* and 0 is the empty root.  Code is present (1) or not (0).               *)
(***************************************************************************)
EXTENDS Naturals, Sequences, SequencesExt, TLC

CONSTANTS
  Addrs,             \* addresses
  NoAccount,         \* no object, no account
  MaxSmiloPay(_),    \* the most SmiloPay a balance allows
  SmiloSpeed(_),     \* the SmiloPay a balance earns in a block
  MaxBalance,        \* bounds: balance of an account,
  MaxBlock,          \* block numbers,
  MaxJournal,        \* journal entries of a transaction,
  MaxRevisions       \* and nested snapshots

VARIABLES
  sdb,       \* the StateDB
  stored,    \* stored[a]: storage roots of a in the trie database
  block,     \* number of the block that is being processed
  saved      \* what the state showed at each valid revision

stateDBVars == <<sdb, stored, block, saved>>

\* newObject of an empty Account.
NewObject == [nonce |-> 0, balance |-> 0, pay |-> 0, block |-> 0, slot |-> 0,
              code |-> 0, suicided |-> FALSE, deleted |-> FALSE]

\* New: everything is still in the trie.
NewStateDB(trie) ==
  [trie |-> trie, objects |-> [a \in Addrs |-> NoAccount], dirty |-> {},
   journal |-> <<>>, dirties |-> [a \in Addrs |-> 0], refund |-> 0, logs |-> 0,
   revisions |-> <<>>]

\* An object loaded from the trie.  A storage root that is not in the database
\* opens as the empty trie.
Loaded(s, a) ==
  IF s.trie[a] = NoAccount \/ s.trie[a].slot \in stored[a] THEN s.trie[a]
  ELSE [s.trie[a] EXCEPT !.slot = 0]

\* getStateObject.
Live(s, a) ==
  IF s.objects[a] = NoAccount THEN Loaded(s, a)
  ELSE IF s.objects[a].deleted THEN NoAccount ELSE s.objects[a]

Empty(o) == o.nonce = 0 /\ o.balance = 0 /\ o.code = 0

-----------------------------------------------------------------------------
(* The journal.                                                            *)

\* The entries that count their account as dirty.
Dirtied(e) == e.kind \in {"set", "create", "touch"}

Journaled(s, e) ==
  [s EXCEPT !.journal = Append(@, e),
            !.dirties = IF Dirtied(e) THEN [@ EXCEPT ![e.addr] = @ + 1] ELSE @]

\* What reverting an entry does.  All changes of fields of an account (balance,
\* SmiloPay, block, nonce, storage, code, suicide) put the old values back.
Undone(e, s) ==
  LET t == CASE e.kind = "set" ->
                  [s EXCEPT !.objects[e.addr] = e.prev @@ Live(s, e.addr)]
             [] e.kind = "create" ->
                  [s EXCEPT !.objects[e.addr] = NoAccount,
                            !.dirty = @ \ {e.addr}]
             [] e.kind = "reset" -> [s EXCEPT !.objects[e.addr] = e.prev]
             [] e.kind = "touch" -> s
             [] e.kind = "refund" -> [s EXCEPT !.refund = e.prev]
             [] e.kind = "log" -> [s EXCEPT !.logs = @ - 1]
  IN IF Dirtied(e) THEN [t EXCEPT !.dirties[e.addr] = @ - 1] ELSE t

\* journal.revert: the entries after the first n, from the last.
Reverted(s, n) ==
  [FoldRight(Undone, SubSeq(s.journal, n + 1, Len(s.journal)), s)
     EXCEPT !.journal = SubSeq(@, 1, n)]

-----------------------------------------------------------------------------
(* The methods of an object.                                               *)

createObject(s, a) ==
  LET e == IF Live(s, a) = NoAccount
             THEN [kind |-> "create", addr |-> a]
             ELSE [kind |-> "reset", addr |-> a, prev |-> Live(s, a)]
  IN [Journaled(s, e) EXCEPT !.objects[a] = NewObject]

GetOrNewStateObject(s, a) ==
  IF Live(s, a) = NoAccount THEN createObject(s, a)
  ELSE [s EXCEPT !.objects[a] = Live(s, a)]

\* The setters: journal the old values, set the new ones.
SetFields(s, a, new) ==
  LET old == s.objects[a]
      e == [kind |-> "set", addr |-> a, prev |-> [f \in DOMAIN new |-> old[f]]]
  IN [Journaled(s, e) EXCEPT !.objects[a] = new @@ old]

CalculateSmiloPay(prevBlock, newBlock, prevPay, balance) ==
  LET grown == prevPay + (newBlock - prevBlock) * SmiloSpeed(balance)
  IN IF prevBlock >= newBlock THEN prevPay
     ELSE IF grown > MaxSmiloPay(balance) THEN MaxSmiloPay(balance) ELSE grown

\* Mutant: the block of the last update is set without the journal.
UpdateSmiloPayBlock(s, a) ==
  LET o == s.objects[a]
      pay == CalculateSmiloPay(o.block, block, o.pay, o.balance)
  IN SetFields([s EXCEPT !.objects[a].block = block], a, [pay |-> pay])

UpdateSmiloPay(s, a) ==
  LET o == s.objects[a] IN
    SetFields(s, a, [pay |-> CalculateSmiloPay(o.block, block, o.pay, o.balance),
                     block |-> block])

SetBalance(s, a, v) == SetFields(UpdateSmiloPay(s, a), a, [balance |-> v])

Touched(s, a) == Journaled(s, [kind |-> "touch", addr |-> a])

AddBalance(s, a, amount) ==
  LET t == GetOrNewStateObject(s, a)
      u == UpdateSmiloPay(t, a)
  IN IF amount # 0 THEN SetBalance(u, a, u.objects[a].balance + amount)
     ELSE IF Empty(t.objects[a]) THEN Touched(t, a) ELSE t

SubBalance(s, a, amount) ==
  LET t == GetOrNewStateObject(s, a) IN
    IF amount = 0 THEN t ELSE SetBalance(t, a, t.objects[a].balance - amount)

SubSmiloPay(s, a, amount) ==
  LET t == GetOrNewStateObject(s, a)
      u == UpdateSmiloPay(t, a)
  IN IF amount = 0 THEN t ELSE SetFields(u, a, [pay |-> u.objects[a].pay - amount])

SetNonce(s, a, n) == SetFields(GetOrNewStateObject(s, a), a, [nonce |-> n])
SetCode(s, a) == SetFields(GetOrNewStateObject(s, a), a, [code |-> 1])

\* Mutant: a value that is put back is not journaled.
SetStateOnce(s, a, v) ==
  LET t == GetOrNewStateObject(s, a) IN
    IF v = 0 THEN [t EXCEPT !.objects[a].slot = v] ELSE SetFields(t, a, [slot |-> v])

SetState(s, a, v) ==
  LET t == GetOrNewStateObject(s, a) IN
    IF t.objects[a].slot = v THEN t ELSE SetFields(t, a, [slot |-> v])

Suicide(s, a) ==
  IF Live(s, a) = NoAccount THEN s
  ELSE SetFields(GetOrNewStateObject(s, a), a, [suicided |-> TRUE, balance |-> 0])

\* The balance, and nothing else, is carried over.
CreateAccount(s, a) ==
  LET balance == IF Live(s, a) = NoAccount THEN 0 ELSE Live(s, a).balance IN
    [createObject(s, a) EXCEPT !.objects[a].balance = balance]

AddRefund(s) ==
  [Journaled(s, [kind |-> "refund", prev |-> s.refund]) EXCEPT !.refund = @ + 1]
AddLog(s) == [Journaled(s, [kind |-> "log"]) EXCEPT !.logs = @ + 1]

-----------------------------------------------------------------------------
(* The trie.                                                               *)

\* updateStateObject and deleteStateObject, for the accounts of A.
Written(s, A) ==
  LET gone(a) == s.objects[a].suicided \/ Empty(s.objects[a]) IN
    [s EXCEPT
       !.trie = [a \in Addrs |-> IF a \notin A THEN @[a]
                                 ELSE IF gone(a) THEN NoAccount ELSE s.objects[a]],
       !.objects = [a \in Addrs |-> IF a \in A /\ gone(a)
                                      THEN [@[a] EXCEPT !.deleted = TRUE] ELSE @[a]]]

clearJournalAndRefund(s) ==
  [s EXCEPT !.journal = <<>>, !.dirties = [a \in Addrs |-> 0], !.refund = 0,
            !.revisions = <<>>]

ChangedSinceFinalise(s) ==
  {a \in Addrs : s.dirties[a] > 0 /\ s.objects[a] # NoAccount}

Finalise(s) ==
  LET A == ChangedSinceFinalise(s) IN
    clearJournalAndRefund([Written(s, A) EXCEPT !.dirty = @ \cup A])

\* Commit: the accounts to write, and those whose storage trie goes to the
\* database.
Committing(s) ==
  {a \in Addrs : /\ s.objects[a] # NoAccount
                 /\ \/ a \in s.dirty \/ s.dirties[a] > 0
                    \/ s.objects[a].suicided}
Committed(s) ==
  clearJournalAndRefund([Written(s, Committing(s)) EXCEPT !.dirty = {}])

\* Mutant: objects of earlier transactions are left out.
CopyOfJournal(s) ==
  LET A == ChangedSinceFinalise(s) IN
    [NewStateDB(s.trie) EXCEPT
       !.objects = [a \in Addrs |-> IF a \in A THEN s.objects[a] ELSE NoAccount],
       !.dirty = A, !.refund = s.refund, !.logs = s.logs]

\* Copy: the objects changed since Finalise or since Commit, and the trie.
Copy(s) ==
  LET A == ChangedSinceFinalise(s) \cup s.dirty IN
    [NewStateDB(s.trie) EXCEPT
       !.objects = [a \in Addrs |-> IF a \in A THEN s.objects[a] ELSE NoAccount],
       !.dirty = A, !.refund = s.refund, !.logs = s.logs]

-----------------------------------------------------------------------------
StateDBInit ==
  /\ sdb = NewStateDB([a \in Addrs |-> NoAccount])
  /\ stored = [a \in Addrs |-> {0}]
  /\ block = 1
  /\ saved = <<>>

\* What the getters return: the accounts, the refund and the logs; and the
\* accounts that count as changed.
View(s) == [accounts |-> [a \in Addrs |-> Live(s, a)], refund |-> s.refund,
            logs |-> s.logs, dirty |-> {a \in Addrs : s.dirties[a] > 0}]

Field(a, f) == IF Live(sdb, a) = NoAccount THEN 0 ELSE Live(sdb, a)[f]
GetBalance(a) == Field(a, "balance")
GetSmiloPay(a) ==
  LET o == Live(sdb, a) IN
    IF o = NoAccount THEN 0 ELSE CalculateSmiloPay(o.block, block, o.pay, o.balance)

\* A call of a method.  Nonces go up to 1, and so do logs
\* and the refund counter together.
Call(s) ==
  /\ s.logs + s.refund <= 1
  /\ Len(s.journal) <= MaxJournal
  /\ sdb' = s
  /\ UNCHANGED <<stored, block, saved>>

\* evm.create: an address with a nonce or code is refused; the new account is
\* given its nonce at once.
CreateContract(a) ==
  /\ Field(a, "nonce") = 0 /\ Field(a, "code") = 0
  /\ Call(SetNonce(CreateAccount(sdb, a), a, 1))

\* opSuicide, with a as the beneficiary of b.
SuicideTo(b, a) ==
  /\ GetBalance(a) + GetBalance(b) <= MaxBalance
  /\ Call(Suicide(AddBalance(sdb, a, GetBalance(b)), b))

Calls(a) ==
  \/ \E v \in 0 .. MaxBalance - GetBalance(a) : Call(AddBalance(sdb, a, v))
  \/ \E v \in 0 .. GetBalance(a) : Call(SubBalance(sdb, a, v))
  \/ GetSmiloPay(a) > 0 /\ Call(SubSmiloPay(sdb, a, 1))
  \/ Field(a, "nonce") = 0 /\ Call(SetNonce(sdb, a, 1))
  \/ Field(a, "code") = 0 /\ Call(SetCode(sdb, a))
  \/ \E v \in 0 .. 1 : Call(SetState(sdb, a, v))
  \/ CreateContract(a)
  \/ \E b \in Addrs : SuicideTo(b, a)

Snapshot ==
  /\ Len(sdb.revisions) < MaxRevisions
  /\ sdb' = [sdb EXCEPT !.revisions = Append(@, Len(sdb.journal))]
  /\ saved' = Append(saved, View(sdb))
  /\ UNCHANGED <<stored, block>>

RevertToSnapshot(i) ==
  /\ sdb' = [Reverted(sdb, sdb.revisions[i]) EXCEPT !.revisions = SubSeq(@, 1, i - 1)]
  /\ saved' = SubSeq(saved, 1, i - 1)
  /\ UNCHANGED <<stored, block>>

\* The end of a transaction.
EndTransaction ==
  /\ sdb' = Finalise(sdb)
  /\ saved' = <<>>
  /\ UNCHANGED <<stored, block>>

\* The end of a block: its state is committed, and the next block starts from
\* the new trie.
EndBlock ==
  /\ block < MaxBlock
  /\ block' = block + 1
  /\ stored' = [a \in Addrs |->
       IF a \in Committing(sdb) THEN stored[a] \cup {sdb.objects[a].slot} ELSE stored[a]]
  /\ sdb' = NewStateDB(Committed(sdb).trie)
  /\ saved' = <<>>

StateDBNext ==
  \/ \E a \in Addrs : Calls(a)
  \/ Call(AddRefund(sdb)) \/ Call(AddLog(sdb))
  \/ Snapshot
  \/ \E i \in DOMAIN sdb.revisions : RevertToSnapshot(i)
  \/ EndTransaction \/ EndBlock

StateDBSpec == StateDBInit /\ [][StateDBNext]_stateDBVars

-----------------------------------------------------------------------------
(* Properties.                                                             *)

\* Undoing the journal down to any valid snapshot, whatever was created, reset,
\* touched or destroyed since, and with SmiloPay brought up to date on the
\* way, shows the state that the snapshot was taken of.
RevertRestores ==
  \A i \in DOMAIN sdb.revisions :
    View(Reverted(sdb, sdb.revisions[i])) = saved[i]

\* Finalise visits the accounts counted in journal.dirties only, and reverts
\* count down: every account whose object differs from the trie is counted.
FinaliseMissesNothing ==
  \A a \in Addrs : sdb.dirties[a] = 0 => Live(sdb, a) = sdb.trie[a]

\* The copy the miner and the pool work on shows the same accounts, although
\* only some objects are copied and storage changed since the last Commit is in
\* the objects alone.
CopyShowsSame == View(Copy(sdb)).accounts = View(sdb).accounts
=============================================================================
