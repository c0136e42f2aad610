------------------------------- MODULE Freezer -------------------------------
(***************************************************************************)
(* The ancient store (core/rawdb/freezer.go, freezer_table.go, the opening *)
(* in database.go) with the key-value store it takes old blocks from, the  *)
(* chain that grows and is rewound (SetHead's delFn), and two faults: the  *)
(* process dies, or the machine loses power and files keep only what was   *)
(* flushed, or any longer part of what was written.                        *)
(*                                                                         *)
(* A blob is as many units as its table gives it, each showing its block   *)
(* and its place.                                                          *)
(* A file that does not exist is an empty one.  Cutting a file short is    *)
(* taken to reach the disk at once, and so is what is written to the       *)
(* key-value store; side chain blocks are left out.                        *)
(***************************************************************************)
EXTENDS Integers, FiniteSets, SequencesExt

CONSTANTS
  Tables,               \* names of the tables, in the order AppendAncient writes them
  BlobSize(_),          \* size of a blob in a table
  MaxFileSize,          \* maxFileSize
  ImmutabilityThreshold,
  FreezerBatchLimit,
  CloseFlushes,         \* whether the system flushes a file that is closed
  ShortWrites,          \* how much of a blob a write that fails may leave in the file
  Overlap,              \* whether a rewind may run while the freezer moves blocks
  MaxNumber,            \* bound on the height of the chain
  MaxRewinds,           \* bound on rewinds
  MaxFaults             \* bound on crashes, power losses and failed writes

VARIABLES
  files,    \* the tables' files as the system shows them
  flushed,  \* how much of each file is safe from a power loss
  fz,       \* the freezer object: what each table knows, and frozen
  kv,       \* the chain, and the canonical block the key-value store has at a number
  job,      \* what the freezer thread is doing
  rewind,   \* what SetHead is doing
  faults

freezerVars == <<files, flushed, fz, kv, job, rewind, faults>>

TableSet == ToSet(Tables)
Index == -1                          \* the index among a table's files
FileNums == {Index} \cup 0 .. MaxNumber + 1
NoBlockHere == <<>>

\* A block is its number and how many rewinds had happened when it was made;
\* chain is the blocks from genesis to the head.
BlockAt(n) == kv.chain[n + 1]
Height == Len(kv.chain) - 1

ASSUME FreezerAssumption ==
  /\ \A t \in TableSet : BlobSize(t) \in 1 .. MaxFileSize
  /\ FreezerBatchLimit > 0 /\ CloseFlushes \in BOOLEAN /\ Overlap \in BOOLEAN

------------------------------------------------------------------------------
(* One table: its index, whose entries give the file and the end of each   *)
(* item, and its data files.                                               *)

Entry(file, offset) == [file |-> file, offset |-> offset]
Cut(s, n) == SubSeq(s, 1, n)

\* repair of a table: index entries that point past the end of their file go,
\* then what the last entry does not cover.
Intact(tab) == {i \in DOMAIN tab[Index] :
                  tab[Index][i].offset <= Len(tab[tab[Index][i].file])}

\* Plausible bug: data that no index entry covers is left in the file.
RepairIndex(tab) ==
  [tab EXCEPT ![Index] = Cut(@, CHOOSE i \in Intact(tab) : \A j \in Intact(tab) : j <= i)]

RepairTable(tab) ==
  LET k == CHOOSE i \in Intact(tab) : \A j \in Intact(tab) : j <= i
      last == tab[Index][k]
  IN [tab EXCEPT ![Index] = Cut(@, k), ![last.file] = Cut(@, last.offset)]

\* What the table object knows once it is repaired.
Opened(tab) ==
  [items |-> Len(tab[Index]) - 1, headId |-> Last(tab[Index]).file,
   headBytes |-> Last(tab[Index]).offset]

\* truncate: the index, then the file its last entry is in; files after that
\* one are removed.
TruncateTable(tab, items) ==
  IF Len(tab[Index]) - 1 <= items THEN tab
  ELSE LET last == tab[Index][items + 1]
       IN [f \in FileNums |-> CASE f = Index -> Cut(tab[f], items + 1)
                               [] f > last.file -> <<>>
                               [] f = last.file -> Cut(tab[f], last.offset)
                               [] OTHER -> tab[f]]

\* Retrieve: the block whose blob an item is.
Blob(b, size) == [i \in 1 .. size |-> <<b, i>>]
Retrieve(t, n) ==
  LET tab == files[t]
      end == tab[Index][n + 2]
      start == IF tab[Index][n + 1].file = end.file THEN tab[Index][n + 1].offset ELSE 0
      read == SubSeq(tab[end.file], start + 1, Min({end.offset, Len(tab[end.file])}))
  IN IF read = <<>> \/ read # Blob(read[1][1], BlobSize(t))
     THEN NoBlockHere ELSE read[1][1]

------------------------------------------------------------------------------
Working == fz.up /\ job.pc # "idle"
Rewinding == fz.up /\ rewind.pc # "idle"
IdleJob == [pc |-> "idle", table |-> 1, limit |-> 0, block |-> NoBlockHere, moved |-> {}]
IdleRewind == [pc |-> "idle", target |-> 0, gone |-> {}, left |-> {}]
Closed == [up |-> FALSE, unsure |-> {}, frozen |-> 0,
           tabs |-> [t \in TableSet |-> [items |-> 0, headId |-> 0, headBytes |-> 0]]]
Lengths(tab) == [f \in FileNums |-> Len(tab[f])]
Clip(safe, tab) == [f \in FileNums |-> Min({safe[f], Len(tab[f])})]
EmptyTable == [f \in FileNums |-> IF f = Index THEN <<Entry(0, 0)>> ELSE <<>>]

FreezerInit ==
  /\ files = [t \in TableSet |-> EmptyTable] 
  /\ flushed = [t \in TableSet |-> Lengths(EmptyTable)]
  /\ fz = Closed /\ job = IdleJob /\ rewind = IdleRewind /\ faults = 0
  /\ kv = [chain |-> <<<<0, 0>>>>, rewinds |-> 0,
           at |-> [n \in 0 .. MaxNumber |-> IF n = 0 THEN <<0, 0>> ELSE NoBlockHere]]

\* A block is imported on the head.
Grow ==
  /\ fz.up /\ ~Rewinding /\ Height < MaxNumber
  /\ LET new == <<Height + 1, kv.rewinds>>
     IN kv' = [kv EXCEPT !.chain = Append(@, new), !.at[Height + 1] = new]
  /\ UNCHANGED <<files, flushed, fz, job, rewind, faults>>

------------------------------------------------------------------------------
(* The freezer thread.                                                     *)

\* The next block of the batch: stop at the limit, or if it is not stored.
NextBlock(j, frozen) ==
  IF frozen < j.limit /\ kv.at[frozen] # NoBlockHere
  THEN [j EXCEPT !.pc = "data", !.table = 1, !.block = kv.at[frozen]]
  ELSE [j EXCEPT !.pc = "sync", !.table = 1]

\* freeze finds blocks old enough.
StartBatch ==
  /\ fz.up /\ job.pc = "idle" /\ (Overlap \/ ~Rewinding)
  /\ Height >= ImmutabilityThreshold /\ Height - ImmutabilityThreshold > fz.frozen
  /\ LET limit == IF Height - ImmutabilityThreshold - fz.frozen > FreezerBatchLimit
                  THEN fz.frozen + FreezerBatchLimit ELSE Height - ImmutabilityThreshold
     IN job' = NextBlock([IdleJob EXCEPT !.limit = limit], fz.frozen)
  /\ UNCHANGED <<files, flushed, fz, kv, rewind, faults>>

\* Append, up to the write: a new file is opened, emptied, if the blob does not
\* fit, and the old one closed.
WithRoom(t) ==
  LET tab == fz.tabs[t]
  IN IF tab.headBytes + BlobSize(t) <= MaxFileSize
     THEN [tab |-> tab, files |-> files, flushed |-> flushed]
     ELSE [tab |-> [tab EXCEPT !.headId = @ + 1, !.headBytes = 0],
           files |-> [files EXCEPT ![t][tab.headId + 1] = <<>>],
           flushed |-> [flushed EXCEPT ![t][tab.headId] = IF CloseFlushes THEN tab.headBytes ELSE @,
                                       ![t][tab.headId + 1] = 0]]

\* The blob goes to the end of the file.
AppendData ==
  /\ fz.up /\ job.pc = "data"
  /\ LET t == Tables[job.table]
         room == WithRoom(t)
     IN /\ fz.tabs[t].items = fz.frozen
        /\ files' = [room.files EXCEPT ![t][room.tab.headId] = @ \o Blob(job.block, BlobSize(t))]
        /\ flushed' = room.flushed
        /\ fz' = [fz EXCEPT !.tabs[t] = [room.tab EXCEPT !.headBytes = @ + BlobSize(t)]]
  /\ job' = [job EXCEPT !.pc = "index"]
  /\ UNCHANGED <<kv, rewind, faults>>

\* The index entry; after the last table the block is frozen.
AppendIndex ==
  /\ fz.up /\ job.pc = "index"
  /\ LET t == Tables[job.table]
         done == job.table = Len(Tables)
         frozen == IF done THEN fz.frozen + 1 ELSE fz.frozen
     IN /\ files' = [files EXCEPT ![t][Index] =
                       Append(@, Entry(fz.tabs[t].headId, fz.tabs[t].headBytes))]
        /\ fz' = [fz EXCEPT !.tabs[t].items = @ + 1, !.frozen = frozen]
        /\ job' = IF done
                  THEN NextBlock([job EXCEPT !.moved = @ \cup {fz.frozen}], frozen)
                  ELSE [job EXCEPT !.pc = "data", !.table = @ + 1]
  /\ UNCHANGED <<flushed, kv, rewind, faults>>

\* repair of the freezer: every table is cut to the shortest.
Shortest(tabs) == CHOOSE n \in {tabs[t].items : t \in TableSet} :
                    \A t \in TableSet : n <= tabs[t].items
RepairFreezer(fs, tabs) ==
  LET n == Shortest(tabs)
  IN [files |-> [t \in TableSet |-> TruncateTable(fs[t], n)],
      tabs |-> [t \in TableSet |-> IF tabs[t].items <= n THEN tabs[t]
                                   ELSE Opened(TruncateTable(fs[t], n))],
      frozen |-> n]

\* Append fails, because the disk refuses the blob or because a rewind has
\* changed the table meanwhile: the tables are repaired and the batch ends.
Rollback(fs, safe, tabs) ==
  LET r == RepairFreezer(fs, tabs)
  IN /\ files' = r.files /\ flushed' = [t \in TableSet |-> Clip(safe[t], r.files[t])]
     /\ fz' = [fz EXCEPT !.tabs = r.tabs, !.frozen = r.frozen]

AppendFails ==
  /\ fz.up /\ job.pc = "data"
  /\ LET t == Tables[job.table]
         room == WithRoom(t)
     IN IF fz.tabs[t].items # fz.frozen
        THEN Rollback(files, flushed, fz.tabs) /\ UNCHANGED faults
        ELSE /\ faults < MaxFaults /\ faults' = faults + 1
             /\ \E k \in {n \in ShortWrites : n < BlobSize(t)} :
                  Rollback([room.files EXCEPT ![t][room.tab.headId] =
                              @ \o Cut(Blob(job.block, BlobSize(t)), k)],
                           room.flushed, [fz.tabs EXCEPT ![t] = room.tab])
  /\ job' = [job EXCEPT !.pc = "sync", !.table = 1]
  /\ UNCHANGED <<kv, rewind>>

\* Plausible bug: only the index is flushed.
SyncIndex ==
  /\ fz.up /\ job.pc = "sync"
  /\ flushed' = [flushed EXCEPT ![Tables[job.table]][Index] = Len(files[Tables[job.table]][Index])]
  /\ job' = IF job.table = Len(Tables) THEN [job EXCEPT !.pc = "wipe"]
            ELSE [job EXCEPT !.table = @ + 1]
  /\ UNCHANGED <<files, fz, kv, rewind, faults>>

\* Sync, table by table: the index and the file that is written to.
Sync ==
  /\ fz.up /\ job.pc = "sync"
  /\ LET t == Tables[job.table]
         head == fz.tabs[t].headId
     IN flushed' = [flushed EXCEPT ![t][Index] = Len(files[t][Index]),
                                   ![t][head] = Len(files[t][head])]
  /\ job' = IF job.table = Len(Tables) THEN [job EXCEPT !.pc = "wipe"]
            ELSE [job EXCEPT !.table = @ + 1]
  /\ UNCHANGED <<files, fz, kv, rewind, faults>>

\* What was moved leaves the key-value store, but for the genesis block.
Wipe ==
  /\ fz.up /\ job.pc = "wipe"
  /\ kv' = [kv EXCEPT !.at = [n \in DOMAIN @ |->
                                IF n \in job.moved \ {0} THEN NoBlockHere ELSE @[n]]]
  /\ job' = IdleJob
  /\ UNCHANGED <<files, flushed, fz, rewind, faults>>

------------------------------------------------------------------------------
(* SetHead: header by header, the head goes down one block, then delFn     *)
(* truncates the freezer if the header was frozen.  What the key-value     *)
(* store holds of the headers goes in one batch at the end.                *)

SetHead ==
  /\ fz.up /\ ~Rewinding /\ (Overlap \/ ~Working) /\ kv.rewinds < MaxRewinds
  /\ \E n \in 0 .. Height - 1 :
       rewind' = [IdleRewind EXCEPT !.pc = "head", !.target = n]
  /\ kv' = [kv EXCEPT !.rewinds = @ + 1]
  /\ UNCHANGED <<files, flushed, fz, job, faults>>

\* The number delFn keeps the freezer to.
Kept(num) == num + 1

RewindHead ==
  /\ Rewinding /\ rewind.pc = "head" /\ Height > rewind.target
  /\ kv' = [kv EXCEPT !.chain = Front(@)]
  /\ rewind' = [rewind EXCEPT !.gone = @ \cup {Height},
                              !.pc = IF Kept(Height) < fz.frozen THEN "truncate" ELSE "head",
                              !.left = TableSet]
  /\ UNCHANGED <<files, flushed, fz, job, faults>>

\* TruncateAncients, the tables in any order.
TruncateOne ==
  /\ Rewinding /\ rewind.pc = "truncate" /\ rewind.left # {}
  /\ \E t \in rewind.left :
       LET items == Kept(Height + 1)
       IN /\ files' = [files EXCEPT ![t] = TruncateTable(@, items)]
          /\ fz' = IF fz.tabs[t].items <= items THEN fz
                   ELSE [fz EXCEPT !.tabs[t] = Opened(TruncateTable(files[t], items))]
          /\ flushed' = [flushed EXCEPT ![t] = Clip(@, files'[t])]
          /\ rewind' = [rewind EXCEPT !.left = @ \ {t}]
  /\ UNCHANGED <<kv, job, faults>>

Truncated ==
  /\ Rewinding /\ rewind.pc = "truncate" /\ rewind.left = {}
  /\ fz' = [fz EXCEPT !.frozen = Kept(Height + 1)]
  /\ rewind' = [rewind EXCEPT !.pc = "head"]
  /\ UNCHANGED <<files, flushed, kv, job, faults>>

DeleteHeaders ==
  /\ Rewinding /\ rewind.pc = "head" /\ Height = rewind.target
  /\ kv' = [kv EXCEPT !.at = [n \in DOMAIN @ |-> IF n \in rewind.gone THEN NoBlockHere ELSE @[n]]]
  /\ rewind' = IdleRewind
  /\ UNCHANGED <<files, flushed, fz, job, faults>>

------------------------------------------------------------------------------
(* Faults, and opening the store again.                                    *)

Crash ==
  /\ fz.up /\ faults < MaxFaults /\ faults' = faults + 1
  /\ fz' = Closed /\ job' = IdleJob /\ rewind' = IdleRewind
  /\ UNCHANGED <<files, flushed, kv>>

\* After a power loss a file is what was flushed or any longer part of it.
PowerLoss ==
  /\ fz.up /\ faults < MaxFaults /\ faults' = faults + 1
  /\ fz' = [Closed EXCEPT !.unsure = {x \in TableSet \X FileNums :
                                        Len(files[x[1]][x[2]]) # flushed[x[1]][x[2]]}]
  /\ job' = IdleJob /\ rewind' = IdleRewind
  /\ UNCHANGED <<files, flushed, kv>>

\* One of the files that were not flushed.
Survive ==
  /\ fz.unsure # {}
  /\ LET x == CHOOSE y \in fz.unsure : TRUE
     IN /\ \E k \in flushed[x[1]][x[2]] .. Len(files[x[1]][x[2]]) :
             /\ files' = [files EXCEPT ![x[1]][x[2]] = Cut(@, k)]
             /\ flushed' = [flushed EXCEPT ![x[1]][x[2]] = k]
        /\ fz' = [fz EXCEPT !.unsure = @ \ {x}]
  /\ UNCHANGED <<kv, job, rewind, faults>>

\* NewDatabaseWithFreezer opens and repairs, and refuses a gap between the
\* stores.
Gap(frozen) ==
  IF frozen = 0 THEN Height > 0 /\ kv.at[1] = NoBlockHere
  ELSE frozen \in DOMAIN kv.at /\ kv.at[frozen] = NoBlockHere /\ Height > frozen - 1

\* The store after the repairs of newFreezer.
Fixed == [t \in TableSet |-> RepairTable(files[t])]
Reopened == RepairFreezer(Fixed, [t \in TableSet |-> Opened(Fixed[t])])

\* NewBlockChain then cuts a freezer that is ahead of the head.
Open ==
  /\ ~fz.up /\ fz.unsure = {}
  /\ LET r == Reopened
         n == IF Height < r.frozen - 1 THEN Height + 1 ELSE r.frozen
         cut == [t \in TableSet |-> TruncateTable(r.files[t], n)]
     IN /\ ~Gap(r.frozen)
        /\ files' = cut
        /\ flushed' = [t \in TableSet |->
                         LET tab == Opened(Fixed[t])
                         IN Clip([flushed[t] EXCEPT ![Index] = tab.items + 1,
                                                    ![tab.headId] = tab.headBytes], cut[t])]
        /\ fz' = [Closed EXCEPT !.up = TRUE, !.frozen = n,
                                !.tabs = [t \in TableSet |-> Opened(cut[t])]]
  /\ UNCHANGED <<kv, job, rewind, faults>>

FreezerNext ==
  \/ Grow \/ StartBatch \/ AppendData \/ AppendIndex \/ AppendFails \/ Sync \/ Wipe
  \/ SetHead \/ RewindHead \/ TruncateOne \/ Truncated \/ DeleteHeaders
  \/ Crash \/ PowerLoss \/ Survive \/ Open

FreezerSpec == FreezerInit /\ [][FreezerNext]_freezerVars

------------------------------------------------------------------------------
\* Whatever fails while blocks move from one store to the other, every block of
\* the chain is in the key-value store or at its number in every table, and the
\* stores can be opened again.
NothingLost ==
  /\ fz.up /\ ~Rewinding =>
       \A n \in 0 .. Height :
         \/ kv.at[n] = BlockAt(n)
         \/ n < fz.frozen /\ \A t \in TableSet : Retrieve(t, n) = BlockAt(n)
  /\ ~fz.up /\ fz.unsure = {} => ~Gap(Reopened.frozen)

\* The tables agree: what they hold at a frozen number is of one block.
TablesAgree ==
  fz.up /\ ~Rewinding =>
    \A n \in 0 .. fz.frozen - 1, t \in TableSet :
      Retrieve(t, n) # NoBlockHere /\ Retrieve(t, n) = Retrieve(Tables[1], n)

\* "Truncate all relative data(header, total difficulty, body, receipt and
\* canonical hash) from ancient store": no number shows a block of an abandoned chain.
Canonical(n) ==
  LET hashes == Tables[1]
      old == IF n < fz.frozen THEN Retrieve(hashes, n) ELSE NoBlockHere
  IN IF old # NoBlockHere THEN old ELSE kv.at[n]

CanonicalIsChain ==
  fz.up /\ ~Rewinding /\ ~Working => \A n \in 0 .. Height : Canonical(n) = BlockAt(n)
=============================================================================
