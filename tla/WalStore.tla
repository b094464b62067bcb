------------------------------- MODULE WalStore -------------------------------
(***************************************************************************)
(* The file backend of chiffondb: storage/file.rs (DatabaseFile and its    *)
(* StorageBackend::File), storage/wal.rs (WalFile), and the transaction    *)
(* calls of api/mod.rs that take and restore a snapshot of them.           *)
(*                                                                         *)
(* A page write is appended to the log and put in the cache; the main file *)
(* changes only in a checkpoint, which copies the latest entry of each     *)
(* logged page, syncs, cuts the log and clears the index.  A checkpoint is *)
(* several steps here, because the process can die between any two of      *)
(* them, or one of them can fail and leave the rest undone.  Every other   *)
(* call runs alone (the API takes &mut self) and is one step.              *)
(*                                                                         *)
(* The files are main and wal.  Everything else is memory.                 *)
(***************************************************************************)
EXTENDS Naturals, Sequences, FiniteSets

CONSTANTS
    MaxPage,      \* bound: highest page number
    MaxWal,       \* bound: longest log, in entries
    Capacity,     \* pages the cache holds (OpenOptions::cache_capacity)
    Values,       \* page contents the upper layers write
    InitHeader,   \* FileHeader::new()
    Zero,         \* a page of zero bytes
    Absent,       \* beyond the end of the file
    NotCached,
    Torn,         \* a log entry whose checksum does not match
    NoSnapshot

ASSUME MaxPageAssumption  == MaxPage \in Nat
ASSUME MaxWalAssumption   == MaxWal \in Nat
ASSUME CapacityAssumption == Capacity \in Nat \ {0}
ASSUME ValuesAssumption   == /\ InitHeader \in Values
                             /\ Absent \notin Values \cup {Zero}
                             /\ Zero \notin Values
                             /\ NotCached \notin Values \cup {Zero, Absent}
ASSUME SentinelAssumption == /\ NoSnapshot \notin [0 .. MaxPage -> Values \cup {Zero, Absent}]
                             /\ Torn \notin [page : 0 .. MaxPage, data : Values \cup {Zero, Absent}]
                             /\ NoSnapshot \notin [walLen : Nat, count : Nat,
                                                  header : Values \cup {Zero, Absent}]

Pages    == 0 .. MaxPage
Contents == Values \cup {Zero, Absent}

VARIABLES
    main,         \* pages of the .chiffon file
    wal,          \* entries of the .chiffon-wal file
    offsets,      \* WalFile::offsets: index of a page's latest entry, 0 if none
    walLen,       \* WalFile::len, in entries
    cache,        \* PageCache
    header,       \* DatabaseFile::header
    count,        \* DatabaseFile::logical_page_count
    txn,          \* Connection::pending_snapshot
    op,           \* the snapshot held by a schema operation
    pc,           \* where the running call is
    todo,         \* pages the running checkpoint has still to copy
    caller        \* what the running checkpoint belongs to

files  == <<main, wal>>
memory == <<offsets, walLen, cache, header, count>>
vars   == <<main, wal, offsets, walLen, cache, header, count, txn, op, pc, todo, caller>>

-----------------------------------------------------------------------------
(* The log. *)

LogEntry(p, v) == [page |-> p, data |-> v]
Entries        == [page : Pages, data : Contents]

\* 4104 zero bytes: the additive checksum of page 0 and a zero page is zero.
ZeroEntry == LogEntry(0, Zero)

\* Entries load_index accepts: it stops at the first bad checksum.
ValidLen(w) ==
    CHOOSE n \in 0 .. Len(w) :
        /\ \A i \in 1 .. n : w[i] # Torn
        /\ n = Len(w) \/ w[n + 1] = Torn

\* Of the first n entries of w, the last one for page p; 0 if there is none.
LastEntry(w, n, p) ==
    LET last == {i \in 1 .. n : /\ w[i].page = p
                                /\ \A j \in (i + 1) .. n : w[j].page # p}
    IN  IF last = {} THEN 0 ELSE CHOOSE i \in last : TRUE

LoadIndex(w)  == [p \in Pages |-> LastEntry(w, ValidLen(w), p)]
EmptyIndex    == [p \in Pages |-> 0]
Logged        == {p \in Pages : offsets[p] # 0}

\* Writing entry number n + 1 of the log file, over whatever is there.
WriteAt(w, n, e) ==
    [i \in 1 .. (IF Len(w) > n THEN Len(w) ELSE n + 1) |-> IF i = n + 1 THEN e ELSE w[i]]

\* File::set_len: cuts the file, or extends it with zeros.
SetLen(w, n) == [i \in 1 .. n |-> IF i <= Len(w) THEN w[i] ELSE ZeroEntry]

\* What the pages are once the first n entries of w are copied over m.
View(w, n, m) ==
    [p \in Pages |-> LET i == LastEntry(w, n, p) IN IF i = 0 THEN m[p] ELSE w[i].data]

\* What a recovery from the files finds, now.
Recovered == View(wal, ValidLen(wal), main)

-----------------------------------------------------------------------------
(* The main file and the cache. *)

\* Writing page p of the main file; a gap before it reads as zeros.
WriteMain(m, p, v) ==
    [q \in Pages |-> IF q = p THEN v
                     ELSE IF q < p /\ m[q] = Absent THEN Zero ELSE m[q]]

MainLen(m) == CHOOSE n \in 0 .. MaxPage + 1 : \A p \in Pages : m[p] # Absent <=> p < n

EmptyCache == [p \in Pages |-> NotCached]
Cached(c)  == {p \in Pages : c[p] # NotCached}

\* The caches a put may leave.  Which page is dropped when the cache is full is
\* the business of module PageCache; here it may be any.
CachePut(c, p, v) ==
    IF c[p] # NotCached \/ Cardinality(Cached(c)) < Capacity
    THEN {[c EXCEPT ![p] = v]}
    ELSE {[c EXCEPT ![q] = NotCached, ![p] = v] : q \in Cached(c)}

\* Where a read that misses the cache finds the page: the log, then the file.
Stored(p) == IF offsets[p] # 0 THEN wal[offsets[p]].data ELSE main[p]

ReadResult(p) == IF cache[p] # NotCached THEN cache[p] ELSE Stored(p)
-----------------------------------------------------------------------------
(* Reading and writing pages. *)

\* Between two calls of the API, and between two page accesses of one call.
Idle == pc = "ready"

ReadPage(p) ==
    /\ Idle /\ p < count
    /\ cache[p] = NotCached
    /\ cache' \in CachePut(cache, p, Stored(p))
    /\ UNCHANGED <<main, wal, offsets, walLen, header, count, txn, op, pc, todo, caller>>

\* WalFile::write, then the cache: what write_page and append_page share.
LogPage(p, v) ==
    /\ walLen < MaxWal
    /\ wal' = WriteAt(wal, walLen, LogEntry(p, v))
    /\ offsets' = [offsets EXCEPT ![p] = walLen + 1]
    /\ walLen' = walLen + 1
    /\ cache' \in CachePut(cache, p, v)

WritePage(p, v) ==
    /\ Idle /\ p # 0 /\ p < count
    /\ LogPage(p, v)
    /\ UNCHANGED <<main, header, count, txn, op, pc, todo, caller>>

\* A header field is set in memory and write_header logs the new page 0.
WriteHeader(v) ==
    /\ Idle
    /\ header' = v
    /\ LogPage(0, v)
    /\ UNCHANGED <<main, count, txn, op, pc, todo, caller>>

AppendPage(v) ==
    /\ Idle /\ count <= MaxPage
    /\ LogPage(count, v)
    /\ count' = count + 1
    /\ UNCHANGED <<main, header, txn, op, pc, todo, caller>>

-----------------------------------------------------------------------------
(* Snapshots. *)

Snapshot == [walLen |-> walLen, count |-> count, header |-> header]

\* Mutants of Restore: the cache, or the header, survives the rollback.
RestoreKeepsCache(s) ==
    /\ count' = s.count /\ header' = s.header
    /\ wal' = SetLen(wal, s.walLen)
    /\ offsets' = LoadIndex(wal') /\ walLen' = ValidLen(wal')
    /\ UNCHANGED cache

RestoreKeepsHeader(s) ==
    /\ count' = s.count /\ cache' = EmptyCache
    /\ wal' = SetLen(wal, s.walLen)
    /\ offsets' = LoadIndex(wal') /\ walLen' = ValidLen(wal')
    /\ UNCHANGED header

\* DatabaseFile::restore with WalFile::truncate_to.
Restore(s) ==
    /\ count' = s.count
    /\ header' = s.header
    /\ cache' = EmptyCache
    /\ wal' = SetLen(wal, s.walLen)
    /\ offsets' = LoadIndex(wal')
    /\ walLen' = ValidLen(wal')

BeginTransaction ==
    /\ Idle /\ txn = NoSnapshot /\ op = NoSnapshot
    /\ txn' = Snapshot
    /\ UNCHANGED <<files, memory, op, pc, todo, caller>>

RollbackTransaction ==
    /\ Idle /\ txn # NoSnapshot /\ op = NoSnapshot
    /\ Restore(txn)
    /\ txn' = NoSnapshot
    /\ UNCHANGED <<main, op, pc, todo, caller>>

\* apply_schema, rename_field and change_field_type hold a snapshot of their own.
BeginOperation ==
    /\ Idle /\ op = NoSnapshot
    /\ op' = Snapshot
    /\ UNCHANGED <<files, memory, txn, pc, todo, caller>>

FinishOperation ==
    /\ Idle /\ op # NoSnapshot
    /\ op' = NoSnapshot
    /\ UNCHANGED <<files, memory, txn, pc, todo, caller>>

AbandonOperation ==
    /\ Idle /\ op # NoSnapshot
    /\ Restore(op)
    /\ op' = NoSnapshot
    /\ UNCHANGED <<main, txn, pc, todo, caller>>

-----------------------------------------------------------------------------
(* The checkpoint. *)

\* Everything in memory is gone: the process died, or the handle was dropped.
Forget ==
    /\ offsets' = EmptyIndex /\ walLen' = 0 /\ cache' = EmptyCache
    /\ header' = Absent /\ count' = 0
    /\ txn' = NoSnapshot /\ op' = NoSnapshot
    /\ pc' = "down" /\ todo' = {} /\ caller' = "none"

\* StorageBackend::flush does nothing when the log is empty.
StartFlush(who) ==
    IF Logged = {}
    THEN UNCHANGED <<pc, todo, caller>>
    ELSE pc' = "prealloc" /\ todo' = Logged /\ caller' = who

Flush ==
    /\ Idle /\ txn = NoSnapshot /\ op = NoSnapshot /\ Logged # {}
    /\ StartFlush("flush")
    /\ UNCHANGED <<files, memory, txn, op>>

\* commit_transaction takes the snapshot before it flushes.
CommitTransaction ==
    /\ Idle /\ txn # NoSnapshot /\ op = NoSnapshot
    /\ txn' = NoSnapshot
    /\ StartFlush("flush")
    /\ UNCHANGED <<files, memory, op>>

\* Connection::close rolls back a pending transaction, then flushes and drops.
Close ==
    /\ Idle /\ op = NoSnapshot
    /\ IF txn = NoSnapshot THEN UNCHANGED <<wal, memory>> ELSE Restore(txn)
    /\ txn' = NoSnapshot
    /\ pc' = "closing"
    /\ UNCHANGED <<main, op, todo, caller>>

FlushOnClose ==
    /\ pc = "closing"
    /\ IF Logged = {}
       THEN Forget
       ELSE StartFlush("close") /\ UNCHANGED <<memory, txn, op>>
    /\ UNCHANGED files

\* flush extends the main file with zero pages up to logical_page_count.
Preallocate ==
    /\ pc = "prealloc"
    /\ IF MainLen(main) < count
       THEN main' = WriteMain(main, MainLen(main), Zero) /\ UNCHANGED pc
       ELSE pc' = "copy" /\ UNCHANGED main
    /\ UNCHANGED <<wal, memory, txn, op, todo, caller>>

\* Mutant of CopyPage: the loop does not advance.
CopyPageForever(p) ==
    /\ pc = "copy" /\ p \in todo
    /\ main' = WriteMain(main, p, wal[offsets[p]].data)
    /\ UNCHANGED <<wal, memory, txn, op, pc, todo, caller>>

\* The index is a hash map: pages are copied in any order.
CopyPage(p) ==
    /\ pc = "copy" /\ p \in todo
    /\ main' = WriteMain(main, p, wal[offsets[p]].data)
    /\ todo' = todo \ {p}
    /\ UNCHANGED <<wal, memory, txn, op, pc, caller>>

\* Mutant of SyncMain: the loop over the index ends early.
SyncMainEarly ==
    /\ pc = "copy"
    /\ todo' = {} /\ pc' = "synced"
    /\ UNCHANGED <<files, memory, txn, op, caller>>

SyncMain ==
    /\ pc = "copy" /\ todo = {}
    /\ pc' = "synced"
    /\ UNCHANGED <<files, memory, txn, op, todo, caller>>

TruncateWal ==
    /\ pc = "synced"
    /\ wal' = SetLen(wal, 0)
    /\ pc' = "truncated"
    /\ UNCHANGED <<main, memory, txn, op, todo, caller>>

\* The log is synced and the index cleared; then the caller goes on.
FinishCheckpoint ==
    /\ pc = "truncated"
    /\ IF caller = "close"
       THEN Forget
       ELSE /\ offsets' = EmptyIndex /\ walLen' = 0
            /\ pc' = IF caller = "open" THEN "loaded" ELSE "ready"
            /\ caller' = "none"
            /\ UNCHANGED <<cache, header, count, txn, op, todo>>
    /\ UNCHANGED files

\* A write or the sync of the main file fails: flush returns the error and the
\* log and its index stay as they are.
FlushError ==
    /\ pc \in {"prealloc", "copy"} /\ caller = "flush"
    /\ pc' = "ready" /\ todo' = {} /\ caller' = "none"
    /\ UNCHANGED <<files, memory, txn, op>>

-----------------------------------------------------------------------------
(* Death of the process, and opening. *)

\* Also the end of an open or a close that returns an error.
Crash ==
    /\ pc # "down"
    /\ Forget
    /\ UNCHANGED files

\* WalFile::open, and the checkpoint open_inner makes before it reads the header.
Open ==
    /\ pc = "down"
    /\ walLen' = ValidLen(wal)
    /\ offsets' = LoadIndex(wal)
    /\ IF offsets' = EmptyIndex
       THEN pc' = "loaded" /\ UNCHANGED <<todo, caller>>
       ELSE /\ pc' = "copy"
            /\ todo' = {p \in Pages : offsets'[p] # 0}
            /\ caller' = "open"
    /\ UNCHANGED <<files, cache, header, count, txn, op>>

\* The page of zeros has no magic number: with it, open never gets past here.
ReadHeader ==
    /\ pc = "loaded"
    /\ main[0] # Zero
    /\ header' = main[0]
    /\ count' = MainLen(main)
    /\ pc' = "ready"
    /\ UNCHANGED <<files, offsets, walLen, cache, txn, op, todo, caller>>

-----------------------------------------------------------------------------
Init ==
    /\ main = [p \in Pages |-> IF p = 0 THEN InitHeader ELSE Absent]
    /\ wal = <<>>
    /\ offsets = EmptyIndex /\ walLen = 0
    /\ cache = EmptyCache
    /\ header = InitHeader /\ count = 1
    /\ txn = NoSnapshot /\ op = NoSnapshot
    /\ pc = "ready" /\ todo = {} /\ caller = "none"

Next ==
    \/ \E p \in Pages : ReadPage(p) \/ CopyPage(p)
    \/ \E p \in Pages, v \in Values : WritePage(p, v)
    \/ \E v \in Values : WriteHeader(v) \/ AppendPage(v)
    \/ BeginTransaction \/ RollbackTransaction \/ CommitTransaction
    \/ BeginOperation \/ FinishOperation \/ AbandonOperation
    \/ Flush \/ Close \/ FlushOnClose
    \/ Preallocate \/ SyncMain \/ TruncateWal \/ FinishCheckpoint \/ FlushError
    \/ Crash \/ Open \/ ReadHeader

Spec == Init /\ [][Next]_vars

\* The steps a running checkpoint or open is made of.
Progress ==
    \/ \E p \in Pages : CopyPage(p)
    \/ FlushOnClose \/ Preallocate \/ SyncMain \/ TruncateWal \/ FinishCheckpoint
    \/ ReadHeader

\* They follow one another in one thread: none of them waits for anything.
FairSpec == Spec /\ WF_vars(Progress)

-----------------------------------------------------------------------------
(* Properties. *)

Snapshots == [walLen : Nat, count : 0 .. MaxPage + 1, header : Contents]

\* The type invariant.
TypeOK ==
    /\ main \in [Pages -> Contents]
    /\ wal \in Seq(Entries \cup {Torn})
    /\ offsets \in [Pages -> Nat] /\ walLen \in Nat
    /\ cache \in [Pages -> Contents \cup {NotCached}]
    /\ header \in Contents /\ count \in 0 .. MaxPage + 1
    /\ txn \in Snapshots \cup {NoSnapshot}
    /\ op \in Snapshots \cup {NoSnapshot}
    /\ pc \in {"ready", "closing", "prealloc", "copy", "synced", "truncated", "loaded", "down"}
    /\ todo \subseteq Pages
    /\ caller \in {"none", "flush", "close", "open"}

\* A read returns what a recovery would find if the process died now: the cache,
\* the index and the log agree, whatever was evicted, rolled back or flushed
\* (read_page's order cache, log, main file).
ReadsAreRecoverable ==
    Idle => \A p \in Pages : p < count => ReadResult(p) = Recovered[p]

\* The header and the page count in memory are those of the pages: a rollback,
\* a failed flush or a recovery never leaves them behind or ahead
\* (FileSnapshot::header, "reverts in lockstep with the storage").
HeaderInLockstep ==
    Idle => /\ header = Recovered[0]
            /\ \A p \in Pages : Recovered[p] # Absent <=> p < count

\* The store is a PageStore: a snapshot comes back exactly, through cache, log
\* and index; neither a checkpoint, nor its failure, nor the death of the
\* process at any of its steps changes a page (restore, checkpoint, open_inner).
SnapshotView(s) == IF s = NoSnapshot THEN NoSnapshot ELSE View(wal, s.walLen, main)

Abstract == INSTANCE PageStore WITH
    pages <- Recovered, txn <- SnapshotView(txn), op <- SnapshotView(op)

ImplementsPageStore == Abstract!Spec

\* A checkpoint or an open that has started comes to its end: the store is ready
\* again or closed (the loop of checkpoint, the header check of open_inner).
CheckpointsEnd == pc \notin {"ready", "down"} ~> pc \in {"ready", "down"}
==============================================================================
