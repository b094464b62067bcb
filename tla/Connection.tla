------------------------------ MODULE Connection ------------------------------
(***************************************************************************)
(* Connections and the files behind them: create, open, close, flat        *)
(* transactions (api/mod.rs), the exclusive lock and the registry of open  *)
(* paths (storage/file.rs) and vacuum_file (db.rs), by several processes   *)
(* that may die.                                                           *)
(*                                                                         *)
(* A database file is an inode: a rename moves a path to another one while *)
(* open handles keep the old one.  What calls write is a set of writes;    *)
(* pages belong to the layout of the file they were written for, and a log *)
(* replayed over another layout damages the file (WalStore has the pages). *)
(* The lock file and the log of a path are found by the path's name.       *)
(***************************************************************************)
EXTENDS Integers, Sequences, SequencesExt, FiniteSets

CONSTANTS
    Procs, NoProc,   \* processes
    Writes,          \* what calls may write, each once
    MaxInodes,       \* bound: database files ever made
    Relative,        \* the processes that spell paths unlike their canonical form
    Alone            \* bound: no one opens a file that a vacuum is about to replace

ASSUME ConnectionAssumption ==
    /\ NoProc \notin Procs /\ MaxInodes \in Nat
    /\ Relative \subseteq Procs /\ Alone \in BOOLEAN

Paths  == {"db", "tmp"}
Inodes == 1..MaxInodes
NoFile == 0

VARIABLES
    inode,      \* path -> the file it names
    main,       \* inode -> the main file: layout, items, sound
    wal,        \* path -> entries of its log: layout, item
    lock,       \* path -> the process that holds the lock file
    registry,   \* process -> OPEN_FILES: names of paths
    conn,       \* process -> its connection: inode, pending, poisoned
    vacuum,     \* process -> where its vacuum_file is, and the file it reads
    settled     \* ghost: writes that have to stay

cvars == <<inode, main, wal, lock, registry, conn, vacuum, settled>>

Closed   == [inode |-> NoFile, pending |-> -1, poisoned |-> FALSE]
NoVacuum == [step |-> "none", inode |-> NoFile]
NoTransaction == -1

Opened(p) == conn[p].inode # NoFile
Usable(p) == Opened(p) /\ ~ conn[p].poisoned
Idle(p)   == ~ Opened(p) /\ vacuum[p].step = "none"

------------------------------------------------------------------------------
\* Files, locks and names.

NextInode == Cardinality({k \in Inodes : main[k].layout # NoFile}) + 1

\* create_new: a file of one header page.
NewMain(k) == [main EXCEPT ![k] = [layout |-> k, items |-> {}, sound |-> TRUE]]

\* Pages of a log over a main file: one of another layout damages it.
Replayed(file, log) ==
    [file EXCEPT !.items = @ \cup {log[k].item : k \in DOMAIN log},
                 !.sound = @ /\ \A k \in DOMAIN log : log[k].layout = file.layout]

\* checkpoint, and the flush before it.
Checkpointed(k, path) ==
    /\ main' = [main EXCEPT ![k] = Replayed(@, wal[path])]
    /\ wal' = [wal EXCEPT ![path] = <<>>]

\* canonicalize fails for a path that names no file: the path is taken as it is spelled.
Name(p, path) == <<path, IF p \in Relative /\ inode[path] = NoFile THEN "spelled" ELSE "canonical">>

Register(p, names) == registry' = [registry EXCEPT ![p] = @ \cup names]

\* Mutant: a vacuum that fails does not take its file off the list.
UnregisterMutant(p, names) ==
    registry' = [registry EXCEPT ![p] = IF vacuum[p].step = "copied" THEN @ ELSE @ \ names]

\* unregister_path: the name is made again.
Unregister(p, names) == registry' = [registry EXCEPT ![p] = @ \ names]

\* Mutant: the lock is not looked at.
MayTakeMutant(p, path) == Name(p, path) \notin registry[p]

\* register_path and acquire_lock both have to succeed.
MayTake(p, path) == Name(p, path) \notin registry[p] /\ lock[path] = NoProc

TakeName(p, path) ==
    /\ MayTake(p, path)
    /\ Register(p, {Name(p, path)})
    /\ lock' = [lock EXCEPT ![path] = p]

\* The locks of the handles that process p drops.
Unlocked(paths) == [path \in Paths |-> IF path \in paths THEN NoProc ELSE lock[path]]

\* Bound: the file is not about to be replaced.
NotReplaced == Alone => \A q \in Procs : vacuum[q].step # "closed"

------------------------------------------------------------------------------
\* Connections.

Items(log) == {log[k].item : k \in DOMAIN log}
View(p) == main[conn[p].inode].items \cup Items(wal["db"])

\* The entries that calls have appended.
Logged(p, w) == Append(wal["db"], [layout |-> main[conn[p].inode].layout, item |-> w])

Create(p) ==
    /\ Idle(p) /\ NotReplaced /\ NextInode \in Inodes
    /\ TakeName(p, "db") /\ inode["db"] = NoFile
    /\ inode' = [inode EXCEPT !["db"] = NextInode]
    /\ main' = NewMain(NextInode)
    /\ conn' = [conn EXCEPT ![p] = [Closed EXCEPT !.inode = NextInode]]
    /\ UNCHANGED <<wal, vacuum, settled>>

\* A log that is there is checkpointed first.
Open(p) ==
    /\ Idle(p) /\ NotReplaced
    /\ TakeName(p, "db") /\ inode["db"] # NoFile
    /\ Checkpointed(inode["db"], "db")
    /\ conn' = [conn EXCEPT ![p] = [Closed EXCEPT !.inode = inode["db"]]]
    /\ UNCHANGED <<inode, vacuum, settled>>

\* A call that writes.  Outside a transaction it has to stay.
Write(p, w) ==
    /\ Usable(p)
    /\ \A path \in Paths : w \notin Items(wal[path])
    /\ \A k \in Inodes : w \notin main[k].items
    /\ wal' = [wal EXCEPT !["db"] = Logged(p, w)]
    /\ settled' = IF conn[p].pending = NoTransaction THEN settled \cup {w} ELSE settled
    /\ UNCHANGED <<inode, main, lock, registry, conn, vacuum>>

\* A call panics after it has written: the mutex of the handle is poisoned, and every later
\* call on the handle fails.
Panic(p, w) ==
    /\ Usable(p)
    /\ \A path \in Paths : w \notin Items(wal[path])
    /\ \A k \in Inodes : w \notin main[k].items
    /\ wal' = [wal EXCEPT !["db"] = Logged(p, w)]
    /\ conn' = [conn EXCEPT ![p].poisoned = TRUE]
    /\ UNCHANGED <<inode, main, lock, registry, vacuum, settled>>

\* begin_transaction: take_snapshot keeps the length of the log.
BeginTransaction(p) ==
    /\ Usable(p) /\ conn[p].pending = NoTransaction
    /\ conn' = [conn EXCEPT ![p].pending = Len(wal["db"])]
    /\ UNCHANGED <<inode, main, wal, lock, registry, vacuum, settled>>

\* commit_transaction: the snapshot is dropped, then the log is checkpointed.
Commit(p) ==
    /\ Usable(p) /\ conn[p].pending # NoTransaction
    /\ conn' = [conn EXCEPT ![p].pending = NoTransaction]
    /\ Checkpointed(conn[p].inode, "db")
    /\ settled' = settled \cup View(p)
    /\ UNCHANGED <<inode, lock, registry, vacuum>>

\* The checkpoint of a commit fails before it clears the log: the transaction is over all the
\* same, and what it wrote cannot be taken back.
CommitFails(p) ==
    /\ Usable(p) /\ conn[p].pending # NoTransaction
    /\ conn' = [conn EXCEPT ![p].pending = NoTransaction]
    /\ UNCHANGED <<inode, main, wal, lock, registry, vacuum, settled>>

\* Mutant: a rollback cuts the whole log.
CutMutant(length) == [wal EXCEPT !["db"] = <<>>]

\* truncate_to
Cut(length) == [wal EXCEPT !["db"] = SubSeq(@, 1, length)]

Rollback(p) ==
    /\ Usable(p) /\ conn[p].pending # NoTransaction
    /\ conn' = [conn EXCEPT ![p].pending = NoTransaction]
    /\ wal' = Cut(conn[p].pending)
    /\ UNCHANGED <<inode, main, lock, registry, vacuum, settled>>

\* The handle is dropped: its lock is released and its name taken off the list.
Released(p) ==
    /\ conn' = [conn EXCEPT ![p] = Closed]
    /\ lock' = Unlocked({"db"})
    /\ Unregister(p, {Name(p, "db")})

\* close: a pending transaction is rolled back, the rest is checkpointed.
Close(p) ==
    /\ Usable(p)
    /\ LET log == IF conn[p].pending = NoTransaction THEN wal["db"] ELSE Cut(conn[p].pending)["db"]
       IN  main' = [main EXCEPT ![conn[p].inode] = Replayed(@, log)]
    /\ wal' = [wal EXCEPT !["db"] = <<>>]
    /\ Released(p)
    /\ UNCHANGED <<inode, vacuum, settled>>

\* The handle is dropped without close, or after its flush has failed: nothing is rolled back.
Drop(p) ==
    /\ Opened(p)
    /\ Released(p)
    /\ UNCHANGED <<inode, main, wal, vacuum, settled>>

\* The process dies, and another takes its place.
Crash(p) ==
    /\ ~ Idle(p)
    /\ conn' = [conn EXCEPT ![p] = Closed]
    /\ vacuum' = [vacuum EXCEPT ![p] = NoVacuum]
    /\ registry' = [registry EXCEPT ![p] = {}]
    /\ lock' = Unlocked({path \in Paths : lock[path] = p})
    /\ UNCHANGED <<inode, main, wal, settled>>

------------------------------------------------------------------------------
\* vacuum_file.

Goes(p, from, to) == vacuum[p].step = from /\ vacuum' = [vacuum EXCEPT ![p].step = to]

VacuumOpen(p) ==
    /\ Idle(p) /\ NotReplaced
    /\ TakeName(p, "db") /\ inode["db"] # NoFile
    /\ Checkpointed(inode["db"], "db")
    /\ vacuum' = [vacuum EXCEPT ![p] = [step |-> "opened", inode |-> inode["db"]]]
    /\ UNCHANGED <<inode, conn, settled>>

\* The new file is made; a log of that name left behind is taken over.
VacuumCreate(p) ==
    /\ Goes(p, "opened", "created") /\ NextInode \in Inodes
    /\ TakeName(p, "tmp") /\ inode["tmp"] = NoFile
    /\ inode' = [inode EXCEPT !["tmp"] = NextInode]
    /\ main' = NewMain(NextInode)
    /\ UNCHANGED <<wal, conn, settled>>

\* copy_live_contents_into: every record goes through the log of the new file.
VacuumCopy(p) ==
    /\ Goes(p, "created", "copied")
    /\ wal' = [wal EXCEPT !["tmp"] =
                   @ \o SetToSeq({[layout |-> inode["tmp"], item |-> w] : w \in main[vacuum[p].inode].items})]
    /\ UNCHANGED <<inode, main, lock, registry, conn, settled>>

VacuumFlush(p) ==
    /\ Goes(p, "copied", "flushed")
    /\ Checkpointed(inode["tmp"], "tmp")
    /\ UNCHANGED <<inode, lock, registry, conn, settled>>

\* The two handles are dropped, the new one first.
VacuumCloseTmp(p) ==
    /\ Goes(p, "flushed", "parted")
    /\ lock' = Unlocked({"tmp"}) /\ Unregister(p, {Name(p, "tmp")})
    /\ UNCHANGED <<inode, main, wal, conn, settled>>
VacuumCloseDb(p) ==
    /\ Goes(p, "parted", "closed")
    /\ lock' = Unlocked({"db"}) /\ Unregister(p, {Name(p, "db")})
    /\ UNCHANGED <<inode, main, wal, conn, settled>>

VacuumRename(p) ==
    /\ vacuum[p].step = "closed" /\ vacuum' = [vacuum EXCEPT ![p] = NoVacuum]
    /\ inode' = [inode EXCEPT !["db"] = inode["tmp"], !["tmp"] = NoFile]
    /\ UNCHANGED <<main, wal, lock, registry, conn, settled>>

\* The steps between which vacuum_file holds each handle.
HoldsDb(p)  == Opened(p) \/ vacuum[p].step \in {"opened", "created", "copied", "flushed", "parted"}
HoldsTmp(p) == vacuum[p].step \in {"created", "copied", "flushed"}
HasHandle(p, path) == IF path = "db" THEN HoldsDb(p) ELSE HoldsTmp(p)

\* Any step may fail, the creation of a file that is there among them: the handles are dropped,
\* and a new file that was made stays.
VacuumFail(p) ==
    /\ vacuum[p].step # "none"
    /\ vacuum' = [vacuum EXCEPT ![p] = NoVacuum]
    /\ LET held == {path \in Paths : HasHandle(p, path)}
       IN  lock' = Unlocked(held) /\ Unregister(p, {Name(p, path) : path \in held})
    /\ UNCHANGED <<inode, main, wal, conn, settled>>

ConnInit ==
    /\ inode = [path \in Paths |-> NoFile]
    /\ main = [k \in Inodes |-> [layout |-> NoFile, items |-> {}, sound |-> TRUE]]
    /\ wal = [path \in Paths |-> <<>>]
    /\ lock = [path \in Paths |-> NoProc]
    /\ registry = [p \in Procs |-> {}]
    /\ conn = [p \in Procs |-> Closed]
    /\ vacuum = [p \in Procs |-> NoVacuum]
    /\ settled = {}

ConnStep(p) ==
    \/ Create(p) \/ Open(p) \/ Close(p) \/ Drop(p) \/ Crash(p)
    \/ BeginTransaction(p) \/ Commit(p) \/ CommitFails(p) \/ Rollback(p)
    \/ \E w \in Writes : Write(p, w) \/ Panic(p, w)
    \/ VacuumOpen(p) \/ VacuumCreate(p) \/ VacuumCopy(p) \/ VacuumFlush(p)
    \/ VacuumCloseTmp(p) \/ VacuumCloseDb(p) \/ VacuumRename(p) \/ VacuumFail(p)

ConnNext == \E p \in Procs : ConnStep(p)

ConnSpec == ConnInit /\ [][ConnNext]_cvars

------------------------------------------------------------------------------
\* Properties.

\* What the next open reads of the database: the file that the path names, with its log.
Recovered == Replayed(main[inode["db"]], wal["db"])

\* Writes that were made outside a transaction or committed by one are in the database whoever
\* opens it next, and its pages are of one layout: no rollback, close, death or vacuum of any
\* process takes them away.
SettledStays ==
    inode["db"] # NoFile => settled \subseteq Recovered.items /\ Recovered.sound

\* Two handles never work on one main file or on one log at a time.
OneHolder ==
    \A p, q \in Procs :
        p # q => /\ ~ (HoldsDb(p) /\ HoldsDb(q)) /\ ~ (HoldsTmp(p) /\ HoldsTmp(q))
                 /\ Opened(p) /\ HoldsTmp(q) => conn[p].inode # inode["tmp"]

\* A process has a name of each path on its list while it has a handle on it.  A canonical name
\* on the list is of no other path: a database that is there can be opened again once it was
\* closed.  Only a process that spells paths in its own way ever lists one as it spells it.
RegistryNamesOpen ==
    \A p \in Procs, path \in Paths :
        /\ HasHandle(p, path) => \E form \in {"canonical", "spelled"} : <<path, form>> \in registry[p]
        /\ <<path, "canonical">> \in registry[p] => HasHandle(p, path)
        /\ <<path, "spelled">> \in registry[p] => p \in Relative

\* The registry "tracks canonical paths of file-backed databases currently open in this process"
\* (OPEN_FILES), and no others, so that a path can be made and opened again.
RegistryTracksOpen == \A p \in Procs : {name[1] : name \in registry[p]} = {path \in Paths : HasHandle(p, path)}
=============================================================================
