--------------------------- MODULE Connection_proofs ---------------------------
(***************************************************************************)
(* Proofs about Connection, for every number of processes, writes and      *)
(* files: the lock keeps handles apart, the registry follows them, and     *)
(* writes that have settled stay as long as no one opens a file whose      *)
(* vacuum is about to rename.  Proofs about SchemaStore, what one          *)
(* connection does with the schema of its file, for every number of names, *)
(* schemas, records and pages: type ids never move to another name, and    *)
(* the cache of declared fields is never stale.                            *)
(***************************************************************************)
EXTENDS Connection, SchemaStore, FiniteSetTheorems, SequenceTheorems, TLAPS

Steps   == {"none", "opened", "created", "copied", "flushed", "parted", "closed"}
Making  == {"created", "copied", "flushed", "parted", "closed"}
Entries == [layout : Inodes, item : Writes]
Mains   == [layout : Inodes \cup {NoFile}, items : {S \in SUBSET Writes : IsFiniteSet(S)}, sound : BOOLEAN]

\* The types of the variables; what a call has written is finite.
Types ==
    /\ inode \in [Paths -> Inodes \cup {NoFile}]
    /\ main \in [Inodes -> Mains]
    /\ wal \in [Paths -> Seq(Entries)]
    /\ lock \in [Paths -> Procs \cup {NoProc}]
    /\ conn \in [Procs -> [inode : Inodes \cup {NoFile}, pending : Int, poisoned : BOOLEAN]]
    /\ vacuum \in [Procs -> [step : Steps, inode : Inodes \cup {NoFile}]]

\* The lock of a path is with the process that has a handle on it.
Holding ==
    \A p \in Procs :
        /\ HoldsDb(p) <=> lock["db"] = p
        /\ HoldsTmp(p) <=> lock["tmp"] = p
        /\ Opened(p) => vacuum[p].step = "none"

\* Files are numbered as they are made, and what a path, a connection or a vacuum names is made.
Numbered ==
    /\ \A k \in Inodes : main[k].layout \in {NoFile, k}
    /\ \E n \in Nat : {k \in Inodes : main[k].layout # NoFile} = 1..n
    /\ \A path \in Paths : inode[path] # NoFile => main[inode[path]].layout = inode[path]
    /\ \A p \in Procs : /\ Opened(p) => main[conn[p].inode].layout = conn[p].inode
                        /\ vacuum[p].step # "none" => vacuum[p].inode # NoFile

\* A vacuum that has made its new file is the only one, and the file is there.
Rebuilding ==
    \A p \in Procs : vacuum[p].step \in Making =>
        inode["tmp"] # NoFile /\ \A q \in Procs : vacuum[q].step \in Making => p = q

\* The snapshot of a transaction is within the log.
Transacting ==
    \A p \in Procs : Opened(p) => conn[p].pending \in 0..Len(wal["db"]) \cup {NoTransaction}

\* The inductive invariant behind the lock.
Locked == Types /\ Holding /\ Numbered /\ Rebuilding /\ Transacting

-----------------------------------------------------------------------------
\* What the helpers on files and logs return.

\* What a log says is a finite set of writes.
LEMMA ItemsTyped ==
    ASSUME NEW log \in Seq(Entries)
    PROVE  Items(log) \in SUBSET Writes /\ IsFiniteSet(Items(log))
<1> DEFINE f == [k \in 1..Len(log) |-> log[k].item]
<1>1. Len(log) \in Nat /\ DOMAIN log = 1..Len(log) /\ \A k \in DOMAIN log : log[k] \in Entries
  OBVIOUS
<1>2. Items(log) \in SUBSET Writes
  BY <1>1 DEF Items, Entries
<1>3. f \in Surjection(1..Len(log), Items(log))
  BY <1>1 DEF Items, Surjection
<1>4. IsFiniteSet(1..Len(log))
  BY <1>1, FS_Interval
<1> QED
  BY <1>2, <1>3, <1>4, FS_Surjection

\* A log replayed over a file of its own layout leaves it undamaged.
LEMMA ReplayedTyped ==
    ASSUME NEW old \in Mains, NEW log \in Seq(Entries)
    PROVE  /\ Replayed(old, log) \in Mains
           /\ Replayed(old, log).layout = old.layout
           /\ Replayed(old, log).items = old.items \cup Items(log)
           /\ old.sound /\ (\A k \in DOMAIN log : log[k].layout = old.layout) => Replayed(old, log).sound
<1>1. Items(log) \in SUBSET Writes /\ IsFiniteSet(Items(log))
  BY ItemsTyped
<1>2. IsFiniteSet(old.items \cup Items(log))
  BY <1>1, FS_Union DEF Mains
<1> QED
  BY <1>1, <1>2 DEF Replayed, Mains, Items

\* An entry more.
LEMMA AppendItems ==
    ASSUME NEW log \in Seq(Entries), NEW e \in Entries
    PROVE  Append(log, e) \in Seq(Entries) /\ Items(Append(log, e)) = Items(log) \cup {e.item}
<1>1. /\ Append(log, e) \in Seq(Entries)
      /\ DOMAIN Append(log, e) = DOMAIN log \cup {Len(log) + 1}
      /\ Append(log, e)[Len(log) + 1] = e
      /\ \A k \in DOMAIN log : Append(log, e)[k] = log[k]
  OBVIOUS
<1> QED
  BY <1>1 DEF Items

\* A log that is cut.
LEMMA CutItems ==
    ASSUME NEW log \in Seq(Entries), NEW n \in 0..Len(log)
    PROVE  /\ SubSeq(log, 1, n) \in Seq(Entries)
           /\ Len(SubSeq(log, 1, n)) = n
           /\ \A k \in 1..n : SubSeq(log, 1, n)[k] = log[k]
           /\ Items(SubSeq(log, 1, n)) \subseteq Items(log)
<1>1. /\ SubSeq(log, 1, n) \in Seq(Entries)
      /\ Len(SubSeq(log, 1, n)) = n
      /\ \A k \in 1..n : SubSeq(log, 1, n)[k] = log[k]
  BY SubSeqProperties, ElementOfSeq
<1>2. DOMAIN SubSeq(log, 1, n) = 1..n /\ 1..n \subseteq DOMAIN log
  BY <1>1
<1> QED
  BY <1>1, <1>2 DEF Items

\* A set written out as a sequence: what the copy of a vacuum appends.
LEMMA SetToSeqTyped ==
    ASSUME NEW T, NEW S \in SUBSET T, IsFiniteSet(S)
    PROVE  SetToSeq(S) \in Seq(T) /\ {SetToSeq(S)[k] : k \in DOMAIN SetToSeq(S)} = S
<1> DEFINE n == Cardinality(S)
           s == SetToSeq(S)
<1>1. n \in Nat /\ ExistsBijection(1..n, S)
  BY FS_CardinalityType
<1>2. PICK f \in Bijection(1..n, S) : TRUE
  BY <1>1 DEF ExistsBijection
<1>3. f \in [1..n -> S] /\ IsInjective(f)
  BY <1>2 DEF Bijection, Injection, IsInjective
<1>4. s \in [1..n -> S] /\ IsInjective(s)
  BY <1>3 DEF SetToSeq
<1>5. s \in Injection(1..n, S)
  BY <1>4 DEF Injection, IsInjective
<1>6. IsFiniteSet(1..n) /\ Cardinality(1..n) = n
  BY <1>1, FS_Interval
<1>7. s \in Surjection(1..n, S)
  BY <1>5, <1>6, FS_Injection
<1>8. s \in Seq(T)
  BY <1>1, <1>4
<1> QED
  BY <1>4, <1>7, <1>8 DEF Surjection

\* create_new gives the next number, which no file has yet.
LEMMA NextIsNew ==
    ASSUME Types, Numbered, NextInode \in Inodes
    PROVE  /\ main[NextInode].layout = NoFile
           /\ \E n \in Nat : {k \in Inodes : NewMain(NextInode)[k].layout # NoFile} = 1..n
<1> DEFINE Made == {k \in Inodes : main[k].layout # NoFile}
<1>1. PICK n \in Nat : Made = 1..n
  BY DEF Numbered
<1>2. NextInode = n + 1
  <2>1. Cardinality(1..n) = n
    BY FS_Interval
  <2> QED
    BY <1>1, <2>1 DEF NextInode
<1>3. n + 1 \notin Made
  BY <1>1
<1>4. {k \in Inodes : NewMain(NextInode)[k].layout # NoFile} = Made \cup {NextInode}
  BY DEF NewMain, Types, NoFile, Inodes
<1>5. Made \cup {NextInode} = 1..(n + 1)
  BY <1>1, <1>2
<1> QED
  BY <1>2, <1>3, <1>4, <1>5

-----------------------------------------------------------------------------
\* The lock.

\* No process holds a lock at first.
LEMMA LockedInit == ConnInit => Locked
<1> SUFFICES ASSUME ConnInit PROVE Locked
  OBVIOUS
<1> USE DEF ConnInit, NoFile, NoVacuum, Closed
<1>1. Types
  BY FS_EmptySet DEF Types, Mains, Entries, Steps, Inodes
<1>2. Holding
  BY ConnectionAssumption DEF Holding, HoldsDb, HoldsTmp, Opened, Paths
<1>3. {k \in Inodes : main[k].layout # NoFile} = 1..0
  OBVIOUS
<1>4. Numbered
  BY <1>3 DEF Numbered, Opened
<1>5. Rebuilding
  BY DEF Rebuilding, Making
<1>6. Transacting
  BY DEF Transacting, Opened
<1> QED
  BY <1>1, <1>2, <1>4, <1>5, <1>6 DEF Locked

\* What a step may do to the files: those that are made keep their layout.
FilesKept == main' \in [Inodes -> Mains] /\ \A k \in Inodes : main'[k].layout = main[k].layout

\* A checkpoint changes files only in that way.
LEMMA CheckpointKeeps ==
    ASSUME Types, NEW k \in Inodes, NEW path \in Paths, Checkpointed(k, path)
    PROVE  FilesKept /\ wal' \in [Paths -> Seq(Entries)]
<1>1. Replayed(main[k], wal[path]) \in Mains /\ Replayed(main[k], wal[path]).layout = main[k].layout
  BY ReplayedTyped DEF Types
<1>2. main' \in [Inodes -> Mains]
      /\ \A j \in Inodes : main'[j] = IF j = k THEN Replayed(main[k], wal[path]) ELSE main[j]
  BY <1>1 DEF Checkpointed, Types
<1>3. wal' \in [Paths -> Seq(Entries)]
  BY EmptySeq DEF Checkpointed, Types
<1> QED
  BY <1>1, <1>2, <1>3 DEF FilesKept

\* Numbers stay right when layouts do, and nothing but made files is named anew.
LEMMA NumberedKept ==
    ASSUME Types, Types', Numbered, FilesKept,
           \A path \in Paths : inode'[path] # NoFile => \E q \in Paths : inode'[path] = inode[q],
           \A p \in Procs : conn'[p].inode \in {NoFile, conn[p].inode, inode["db"]},
           \A p \in Procs : vacuum'[p].step # "none" =>
               \/ vacuum'[p].inode = inode["db"] /\ inode["db"] # NoFile
               \/ vacuum[p].step # "none" /\ vacuum'[p].inode = vacuum[p].inode
    PROVE  Numbered'
<1>1. \A k \in Inodes : main'[k].layout = main[k].layout
  BY DEF FilesKept
<1>2. {k \in Inodes : main'[k].layout # NoFile} = {k \in Inodes : main[k].layout # NoFile}
  BY <1>1
<1>3. \A path \in Paths : inode'[path] # NoFile => inode'[path] \in Inodes
  BY DEF Types
<1>4. \A p \in Procs : conn'[p].inode # NoFile => conn'[p].inode \in Inodes
  BY DEF Types
<1>5. "db" \in Paths
  BY DEF Paths
<1> QED
  BY <1>1, <1>2, <1>3, <1>4, <1>5 DEF Numbered, Opened

\* Calls on a connection that is open move no handle.
LEMMA CallsKeepLocks ==
    ASSUME Locked, Types', Transacting', FilesKept, UNCHANGED <<inode, lock, vacuum>>,
           \A q \in Procs : conn'[q].inode = conn[q].inode
    PROVE  Locked'
<1>1. Holding'
  BY DEF Locked, Holding, HoldsDb, HoldsTmp, Opened
<1>2. Numbered'
  BY NumberedKept DEF Locked, Types
<1>3. Rebuilding'
  BY DEF Locked, Rebuilding
<1> QED
  BY <1>1, <1>2, <1>3 DEF Locked

\* The types and inodes of connections when one of them begins or ends a transaction, or breaks.
LEMMA ConnectionsTyped ==
    ASSUME Types, NEW p \in Procs,
           \/ \E n \in Int : conn' = [conn EXCEPT ![p].pending = n]
           \/ conn' = [conn EXCEPT ![p].poisoned = TRUE]
           \/ UNCHANGED conn
    PROVE  /\ conn' \in [Procs -> [inode : Inodes \cup {NoFile}, pending : Int, poisoned : BOOLEAN]]
           /\ \A q \in Procs : conn'[q].inode = conn[q].inode
<1>1. conn \in [Procs -> [inode : Inodes \cup {NoFile}, pending : Int, poisoned : BOOLEAN]]
  BY DEF Types
<1>2. CASE \E n \in Int : conn' = [conn EXCEPT ![p].pending = n]
  BY <1>1, <1>2
<1>3. CASE conn' = [conn EXCEPT ![p].poisoned = TRUE]
  BY <1>1, <1>3
<1>4. CASE UNCHANGED conn
  BY <1>1, <1>4
<1> QED
  BY <1>2, <1>3, <1>4

\* Only one process has the database open.
LEMMA OpenedAlone ==
    ASSUME Locked, NEW p \in Procs, NEW q \in Procs, Opened(p), Opened(q)
    PROVE  p = q
  BY DEF Locked, Holding, HoldsDb

\* A call on the open connection moves no handle, and its snapshot stays within the log.
LEMMA CallStep ==
    ASSUME Locked, NEW p \in Procs,
           \/ BeginTransaction(p) \/ Commit(p) \/ CommitFails(p) \/ Rollback(p)
           \/ \E w \in Writes : Write(p, w) \/ Panic(p, w)
    PROVE  Locked'
<1>1. Types /\ Numbered /\ "db" \in Paths /\ "tmp" \in Paths /\ Len(wal["db"]) \in Int
  BY DEF Locked, Types, Paths
<1>9. NoTransaction \in Int
  BY DEF NoTransaction
<1>2. main \in [Inodes -> Mains] /\ \A k \in Inodes : main[k] \in Mains
  BY <1>1 DEF Types
<1>3. ASSUME NEW w \in Writes, Usable(p)
      PROVE  Logged(p, w) \in Seq(Entries)
  <2>1. conn[p].inode \in Inodes /\ main[conn[p].inode].layout \in Inodes
    BY <1>1, <1>3 DEF Usable, Opened, Types, Numbered
  <2>2. [layout |-> main[conn[p].inode].layout, item |-> w] \in Entries
    BY <2>1 DEF Entries
  <2>3. wal["db"] \in Seq(Entries)
    BY <1>1 DEF Types
  <2> QED
    BY <2>2, <2>3, AppendItems DEF Logged
<1>4. CASE BeginTransaction(p)
  <2>1. Types' /\ FilesKept /\ \A q \in Procs : conn'[q].inode = conn[q].inode
    <3>1. FilesKept /\ UNCHANGED <<inode, main, wal, lock, vacuum>>
      BY <1>1, <1>2, <1>4 DEF BeginTransaction, FilesKept
    <3>2. \E n \in Int : conn' = [conn EXCEPT ![p].pending = n]
      BY <1>1, <1>9, <1>4 DEF BeginTransaction
    <3> QED
      BY <1>1, <3>1, <3>2, ConnectionsTyped DEF Types
  <2>9. Transacting'
    <3>1. \A q \in Procs : q # p => ~ Opened(q)
      BY <1>4, OpenedAlone DEF BeginTransaction, Usable
    <3>2. /\ conn[p].inode \in Inodes \cup {NoFile}
          /\ conn \in [Procs -> [inode : Inodes \cup {NoFile}, pending : Int, poisoned : BOOLEAN]]
          /\ wal \in [Paths -> Seq(Entries)]
      BY <1>1 DEF Types
    <3> QED
      BY <1>1, <1>4, <3>1, <3>2 DEF Transacting, Locked, Opened, BeginTransaction
  <2> QED
    BY <1>4, <2>1, <2>9, CallsKeepLocks DEF BeginTransaction
<1>5. CASE Commit(p)
  <2>1. conn[p].inode \in Inodes
    BY <1>1, <1>5 DEF Commit, Usable, Opened, Types
  <2>2. FilesKept /\ wal' \in [Paths -> Seq(Entries)]
    BY <1>1, <1>5, <2>1, CheckpointKeeps DEF Commit
  <2>3. Types' /\ \A q \in Procs : conn'[q].inode = conn[q].inode
    <3>1. \E n \in Int : conn' = [conn EXCEPT ![p].pending = n]
      BY <1>9, <1>5 DEF Commit
    <3>2. UNCHANGED <<inode, lock, vacuum>>
      BY <1>5 DEF Commit
    <3> QED
      BY <1>1, <2>2, <3>1, <3>2, ConnectionsTyped DEF Types, FilesKept
  <2>9. Transacting'
    <3>1. \A q \in Procs : q # p => ~ Opened(q)
      BY <1>5, OpenedAlone DEF Commit, Usable
    <3>2. /\ conn[p].inode \in Inodes \cup {NoFile}
          /\ conn \in [Procs -> [inode : Inodes \cup {NoFile}, pending : Int, poisoned : BOOLEAN]]
          /\ wal \in [Paths -> Seq(Entries)]
      BY <1>1 DEF Types
    <3> QED
      BY <1>1, <1>5, <3>1, <3>2 DEF Transacting, Locked, Opened, Commit
  <2> QED
    BY <1>5, <2>2, <2>3, <2>9, CallsKeepLocks DEF Commit
<1>6. CASE CommitFails(p)
  <2>1. Types' /\ FilesKept /\ \A q \in Procs : conn'[q].inode = conn[q].inode
    <3>1. FilesKept /\ UNCHANGED <<inode, main, wal, lock, vacuum>>
      BY <1>1, <1>2, <1>6 DEF CommitFails, FilesKept
    <3>2. \E n \in Int : conn' = [conn EXCEPT ![p].pending = n]
      BY <1>1, <1>9, <1>6 DEF CommitFails
    <3> QED
      BY <1>1, <3>1, <3>2, ConnectionsTyped DEF Types
  <2>9. Transacting'
    <3>1. \A q \in Procs : q # p => ~ Opened(q)
      BY <1>6, OpenedAlone DEF CommitFails, Usable
    <3>2. /\ conn[p].inode \in Inodes \cup {NoFile}
          /\ conn \in [Procs -> [inode : Inodes \cup {NoFile}, pending : Int, poisoned : BOOLEAN]]
          /\ wal \in [Paths -> Seq(Entries)]
      BY <1>1 DEF Types
    <3> QED
      BY <1>1, <1>6, <3>1, <3>2 DEF Transacting, Locked, Opened, CommitFails
  <2> QED
    BY <1>6, <2>1, <2>9, CallsKeepLocks DEF CommitFails
<1>7. CASE Rollback(p)
  <2>3. conn[p].pending \in 0..Len(wal["db"]) /\ wal["db"] \in Seq(Entries)
    BY <1>1, <1>7 DEF Rollback, Usable, Locked, Transacting, Types
  <2>1. Cut(conn[p].pending) \in [Paths -> Seq(Entries)]
    <3>1. SubSeq(wal["db"], 1, conn[p].pending) \in Seq(Entries)
      BY <2>3, CutItems
    <3> QED
      BY <1>1, <3>1 DEF Cut, Types
  <2>2. Types' /\ FilesKept /\ \A q \in Procs : conn'[q].inode = conn[q].inode
    <3>1. FilesKept /\ UNCHANGED <<inode, main, lock, vacuum>> /\ wal' = Cut(conn[p].pending)
      BY <1>1, <1>2, <1>7 DEF Rollback, FilesKept
    <3>2. \E n \in Int : conn' = [conn EXCEPT ![p].pending = n]
      BY <1>9, <1>7 DEF Rollback
    <3> QED
      BY <1>1, <2>1, <3>1, <3>2, ConnectionsTyped DEF Types
  <2>9. Transacting'
    <3>1. \A q \in Procs : q # p => ~ Opened(q)
      BY <1>7, OpenedAlone DEF Rollback, Usable
    <3>2. /\ conn[p].inode \in Inodes \cup {NoFile}
          /\ conn \in [Procs -> [inode : Inodes \cup {NoFile}, pending : Int, poisoned : BOOLEAN]]
          /\ wal \in [Paths -> Seq(Entries)]
      BY <1>1 DEF Types
    <3> QED
      BY <1>1, <1>7, <3>1, <3>2 DEF Transacting, Locked, Opened, Rollback
  <2> QED
    BY <1>7, <2>2, <2>9, CallsKeepLocks DEF Rollback
<1>8. CASE \E w \in Writes : Write(p, w) \/ Panic(p, w)
  <2>1. PICK w \in Writes : Write(p, w) \/ Panic(p, w)
    BY <1>8
  <2>2. Logged(p, w) \in Seq(Entries)
    BY <1>3, <2>1 DEF Write, Panic
  <2>3. /\ Types' /\ FilesKept /\ UNCHANGED <<inode, lock, vacuum>>
        /\ \A q \in Procs : conn'[q].inode = conn[q].inode
    <3>1. UNCHANGED <<inode, main, lock, vacuum>> /\ wal' = [wal EXCEPT !["db"] = Logged(p, w)]
      BY <2>1 DEF Write, Panic
    <3>2. conn' = [conn EXCEPT ![p].poisoned = TRUE] \/ UNCHANGED conn
      BY <2>1 DEF Write, Panic
    <3>3. wal' \in [Paths -> Seq(Entries)]
      BY <1>1, <2>2, <3>1 DEF Types
    <3>4. FilesKept
      BY <1>2, <3>1 DEF FilesKept
    <3>5. conn' \in [Procs -> [inode : Inodes \cup {NoFile}, pending : Int, poisoned : BOOLEAN]]
          /\ \A q \in Procs : conn'[q].inode = conn[q].inode
      BY <1>1, <3>2, ConnectionsTyped
    <3> QED
      BY <1>1, <3>1, <3>3, <3>4, <3>5 DEF Types
  <2>4. Opened(p) /\ \A q \in Procs : q # p => ~ Opened(q)
    BY <2>1, OpenedAlone DEF Write, Panic, Usable
  <2>5. Len(Logged(p, w)) = Len(wal["db"]) + 1
    <3>1. wal["db"] \in Seq(Entries)
      BY <1>1 DEF Types
    <3> QED
      BY <3>1 DEF Logged
  <2>6. \A q \in Procs : conn'[q].inode = conn[q].inode /\ conn'[q].pending = conn[q].pending
    <3>1. conn \in [Procs -> [inode : Inodes \cup {NoFile}, pending : Int, poisoned : BOOLEAN]]
      BY <1>1 DEF Types
    <3>2. conn' = [conn EXCEPT ![p].poisoned = TRUE] \/ UNCHANGED conn
      BY <2>1 DEF Write, Panic
    <3> QED
      BY <3>1, <3>2
  <2>7. wal'["db"] = Logged(p, w)
    BY <1>1, <2>1 DEF Write, Panic, Types
  <2>8. Transacting'
    BY <1>1, <2>4, <2>5, <2>6, <2>7 DEF Transacting, Locked, Opened
  <2> QED
    BY <2>3, <2>8, CallsKeepLocks
<1> QED
  BY <1>4, <1>5, <1>6, <1>7, <1>8

\* What a new connection is.
LEMMA ClosedTyped ==
    ASSUME NEW k, NEW S, k \in S, NoFile \in S
    PROVE  /\ Closed \in [inode : S, pending : Int, poisoned : BOOLEAN]
           /\ [Closed EXCEPT !.inode = k] \in [inode : S, pending : Int, poisoned : BOOLEAN]
           /\ [Closed EXCEPT !.inode = k].inode = k /\ [Closed EXCEPT !.inode = k].pending = NoTransaction
           /\ Closed.inode = NoFile
<1>1. Closed \in [inode : S, pending : Int, poisoned : BOOLEAN]
  BY DEF Closed
<1>2. [Closed EXCEPT !.inode = k] \in [inode : S, pending : Int, poisoned : BOOLEAN]
  BY <1>1
<1>3. [Closed EXCEPT !.inode = k].inode = k /\ [Closed EXCEPT !.inode = k].pending = NoTransaction
  BY DEF Closed, NoTransaction
<1>4. Closed.inode = NoFile
  BY DEF Closed
<1> QED
  BY <1>1, <1>2, <1>3, <1>4

\* A handle on a path is taken.
LEMMA OpenStep ==
    ASSUME Locked, NEW p \in Procs, Create(p) \/ Open(p) \/ VacuumOpen(p)
    PROVE  Locked'
<1>1. /\ Types /\ Numbered /\ "db" \in Paths /\ "tmp" \in Paths
      /\ conn \in [Procs -> [inode : Inodes \cup {NoFile}, pending : Int, poisoned : BOOLEAN]]
      /\ vacuum \in [Procs -> [step : Steps, inode : Inodes \cup {NoFile}]]
      /\ lock \in [Paths -> Procs \cup {NoProc}]
  BY DEF Locked, Types, Paths
<1>2. /\ Idle(p) /\ lock["db"] = NoProc
      /\ lock' = [lock EXCEPT !["db"] = p]
  BY DEF Create, Open, VacuumOpen, TakeName, MayTake
<1>3. \A q \in Procs : ~ HoldsDb(q)
  BY <1>2, ConnectionAssumption DEF Locked, Holding
<1>4. CASE Create(p)
  <2>1. /\ NextInode \in Inodes /\ inode["db"] = NoFile
        /\ inode' = [inode EXCEPT !["db"] = NextInode] /\ main' = NewMain(NextInode)
        /\ conn' = [conn EXCEPT ![p] = [Closed EXCEPT !.inode = NextInode]]
        /\ UNCHANGED <<wal, vacuum>>
    BY <1>4 DEF Create
  <2>2. /\ [Closed EXCEPT !.inode = NextInode] \in [inode : Inodes \cup {NoFile}, pending : Int, poisoned : BOOLEAN]
        /\ [Closed EXCEPT !.inode = NextInode].inode = NextInode
        /\ [Closed EXCEPT !.inode = NextInode].pending = NoTransaction
    BY <2>1, ClosedTyped
  <2>3. /\ conn' \in [Procs -> [inode : Inodes \cup {NoFile}, pending : Int, poisoned : BOOLEAN]]
        /\ conn'[p].inode = NextInode /\ conn'[p].pending = NoTransaction
        /\ \A q \in Procs : q # p => conn'[q] = conn[q]
    BY <1>1, <2>1, <2>2
  <2>4. main' \in [Inodes -> Mains]
    BY <1>1, <2>1, FS_EmptySet DEF NewMain, Types, Mains
  <2>5. /\ inode' \in [Paths -> Inodes \cup {NoFile}]
        /\ inode'["db"] = NextInode /\ \A path \in Paths : path # "db" => inode'[path] = inode[path]
    BY <1>1, <2>1 DEF Types
  <2>6. Types'
    BY <1>1, <1>2, <2>1, <2>3, <2>4, <2>5 DEF Types
  <2>7. Holding'
    <3>1. /\ Opened(p)' /\ vacuum'[p].step = "none" /\ NextInode # NoFile
          /\ lock'["db"] = p /\ lock["tmp"] # p /\ lock'["tmp"] = lock["tmp"]
      <4>1. NextInode # NoFile
        BY <2>1 DEF Inodes, NoFile
      <4>2. vacuum[p].step = "none" /\ vacuum'[p].step = "none"
        BY <1>2, <2>1 DEF Idle
      <4>3. lock["tmp"] # p
        BY <4>2 DEF Locked, Holding, HoldsTmp
      <4>4. lock'["db"] = p /\ lock'["tmp"] = lock["tmp"]
        BY <1>1, <1>2
      <4> QED
        BY <2>3, <4>1, <4>2, <4>3, <4>4 DEF Opened
    <3>2. ASSUME NEW q \in Procs, q # p
          PROVE  /\ HoldsDb(q)' <=> lock'["db"] = q
                 /\ HoldsTmp(q)' <=> lock'["tmp"] = q
                 /\ Opened(q)' => vacuum'[q].step = "none"
      BY <1>3, <2>1, <2>3, <3>1, <3>2 DEF Locked, Holding, HoldsDb, HoldsTmp, Opened
    <3> QED
      BY <3>1, <3>2 DEF Holding, HoldsDb, HoldsTmp
  <2>8. Numbered'
    <3>1. \A k \in Inodes : main'[k].layout = IF k = NextInode THEN k ELSE main[k].layout
      BY <1>1, <2>1 DEF NewMain, Types
    <3>2. \E n \in Nat : {k \in Inodes : main'[k].layout # NoFile} = 1..n
      BY <1>1, <2>1, NextIsNew
    <3>3. \A path \in Paths : inode'[path] # NoFile => main'[inode'[path]].layout = inode'[path]
      <4> SUFFICES ASSUME NEW path \in Paths, inode'[path] # NoFile
                   PROVE  main'[inode'[path]].layout = inode'[path]
        OBVIOUS
      <4>1. inode'[path] \in Inodes
        BY <2>5
      <4>2. CASE inode'[path] = NextInode
        BY <2>1, <3>1, <4>2
      <4>3. CASE inode'[path] # NextInode
        <5>1. inode'[path] = inode[path]
          BY <2>5, <4>3
        <5>2. main[inode[path]].layout = inode[path]
          BY <1>1, <5>1 DEF Numbered
        <5> QED
          BY <3>1, <4>1, <4>3, <5>1, <5>2
      <4> QED
        BY <4>2, <4>3
    <3>4. \A q \in Procs : Opened(q)' => main'[conn'[q].inode].layout = conn'[q].inode
      BY <1>1, <2>1, <2>3, <3>1 DEF Numbered, Opened
    <3>5. \A k \in Inodes : main'[k].layout \in {NoFile, k}
      BY <1>1, <3>1 DEF Numbered
    <3>6. \A q \in Procs : vacuum'[q].step # "none" => vacuum'[q].inode # NoFile
      BY <1>1, <2>1 DEF Numbered
    <3> QED
      BY ONLY <3>2, <3>3, <3>4, <3>5, <3>6 DEF Numbered
  <2>9. Rebuilding'
    BY <1>1, <2>1, <2>5 DEF Locked, Rebuilding
  <2>10. Transacting'
    BY <1>2, <1>3, <2>3 DEF Transacting, Opened, HoldsDb
  <2> QED
    BY <2>6, <2>7, <2>8, <2>9, <2>10 DEF Locked
<1>5. CASE Open(p) \/ VacuumOpen(p)
  <2>1. inode["db"] # NoFile /\ inode["db"] \in Inodes /\ Checkpointed(inode["db"], "db") /\ UNCHANGED inode
    BY <1>1, <1>5 DEF Open, VacuumOpen, Types
  <2>2. FilesKept /\ wal' \in [Paths -> Seq(Entries)]
    BY <1>1, <2>1, CheckpointKeeps
  <2>3. /\ conn' \in [Procs -> [inode : Inodes \cup {NoFile}, pending : Int, poisoned : BOOLEAN]]
        /\ \/ UNCHANGED conn
           \/ Open(p) /\ conn'[p].inode = inode["db"] /\ conn'[p].pending = NoTransaction
        /\ \A q \in Procs : q # p => conn'[q] = conn[q]
    <3>1. /\ [Closed EXCEPT !.inode = inode["db"]] \in [inode : Inodes \cup {NoFile}, pending : Int, poisoned : BOOLEAN]
          /\ [Closed EXCEPT !.inode = inode["db"]].inode = inode["db"]
          /\ [Closed EXCEPT !.inode = inode["db"]].pending = NoTransaction
      BY <2>1, ClosedTyped
    <3>2. UNCHANGED conn \/ (Open(p) /\ conn' = [conn EXCEPT ![p] = [Closed EXCEPT !.inode = inode["db"]]])
      BY <1>5 DEF Open, VacuumOpen
    <3> QED
      BY <1>1, <2>1, <3>1, <3>2
  <2>4. /\ vacuum' \in [Procs -> [step : Steps, inode : Inodes \cup {NoFile}]]
        /\ \/ Open(p) /\ UNCHANGED vacuum
           \/ VacuumOpen(p) /\ vacuum'[p] = [step |-> "opened", inode |-> inode["db"]] /\ UNCHANGED conn
        /\ \A q \in Procs : q # p => vacuum'[q] = vacuum[q]
    BY <1>1, <1>5, <2>1 DEF Open, VacuumOpen, Steps
  <2>5. Open(p) => conn'[p].inode = inode["db"]
    <3>1. [Closed EXCEPT !.inode = inode["db"]].inode = inode["db"]
      BY <2>1, ClosedTyped
    <3> QED
      BY <1>1, <3>1 DEF Open
  <2>6. Types'
    BY <1>1, <1>2, <2>1, <2>2, <2>3, <2>4 DEF Types, FilesKept
  <2>7. Holding'
    BY <1>1, <1>2, <1>3, <2>1, <2>3, <2>4, <2>5, ConnectionAssumption
       DEF Locked, Holding, HoldsDb, HoldsTmp, Opened, Idle, Inodes, NoFile
  <2>8. Numbered'
    <3>1. \A q \in Procs : conn'[q].inode \in {NoFile, conn[q].inode, inode["db"]}
      BY <1>1, <2>3
    <3>2. \A q \in Procs : vacuum'[q].step # "none" =>
               \/ vacuum'[q].inode = inode["db"] /\ inode["db"] # NoFile
               \/ vacuum[q].step # "none" /\ vacuum'[q].inode = vacuum[q].inode
      BY <1>1, <2>1, <2>4
    <3> QED
      BY <1>1, <2>1, <2>2, <2>6, <3>1, <3>2, NumberedKept
  <2>9. Rebuilding'
    BY <1>1, <1>2, <2>1, <2>4 DEF Locked, Rebuilding, Making
  <2>10. Transacting'
    BY <1>2, <1>3, <2>3 DEF Transacting, Opened, HoldsDb, Idle
  <2> QED
    BY <2>6, <2>7, <2>8, <2>9, <2>10 DEF Locked
<1> QED
  BY <1>4, <1>5

\* A process lets go of its handles.
LEMMA ReleaseKeepsLocks ==
    ASSUME Locked, NEW p \in Procs, FilesKept, UNCHANGED inode,
           wal' \in [Paths -> Seq(Entries)], UNCHANGED wal \/ Opened(p),
           conn' \in [Procs -> [inode : Inodes \cup {NoFile}, pending : Int, poisoned : BOOLEAN]], vacuum' \in [Procs -> [step : Steps, inode : Inodes \cup {NoFile}]],
           conn'[p].inode = NoFile, vacuum'[p].step = "none",
           \A q \in Procs : q # p => conn'[q] = conn[q] /\ vacuum'[q] = vacuum[q],
           lock' = [path \in Paths |-> IF lock[path] = p THEN NoProc ELSE lock[path]]
    PROVE  Locked'
<1>1. /\ Types /\ Numbered /\ "db" \in Paths /\ "tmp" \in Paths
      /\ lock \in [Paths -> Procs \cup {NoProc}]
  BY DEF Locked, Types, Paths
<1>2. Types'
  BY <1>1 DEF Types, FilesKept
<1>3. Holding'
  <2>1. \A path \in Paths : lock'[path] # p /\ \A q \in Procs : q # p => (lock'[path] = q <=> lock[path] = q)
    BY <1>1, ConnectionAssumption
  <2>2. ~ HoldsDb(p)' /\ ~ HoldsTmp(p)' /\ ~ Opened(p)'
    BY DEF HoldsDb, HoldsTmp, Opened
  <2>3. \A q \in Procs : q # p => /\ HoldsDb(q)' = HoldsDb(q) /\ HoldsTmp(q)' = HoldsTmp(q)
                                 /\ Opened(q)' = Opened(q) /\ vacuum'[q] = vacuum[q]
    BY DEF HoldsDb, HoldsTmp, Opened
  <2>4. ASSUME NEW q \in Procs, q # p
        PROVE  /\ HoldsDb(q)' <=> lock'["db"] = q
               /\ HoldsTmp(q)' <=> lock'["tmp"] = q
               /\ Opened(q)' => vacuum'[q].step = "none"
    <3>1. /\ HoldsDb(q) <=> lock["db"] = q
          /\ HoldsTmp(q) <=> lock["tmp"] = q
          /\ Opened(q) => vacuum[q].step = "none"
      BY DEF Locked, Holding
    <3>2. (lock'["db"] = q <=> lock["db"] = q) /\ (lock'["tmp"] = q <=> lock["tmp"] = q)
      BY <1>1, <2>1, <2>4
    <3> QED
      BY <2>3, <2>4, <3>1, <3>2
  <2>5. lock'["db"] # p /\ lock'["tmp"] # p
    BY <1>1, <2>1
  <2> QED
    BY <2>2, <2>4, <2>5 DEF Holding
<1>4. Numbered'
  <2>1. \A q \in Procs : conn'[q].inode \in {NoFile, conn[q].inode, inode["db"]}
    OBVIOUS
  <2>2. \A q \in Procs : vacuum'[q].step # "none" =>
             \/ vacuum'[q].inode = inode["db"] /\ inode["db"] # NoFile
             \/ vacuum[q].step # "none" /\ vacuum'[q].inode = vacuum[q].inode
    OBVIOUS
  <2> QED
    BY <1>1, <1>2, <2>1, <2>2, NumberedKept
<1>5. Rebuilding'
  BY DEF Locked, Rebuilding, Making
<1>6. Transacting'
  <2>1. \A q \in Procs : Opened(q)' => q # p /\ Opened(q)
    BY DEF Opened
  <2>2. \A q \in Procs : Opened(q)' => UNCHANGED wal
    BY <2>1, OpenedAlone
  <2> QED
    BY <2>1, <2>2 DEF Locked, Transacting
<1> QED
  BY <1>2, <1>3, <1>4, <1>5, <1>6 DEF Locked

\* A handle that is closed, dropped or dies gives its lock back.
LEMMA ReleaseStep ==
    ASSUME Locked, NEW p \in Procs, Close(p) \/ Drop(p) \/ Crash(p) \/ VacuumFail(p)
    PROVE  Locked'
<1>1. /\ Types /\ Numbered /\ "db" \in Paths /\ "tmp" \in Paths /\ Paths = {"db", "tmp"}
      /\ conn \in [Procs -> [inode : Inodes \cup {NoFile}, pending : Int, poisoned : BOOLEAN]]
      /\ vacuum \in [Procs -> [step : Steps, inode : Inodes \cup {NoFile}]]
      /\ main \in [Inodes -> Mains] /\ wal \in [Paths -> Seq(Entries)]
      /\ lock \in [Paths -> Procs \cup {NoProc}]
  BY DEF Locked, Types, Paths
<1>2. NoVacuum \in [step : Steps, inode : Inodes \cup {NoFile}] /\ NoVacuum.step = "none"
  BY DEF NoVacuum, Steps
<1>3. Closed \in [inode : Inodes \cup {NoFile}, pending : Int, poisoned : BOOLEAN] /\ Closed.inode = NoFile
  BY ClosedTyped
<1>4. ASSUME Opened(p), conn' = [conn EXCEPT ![p] = Closed], lock' = Unlocked({"db"}), UNCHANGED vacuum
      PROVE  /\ conn' \in [Procs -> [inode : Inodes \cup {NoFile}, pending : Int, poisoned : BOOLEAN]]
             /\ conn'[p].inode = NoFile
             /\ vacuum'[p].step = "none"
             /\ \A q \in Procs : q # p => conn'[q] = conn[q]
             /\ lock' = [path \in Paths |-> IF lock[path] = p THEN NoProc ELSE lock[path]]
  <2>1. vacuum[p].step = "none" /\ lock["db"] = p /\ lock["tmp"] # p
    BY <1>4 DEF Locked, Holding, HoldsDb, HoldsTmp
  <2> QED
    BY <1>1, <1>3, <1>4, <2>1 DEF Unlocked
<1>5. CASE Close(p)
  <2>1. /\ Opened(p)
        /\ conn' = [conn EXCEPT ![p] = Closed]
        /\ lock' = Unlocked({"db"}) /\ UNCHANGED <<inode, vacuum>>
        /\ wal' = [wal EXCEPT !["db"] = <<>>]
    BY <1>5 DEF Close, Usable, Released
  <2>2. PICK log : /\ log = IF conn[p].pending = NoTransaction THEN wal["db"] ELSE Cut(conn[p].pending)["db"]
                   /\ main' = [main EXCEPT ![conn[p].inode] = Replayed(@, log)]
    BY <1>5 DEF Close
  <2>3. log \in Seq(Entries)
    <3>1. CASE conn[p].pending = NoTransaction
      BY <1>1, <2>2, <3>1
    <3>2. CASE conn[p].pending # NoTransaction
      <4>1. conn[p].pending \in 0..Len(wal["db"]) /\ wal["db"] \in Seq(Entries)
        BY <1>1, <2>1, <3>2 DEF Locked, Transacting
      <4>2. log = SubSeq(wal["db"], 1, conn[p].pending)
        BY <1>1, <2>2, <3>2 DEF Cut
      <4> QED
        BY <4>1, <4>2, CutItems
    <3> QED
      BY <3>1, <3>2
  <2>4. FilesKept
    <3>1. conn[p].inode \in Inodes
      BY <1>1, <2>1 DEF Opened
    <3>2. Replayed(main[conn[p].inode], log) \in Mains
          /\ Replayed(main[conn[p].inode], log).layout = main[conn[p].inode].layout
      BY <1>1, <2>3, <3>1, ReplayedTyped
    <3> QED
      BY <1>1, <2>2, <3>1, <3>2 DEF FilesKept
  <2>5. wal' \in [Paths -> Seq(Entries)]
    BY <1>1, <2>1, EmptySeq
  <2> QED
    BY <1>1, <1>4, <2>1, <2>4, <2>5, ReleaseKeepsLocks
<1>6. CASE Drop(p)
  <2>1. /\ Opened(p) /\ conn' = [conn EXCEPT ![p] = Closed] /\ lock' = Unlocked({"db"})
        /\ UNCHANGED <<inode, main, wal, vacuum>>
    BY <1>6 DEF Drop, Released
  <2>2. FilesKept
    BY <1>1, <2>1 DEF FilesKept
  <2> QED
    BY <1>1, <1>4, <2>1, <2>2, ReleaseKeepsLocks
<1>7. CASE Crash(p)
  <2>1. /\ conn' = [conn EXCEPT ![p] = Closed] /\ vacuum' = [vacuum EXCEPT ![p] = NoVacuum]
        /\ lock' = Unlocked({path \in Paths : lock[path] = p})
        /\ UNCHANGED <<inode, main, wal>>
    BY <1>7 DEF Crash
  <2>2. FilesKept
    BY <1>1, <2>1 DEF FilesKept
  <2>3. lock' = [path \in Paths |-> IF lock[path] = p THEN NoProc ELSE lock[path]]
    BY <2>1 DEF Unlocked
  <2> QED
    BY <1>1, <1>2, <1>3, <2>1, <2>2, <2>3, ReleaseKeepsLocks
<1>8. CASE VacuumFail(p)
  <2>1. /\ vacuum[p].step # "none" /\ vacuum' = [vacuum EXCEPT ![p] = NoVacuum]
        /\ lock' = Unlocked({path \in Paths : HasHandle(p, path)})
        /\ UNCHANGED <<inode, main, wal, conn>>
    BY <1>8 DEF VacuumFail
  <2>2. FilesKept
    BY <1>1, <2>1 DEF FilesKept
  <2>3. conn[p].inode = NoFile
    BY <2>1 DEF Locked, Holding, Opened
  <2>4. lock' = [path \in Paths |-> IF lock[path] = p THEN NoProc ELSE lock[path]]
    BY <1>1, <2>1 DEF Unlocked, Locked, Holding, HasHandle
  <2> QED
    BY <1>1, <1>2, <2>1, <2>2, <2>3, <2>4, ReleaseKeepsLocks
<1> QED
  BY <1>5, <1>6, <1>7, <1>8

\* What one step of vacuum_file does to where it is.
LEMMA VacuumGoes ==
    ASSUME Types, NEW p \in Procs, NEW from \in Steps, NEW to \in Steps, Goes(p, from, to)
    PROVE  /\ vacuum[p].step = from /\ vacuum' \in [Procs -> [step : Steps, inode : Inodes \cup {NoFile}]]
           /\ vacuum'[p].step = to /\ vacuum'[p].inode = vacuum[p].inode
           /\ \A q \in Procs : q # p => vacuum'[q] = vacuum[q]
  BY DEF Goes, Types

\* A vacuum that works on its two files without taking or releasing a handle.
LEMMA VacuumStep ==
    ASSUME Locked, NEW p \in Procs, VacuumCopy(p) \/ VacuumFlush(p)
    PROVE  Locked'
<1>1. /\ Types /\ Numbered /\ "db" \in Paths /\ "tmp" \in Paths
      /\ main \in [Inodes -> Mains] /\ wal \in [Paths -> Seq(Entries)]
      /\ inode \in [Paths -> Inodes \cup {NoFile}]
  BY DEF Locked, Types, Paths
<1>2. /\ vacuum[p].step \in {"created", "copied"}
      /\ vacuum'[p].step \in {"copied", "flushed"} /\ vacuum'[p].inode = vacuum[p].inode
      /\ vacuum' \in [Procs -> [step : Steps, inode : Inodes \cup {NoFile}]]
      /\ \A q \in Procs : q # p => vacuum'[q] = vacuum[q]
      /\ UNCHANGED <<inode, lock, conn>>
    BY <1>1, VacuumGoes DEF VacuumCopy, VacuumFlush, Steps
<1>3. inode["tmp"] \in Inodes /\ vacuum[p].inode \in Inodes
  BY <1>1, <1>2 DEF Locked, Rebuilding, Making, Numbered, Types
<1>4. FilesKept /\ wal' \in [Paths -> Seq(Entries)]
  <2>1. CASE VacuumCopy(p)
    <3> DEFINE items == main[vacuum[p].inode].items
               S == {[layout |-> inode["tmp"], item |-> w] : w \in items}
    <3>1. items \in SUBSET Writes /\ IsFiniteSet(items)
      BY <1>1, <1>3 DEF Mains
    <3>2. S \in SUBSET Entries
      BY <1>3, <3>1 DEF Entries
    <3>3. IsFiniteSet(S)
      <4>1. [w \in items |-> [layout |-> inode["tmp"], item |-> w]] \in Surjection(items, S)
        BY DEF Surjection
      <4> QED
        BY <3>1, <4>1, FS_Surjection
    <3>4. SetToSeq(S) \in Seq(Entries)
      BY <3>2, <3>3, SetToSeqTyped
    <3>5. wal' = [wal EXCEPT !["tmp"] = wal["tmp"] \o SetToSeq(S)] /\ UNCHANGED main
      BY <2>1, <1>1 DEF VacuumCopy
    <3>6. wal["tmp"] \o SetToSeq(S) \in Seq(Entries)
      BY <1>1, <3>4, ConcatProperties
    <3> HIDE DEF S
    <3> QED
      BY <1>1, <3>5, <3>6 DEF FilesKept
  <2>2. CASE VacuumFlush(p)
    BY <1>1, <1>3, <2>2, CheckpointKeeps DEF VacuumFlush
  <2>3. VacuumCopy(p) \/ VacuumFlush(p)
    OBVIOUS
  <2> QED
    BY <2>1, <2>2, <2>3
<1>5. Types'
  BY <1>1, <1>2, <1>4 DEF Types, FilesKept
<1>6. Holding'
  BY <1>1, <1>2 DEF Locked, Holding, HoldsDb, HoldsTmp, Opened
<1>7. Numbered'
  BY <1>1, <1>2, <1>4, <1>5, NumberedKept
<1>8. Rebuilding'
  BY <1>2 DEF Locked, Rebuilding, Making
<1>9. Transacting'
  <2>1. ~ Opened(p) /\ \A q \in Procs : ~ Opened(q)
    BY <1>2 DEF Locked, Holding, HoldsDb, Opened
  <2> QED
    BY <1>2, <2>1 DEF Transacting, Opened
<1> QED
  BY <1>5, <1>6, <1>7, <1>8, <1>9 DEF Locked

\* A vacuum that makes its new file, closes a file or renames.
LEMMA VacuumHandleStep ==
    ASSUME Locked, NEW p \in Procs,
           VacuumCreate(p) \/ VacuumCloseTmp(p) \/ VacuumCloseDb(p) \/ VacuumRename(p)
    PROVE  Locked'
<1>1. /\ Types /\ Numbered /\ "db" \in Paths /\ "tmp" \in Paths
      /\ main \in [Inodes -> Mains] /\ lock \in [Paths -> Procs \cup {NoProc}]
      /\ inode \in [Paths -> Inodes \cup {NoFile}]
      /\ vacuum \in [Procs -> [step : Steps, inode : Inodes \cup {NoFile}]]
  BY DEF Locked, Types, Paths
<1>2. CASE VacuumCreate(p)
  <2>1. /\ NextInode \in Inodes /\ inode["tmp"] = NoFile /\ lock["tmp"] = NoProc
        /\ lock' = [lock EXCEPT !["tmp"] = p]
        /\ inode' = [inode EXCEPT !["tmp"] = NextInode] /\ main' = NewMain(NextInode)
        /\ UNCHANGED <<wal, conn>>
    BY <1>2 DEF VacuumCreate, TakeName, MayTake
  <2>2. /\ vacuum[p].step = "opened" /\ vacuum'[p].step = "created" /\ vacuum'[p].inode = vacuum[p].inode
        /\ vacuum' \in [Procs -> [step : Steps, inode : Inodes \cup {NoFile}]]
        /\ \A q \in Procs : q # p => vacuum'[q] = vacuum[q]
    BY <1>1, <1>2, VacuumGoes DEF VacuumCreate, Steps
  <2>3. main' \in [Inodes -> Mains]
    BY <1>1, <2>1, FS_EmptySet DEF NewMain, Mains
  <2>4. /\ inode' \in [Paths -> Inodes \cup {NoFile}]
        /\ inode'["tmp"] = NextInode /\ \A path \in Paths : path # "tmp" => inode'[path] = inode[path]
    BY <1>1, <2>1
  <2>5. Types'
    BY <1>1, <2>1, <2>2, <2>3, <2>4 DEF Types
  <2>6. Holding'
    BY <1>1, <2>1, <2>2, ConnectionAssumption DEF Locked, Holding, HoldsDb, HoldsTmp, Opened
  <2>7. Numbered'
    <3>1. \A k \in Inodes : main'[k].layout = IF k = NextInode THEN k ELSE main[k].layout
      BY <1>1, <2>1 DEF NewMain
    <3>2. \E n \in Nat : {k \in Inodes : main'[k].layout # NoFile} = 1..n
      BY <1>1, <2>1, NextIsNew
    <3>3. \A path \in Paths : inode'[path] # NoFile => main'[inode'[path]].layout = inode'[path]
      BY <1>1, <2>1, <2>4, <3>1 DEF Numbered
    <3>4. \A q \in Procs : Opened(q)' => main'[conn'[q].inode].layout = conn'[q].inode
      <4>1. \A q \in Procs : conn[q].inode \in Inodes \cup {NoFile}
        BY <1>1 DEF Types
      <4> QED
        BY <1>1, <2>1, <3>1, <4>1 DEF Numbered, Opened
    <3> QED
      BY <1>1, <2>1, <2>2, <3>1, <3>2, <3>3, <3>4 DEF Numbered
  <2>8. Rebuilding'
    BY <1>1, <2>1, <2>2, <2>4 DEF Locked, Rebuilding, Making, Inodes, NoFile
  <2>9. Transacting'
    BY <2>1 DEF Locked, Transacting, Opened
  <2> QED
    BY <2>5, <2>6, <2>7, <2>8, <2>9 DEF Locked
<1>3. CASE VacuumCloseTmp(p) \/ VacuumCloseDb(p)
  <2>1. UNCHANGED <<inode, main, wal, conn>> /\ FilesKept
    BY <1>1, <1>3 DEF VacuumCloseTmp, VacuumCloseDb, FilesKept
  <2>2. /\ \/ vacuum[p].step = "flushed" /\ vacuum'[p].step = "parted" /\ lock' = Unlocked({"tmp"})
           \/ vacuum[p].step = "parted" /\ vacuum'[p].step = "closed" /\ lock' = Unlocked({"db"})
        /\ vacuum'[p].inode = vacuum[p].inode
        /\ vacuum' \in [Procs -> [step : Steps, inode : Inodes \cup {NoFile}]]
        /\ \A q \in Procs : q # p => vacuum'[q] = vacuum[q]
    BY <1>1, <1>3, VacuumGoes DEF VacuumCloseTmp, VacuumCloseDb, Steps
  <2>3. lock' \in [Paths -> Procs \cup {NoProc}]
    BY <1>1, <2>2 DEF Unlocked
  <2>4. Types'
    BY <1>1, <2>1, <2>2, <2>3 DEF Types
  <2>5. Holding'
    <3>1. CASE vacuum[p].step = "flushed"
      <4>1. lock["tmp"] = p /\ lock'["tmp"] = NoProc /\ lock'["db"] = lock["db"]
        BY <1>1, <2>2, <3>1 DEF Unlocked, Locked, Holding, HoldsTmp
      <4> QED
        BY <1>1, <2>1, <2>2, <3>1, <4>1, ConnectionAssumption DEF Locked, Holding, HoldsDb, HoldsTmp, Opened
    <3>2. CASE vacuum[p].step = "parted"
      <4>1. lock["db"] = p /\ lock'["db"] = NoProc /\ lock'["tmp"] = lock["tmp"]
        BY <1>1, <2>2, <3>2 DEF Unlocked, Locked, Holding, HoldsDb
      <4> QED
        BY <1>1, <2>1, <2>2, <3>2, <4>1, ConnectionAssumption DEF Locked, Holding, HoldsDb, HoldsTmp, Opened
    <3> QED
      BY <2>2, <3>1, <3>2
  <2>6. Numbered'
    BY <1>1, <2>1, <2>2, <2>4, NumberedKept
  <2>7. Rebuilding'
    BY <2>1, <2>2 DEF Locked, Rebuilding, Making
  <2>8. Transacting'
    BY <2>1 DEF Locked, Transacting, Opened
  <2> QED
    BY <2>4, <2>5, <2>6, <2>7, <2>8 DEF Locked
<1>4. CASE VacuumRename(p)
  <2>1. /\ vacuum[p].step = "closed" /\ vacuum' = [vacuum EXCEPT ![p] = NoVacuum]
        /\ inode' = [inode EXCEPT !["db"] = inode["tmp"], !["tmp"] = NoFile]
        /\ UNCHANGED <<main, wal, lock, conn>>
    BY <1>4 DEF VacuumRename
  <2>2. NoVacuum \in [step : Steps, inode : Inodes \cup {NoFile}] /\ NoVacuum.step = "none"
    BY DEF NoVacuum, Steps
  <2>3. /\ vacuum' \in [Procs -> [step : Steps, inode : Inodes \cup {NoFile}]]
        /\ vacuum'[p].step = "none"
        /\ \A q \in Procs : q # p => vacuum'[q] = vacuum[q]
    BY <1>1, <2>1, <2>2
  <2>4. /\ inode' \in [Paths -> Inodes \cup {NoFile}] /\ FilesKept
        /\ inode'["db"] = inode["tmp"] /\ inode'["tmp"] = NoFile
    BY <1>1, <2>1 DEF FilesKept, Paths
  <2>5. Types'
    BY <1>1, <2>1, <2>3, <2>4 DEF Types
  <2>6. Holding'
    <3>1. ~ Opened(p)
      BY <2>1 DEF Locked, Holding
    <3>3. lock["db"] # p /\ lock["tmp"] # p
      BY <2>1, <3>1 DEF Locked, Holding, HoldsDb, HoldsTmp
    <3>4. ~ Opened(p)' /\ ~ HoldsDb(p)' /\ ~ HoldsTmp(p)'
      BY <2>1, <2>3, <3>1 DEF HoldsDb, HoldsTmp, Opened
    <3>2. ASSUME NEW q \in Procs, q # p
          PROVE  /\ HoldsDb(q)' = HoldsDb(q) /\ HoldsTmp(q)' = HoldsTmp(q)
                 /\ Opened(q)' = Opened(q) /\ vacuum'[q] = vacuum[q]
      BY <2>1, <2>3, <3>2 DEF HoldsDb, HoldsTmp, Opened
    <3> QED
      BY <2>1, <3>2, <3>3, <3>4 DEF Locked, Holding
  <2>7. Numbered'
    BY <1>1, <2>1, <2>3, <2>4, <2>5, NumberedKept DEF Paths
  <2>8. Rebuilding'
    BY <2>1, <2>3, <2>4 DEF Locked, Rebuilding, Making
  <2>9. Transacting'
    BY <2>1 DEF Locked, Transacting, Opened
  <2> QED
    BY <2>5, <2>6, <2>7, <2>8, <2>9 DEF Locked
<1> QED
  BY <1>2, <1>3, <1>4

\* Every step keeps the handles apart.
LEMMA LockedNext == Locked /\ [ConnNext]_cvars => Locked'
<1> SUFFICES ASSUME Locked, [ConnNext]_cvars PROVE Locked'
  OBVIOUS
<1>1. ASSUME NEW p \in Procs, ConnStep(p) PROVE Locked'
  BY <1>1, OpenStep, CallStep, ReleaseStep, VacuumStep, VacuumHandleStep DEF ConnStep
<1>2. CASE UNCHANGED cvars
  <2>1. Types'
    BY <1>2 DEF cvars, Locked, Types
  <2>2. Holding'
    BY <1>2 DEF cvars, Locked, Holding, HoldsDb, HoldsTmp, Opened
  <2>3. Numbered' /\ Rebuilding'
    BY <1>2 DEF cvars, Locked, Numbered, Rebuilding, Opened
  <2>4. Transacting'
    BY <1>2 DEF cvars, Locked, Transacting, Opened
  <2> QED
    BY <2>1, <2>2, <2>3, <2>4 DEF Locked
<1> QED
  BY <1>1, <1>2 DEF ConnNext

\* The lock file of a path is with the process that has a handle on it, the files that are named exist
\* and have the layout they were made with, and a snapshot is within the log.
THEOREM LockedInvariant == ConnSpec => []Locked
<1>1. ConnInit => Locked
  BY LockedInit
<1>2. Locked /\ [ConnNext]_cvars => Locked'
  BY LockedNext
<1> QED
  BY <1>1, <1>2, PTL DEF ConnSpec

\* Two handles never work on one main file or one log: the lock of acquire_lock and the order in
\* which vacuum_file takes and drops its handles keep them apart, whatever dies when.
THEOREM HoldersApart == ConnSpec => []OneHolder
<1>1. Locked => OneHolder
  BY DEF Locked, Holding, OneHolder, HoldsDb, HoldsTmp, Opened
<1> QED
  BY <1>1, LockedInvariant, PTL

-----------------------------------------------------------------------------
\* What has settled.

\* One process at a time has a handle on the database or a vacuum under way.
Single == \A p, q \in Procs : ~ Idle(p) /\ ~ Idle(q) => p = q

\* Logs have pages of the layout of the file they belong to, and no file is damaged.
Whole ==
    /\ \A path \in Paths : \A k \in DOMAIN wal[path] : wal[path][k].layout = inode[path]
    /\ inode["db"] # NoFile => inode["db"] # inode["tmp"]
    /\ \A k \in Inodes : main[k].sound

\* What a file and a log say together.
Said(k, log) == main[k].items \cup Items(log)

\* What has settled is in the database, and in what a rollback would leave of it.
Kept ==
    /\ inode["db"] = NoFile => settled = {}
    /\ inode["db"] # NoFile => settled \subseteq Said(inode["db"], wal["db"])
    /\ \A p \in Procs : Opened(p) =>
        /\ conn[p].inode = inode["db"]
        /\ conn[p].pending # NoTransaction =>
               settled \subseteq Said(inode["db"], SubSeq(wal["db"], 1, conn[p].pending))

\* A vacuum reads the database, whose log is empty, and the new file has all of it once copied.
Copying ==
    \A p \in Procs : vacuum[p].step # "none" =>
        /\ vacuum[p].inode = inode["db"] /\ inode["db"] # NoFile /\ wal["db"] = <<>>
        /\ vacuum[p].step = "copied" => main[inode["db"]].items \subseteq Said(inode["tmp"], wal["tmp"])
        /\ vacuum[p].step \in {"flushed", "parted", "closed"} =>
               main[inode["db"]].items \subseteq main[inode["tmp"]].items /\ wal["tmp"] = <<>>

\* The inductive invariant behind SettledStays.
Preserved == Locked /\ Single /\ Whole /\ Kept /\ Copying

\* An empty log says nothing.
LEMMA EmptyItems == Items(<<>>) = {}
  BY DEF Items

\* A checkpoint brings the log into its file, which stays undamaged.
LEMMA CheckpointDone ==
    ASSUME Locked, Whole, NEW path \in Paths, inode[path] # NoFile, Checkpointed(inode[path], path)
    PROVE  /\ inode[path] \in Inodes
           /\ main'[inode[path]].items = Said(inode[path], wal[path])
           /\ \A k \in Inodes : main'[k].sound
           /\ \A k \in Inodes : k # inode[path] => main'[k] = main[k]
           /\ wal'[path] = <<>> /\ \A q \in Paths : q # path => wal'[q] = wal[q]
<1>1. /\ inode[path] \in Inodes /\ main \in [Inodes -> Mains] /\ wal \in [Paths -> Seq(Entries)]
      /\ main[inode[path]].layout = inode[path]
  BY DEF Locked, Types, Numbered
<1>2. /\ Replayed(main[inode[path]], wal[path]).items = main[inode[path]].items \cup Items(wal[path])
      /\ Replayed(main[inode[path]], wal[path]).sound
  <2>1. main[inode[path]].sound /\ \A k \in DOMAIN wal[path] : wal[path][k].layout = main[inode[path]].layout
    BY <1>1 DEF Whole
  <2>2. main[inode[path]] \in Mains /\ wal[path] \in Seq(Entries)
    BY <1>1
  <2> QED
    BY <2>1, <2>2, ReplayedTyped
<1>3. /\ main'[inode[path]] = Replayed(main[inode[path]], wal[path])
      /\ \A k \in Inodes : k # inode[path] => main'[k] = main[k]
      /\ wal'[path] = <<>> /\ \A q \in Paths : q # path => wal'[q] = wal[q]
  BY <1>1 DEF Checkpointed
<1> QED
  BY <1>1, <1>2, <1>3 DEF Said, Whole

\* Nothing has settled at first.
LEMMA PreservedInit == ConnInit => Preserved
<1> SUFFICES ASSUME ConnInit PROVE Preserved
  OBVIOUS
<1> USE DEF ConnInit, NoFile, NoVacuum, Closed
<1>1. Locked
  BY LockedInit
<1>2. Single
  BY DEF Single, Idle, Opened
<1>3. Whole
  BY DEF Whole, Paths
<1>4. Kept
  BY DEF Kept, Opened, Paths
<1>5. Copying
  BY DEF Copying
<1> QED
  BY <1>1, <1>2, <1>3, <1>4, <1>5 DEF Preserved

\* What the invariant says in every proof below.
LEMMA PreservedTypes ==
    ASSUME Locked
    PROVE  /\ "db" \in Paths /\ "tmp" \in Paths /\ Paths = {"db", "tmp"}
           /\ main \in [Inodes -> Mains] /\ wal \in [Paths -> Seq(Entries)]
           /\ inode \in [Paths -> Inodes \cup {NoFile}] /\ lock \in [Paths -> Procs \cup {NoProc}]
           /\ conn \in [Procs -> [inode : Inodes \cup {NoFile}, pending : Int, poisoned : BOOLEAN]]
           /\ vacuum \in [Procs -> [step : Steps, inode : Inodes \cup {NoFile}]]
           /\ NoFile \notin Inodes
  BY DEF Locked, Types, Paths, Inodes, NoFile

\* Whoever makes or opens the database finds what has settled in the file and its log.
LEMMA OpenPreserves ==
    ASSUME Alone = TRUE, Preserved, NEW p \in Procs, Create(p) \/ Open(p) \/ VacuumOpen(p), Locked'
    PROVE  Preserved'
<1>1. /\ "db" \in Paths /\ "tmp" \in Paths /\ Paths = {"db", "tmp"}
      /\ main \in [Inodes -> Mains] /\ wal \in [Paths -> Seq(Entries)]
      /\ inode \in [Paths -> Inodes \cup {NoFile}]
      /\ conn \in [Procs -> [inode : Inodes \cup {NoFile}, pending : Int, poisoned : BOOLEAN]]
      /\ vacuum \in [Procs -> [step : Steps, inode : Inodes \cup {NoFile}]]
      /\ NoFile \notin Inodes
  BY PreservedTypes DEF Preserved
<1>2. /\ Idle(p) /\ lock["db"] = NoProc
      /\ \A q \in Procs : vacuum[q].step # "closed"
  BY DEF Create, Open, VacuumOpen, TakeName, MayTake, NotReplaced
<1>3. \A q \in Procs : Idle(q) /\ ~ Opened(q) /\ vacuum[q].step = "none"
  <2>1. \A q \in Procs : ~ HoldsDb(q)
    BY <1>2, ConnectionAssumption DEF Preserved, Locked, Holding
  <2>2. \A q \in Procs : vacuum[q].step \in Steps
    BY <1>1
  <2> QED
    BY <1>2, <2>1, <2>2 DEF HoldsDb, Idle, Steps
<1>4. CASE Create(p)
  <2>1. /\ NextInode \in Inodes /\ inode["db"] = NoFile
        /\ inode' = [inode EXCEPT !["db"] = NextInode] /\ main' = NewMain(NextInode)
        /\ conn' = [conn EXCEPT ![p] = [Closed EXCEPT !.inode = NextInode]]
        /\ UNCHANGED <<wal, vacuum, settled>>
    BY <1>4 DEF Create
  <2>2. /\ conn'[p].inode = NextInode /\ conn'[p].pending = NoTransaction
        /\ \A q \in Procs : q # p => conn'[q] = conn[q]
    BY <1>1, <2>1, ClosedTyped
  <2>3. main[NextInode].layout = NoFile
    BY <2>1, NextIsNew DEF Preserved, Locked
  <2>4. inode'["db"] = NextInode /\ inode'["tmp"] = inode["tmp"] /\ inode["tmp"] # NextInode
    BY <1>1, <2>1, <2>3 DEF Preserved, Locked, Numbered
  <2>5. \A k \in DOMAIN wal["db"] : FALSE
    <3>1. \A k \in DOMAIN wal["db"] : wal["db"][k] \in Entries
      BY <1>1
    <3> QED
      BY <1>1, <2>1, <3>1 DEF Preserved, Whole, Entries
  <2>6. Whole'
    <3>1. \A k \in Inodes : main'[k].sound
      BY <1>1, <2>1 DEF NewMain, Preserved, Whole
    <3>2. \A path \in Paths : \A k \in DOMAIN wal'[path] : wal'[path][k].layout = inode'[path]
      BY <1>1, <2>1, <2>4, <2>5 DEF Preserved, Whole
    <3> QED
      BY <2>4, <3>1, <3>2 DEF Whole
  <2>7. Kept'
    BY <1>1, <1>3, <2>1, <2>2, <2>4 DEF Preserved, Kept, Opened
  <2>8. Single' /\ Copying'
    BY <1>3, <2>1, <2>2 DEF Single, Copying, Idle, Opened
  <2> QED
    BY <2>6, <2>7, <2>8 DEF Preserved
<1>5. CASE Open(p) \/ VacuumOpen(p)
  <2>1. inode["db"] # NoFile /\ Checkpointed(inode["db"], "db") /\ UNCHANGED <<inode, settled>>
    BY <1>5 DEF Open, VacuumOpen
  <2>2. /\ inode["db"] \in Inodes
        /\ main'[inode["db"]].items = Said(inode["db"], wal["db"])
        /\ \A k \in Inodes : main'[k].sound
        /\ wal'["db"] = <<>> /\ wal'["tmp"] = wal["tmp"]
    BY <1>1, <2>1, CheckpointDone DEF Preserved
  <2>3. /\ UNCHANGED conn \/ (conn'[p].inode = inode["db"] /\ conn'[p].pending = NoTransaction)
        /\ \A q \in Procs : q # p => conn'[q] = conn[q]
    <3>1. /\ [Closed EXCEPT !.inode = inode["db"]].inode = inode["db"]
          /\ [Closed EXCEPT !.inode = inode["db"]].pending = NoTransaction
      BY <2>2, ClosedTyped
    <3>2. UNCHANGED conn \/ conn' = [conn EXCEPT ![p] = [Closed EXCEPT !.inode = inode["db"]]]
      BY <1>5 DEF Open, VacuumOpen
    <3> QED
      BY <1>1, <3>1, <3>2
  <2>4. /\ UNCHANGED vacuum \/ vacuum'[p] = [step |-> "opened", inode |-> inode["db"]]
        /\ \A q \in Procs : q # p => vacuum'[q] = vacuum[q]
    BY <1>1, <1>5 DEF Open, VacuumOpen
  <2>5. Whole'
    BY <1>1, <2>1, <2>2 DEF Preserved, Whole
  <2>6. Kept'
    <3>1. settled' \subseteq Said(inode["db"], wal["db"])
      BY <2>1 DEF Preserved, Kept
    <3>2. Said(inode["db"], wal["db"])' = Said(inode["db"], wal["db"])
      BY <2>1, <2>2, EmptyItems DEF Said
    <3> QED
      BY <1>3, <2>1, <2>3, <3>1, <3>2 DEF Kept, Opened
  <2>7. Single'
    BY <1>3, <2>3, <2>4 DEF Single, Idle, Opened
  <2>8. Copying'
    BY <1>3, <2>1, <2>2, <2>4 DEF Copying
  <2> QED
    BY <2>5, <2>6, <2>7, <2>8 DEF Preserved
<1> QED
  BY <1>4, <1>5

\* A call on the connection that is open moves no handle; what is left to show is about files,
\* logs and what has settled.
LEMMA CallKeeps ==
    ASSUME Preserved, NEW p \in Procs, Opened(p), Locked', UNCHANGED <<inode, vacuum>>,
           \A q \in Procs : conn'[q].inode = conn[q].inode,
           Whole', settled' \subseteq Said(inode["db"], wal["db"])',
           conn'[p].pending # NoTransaction =>
               settled' \subseteq Said(inode["db"], SubSeq(wal["db"], 1, conn[p].pending))'
    PROVE  Preserved'
<1>1. /\ "db" \in Paths /\ inode \in [Paths -> Inodes \cup {NoFile}]
      /\ conn \in [Procs -> [inode : Inodes \cup {NoFile}, pending : Int, poisoned : BOOLEAN]] /\ NoFile \notin Inodes
  BY PreservedTypes DEF Preserved
<1>2. conn[p].inode = inode["db"] /\ inode["db"] # NoFile
  BY DEF Preserved, Kept, Opened
<1>3. \A q \in Procs : q # p => Idle(q)
  BY DEF Preserved, Single, Idle
<1>4. \A q \in Procs : vacuum[q].step = "none"
  BY <1>3 DEF Idle, Preserved, Locked, Holding
<1>5. Single'
  BY DEF Preserved, Single, Idle, Opened
<1>6. Kept'
  BY <1>2, <1>3 DEF Kept, Opened, Idle
<1>7. Copying'
  BY <1>4 DEF Copying
<1> QED
  BY <1>5, <1>6, <1>7 DEF Preserved

\* A log with an entry more says what it said before, and its prefixes do too.
LEMMA LoggedItems ==
    ASSUME Locked, Whole, NEW p \in Procs, Opened(p), conn[p].inode = inode["db"], NEW w \in Writes
    PROVE  /\ Items(Logged(p, w)) = Items(wal["db"]) \cup {w}
           /\ \A k \in DOMAIN Logged(p, w) : Logged(p, w)[k].layout = inode["db"]
           /\ \A n \in 0..Len(wal["db"]) : Items(SubSeq(Logged(p, w), 1, n)) = Items(SubSeq(wal["db"], 1, n))
<1> DEFINE e == [layout |-> main[conn[p].inode].layout, item |-> w]
           log == wal["db"]
<1>1. /\ "db" \in Paths /\ main \in [Inodes -> Mains] /\ wal \in [Paths -> Seq(Entries)]
      /\ inode \in [Paths -> Inodes \cup {NoFile}]
  BY PreservedTypes
<1>2. e.layout = inode["db"] /\ e.item = w /\ e \in Entries /\ log \in Seq(Entries)
  BY <1>1 DEF Locked, Numbered, Opened, Entries
<1> HIDE DEF e
<1>3. Items(Append(log, e)) = Items(log) \cup {w}
  BY <1>2, AppendItems
<1>4. \A k \in DOMAIN Append(log, e) : Append(log, e)[k].layout = inode["db"]
  <2>1. \A k \in DOMAIN log : log[k].layout = inode["db"]
    BY <1>1 DEF Whole
  <2>2. \A k \in DOMAIN Append(log, e) : Append(log, e)[k] = e \/ (k \in DOMAIN log /\ Append(log, e)[k] = log[k])
    BY <1>2
  <2> QED
    BY <1>2, <2>1, <2>2
<1>5. ASSUME NEW n \in 0..Len(log)
      PROVE  SubSeq(Append(log, e), 1, n) = SubSeq(log, 1, n)
  <2>1. Append(log, e) \in Seq(Entries) /\ n \in 0..Len(Append(log, e))
        /\ \A k \in 1..n : Append(log, e)[k] = log[k]
    BY <1>2
  <2>2. /\ SubSeq(log, 1, n) \in Seq(Entries) /\ SubSeq(Append(log, e), 1, n) \in Seq(Entries)
        /\ Len(SubSeq(log, 1, n)) = n /\ Len(SubSeq(Append(log, e), 1, n)) = n
        /\ \A k \in 1..n : SubSeq(log, 1, n)[k] = log[k] /\ SubSeq(Append(log, e), 1, n)[k] = Append(log, e)[k]
    BY <1>2, <2>1, CutItems
  <2> QED
    BY <2>1, <2>2, SeqEqual
<1>6. Logged(p, w) = Append(log, e)
  BY DEF Logged, e
<1> QED
  BY <1>3, <1>4, <1>5, <1>6

\* A write, a commit and a rollback leave what has settled.
LEMMA CallPreserves ==
    ASSUME Preserved, NEW p \in Procs, Locked',
           \/ BeginTransaction(p) \/ Commit(p) \/ CommitFails(p) \/ Rollback(p)
           \/ \E w \in Writes : Write(p, w) \/ Panic(p, w)
    PROVE  Preserved'
<1>1. /\ "db" \in Paths /\ "tmp" \in Paths /\ Paths = {"db", "tmp"}
      /\ main \in [Inodes -> Mains] /\ wal \in [Paths -> Seq(Entries)]
      /\ inode \in [Paths -> Inodes \cup {NoFile}]
      /\ conn \in [Procs -> [inode : Inodes \cup {NoFile}, pending : Int, poisoned : BOOLEAN]]
      /\ NoFile \notin Inodes /\ wal["db"] \in Seq(Entries) /\ NoTransaction \in Int
  BY PreservedTypes DEF Preserved, NoTransaction
<1>2. Opened(p)
  BY DEF BeginTransaction, Commit, CommitFails, Rollback, Write, Panic, Usable
<1>3. /\ conn[p].inode = inode["db"] /\ inode["db"] # NoFile /\ inode["db"] \in Inodes
      /\ settled \subseteq Said(inode["db"], wal["db"])
      /\ conn[p].pending # NoTransaction =>
             settled \subseteq Said(inode["db"], SubSeq(wal["db"], 1, conn[p].pending))
      /\ conn[p].pending \in 0..Len(wal["db"]) \cup {NoTransaction}
  BY <1>1, <1>2 DEF Preserved, Kept, Opened, Locked, Transacting
<1>4. CASE BeginTransaction(p)
  <2>1. /\ UNCHANGED <<inode, main, wal, vacuum, settled>>
        /\ conn' = [conn EXCEPT ![p].pending = Len(wal["db"])]
    BY <1>4 DEF BeginTransaction
  <2>2. (\A q \in Procs : conn'[q].inode = conn[q].inode) /\ conn'[p].pending = Len(wal["db"])
    BY <1>1, <2>1
  <2>3. SubSeq(wal["db"], 1, Len(wal["db"])) = wal["db"]
    BY <1>1
  <2>4. Whole'
    BY <2>1 DEF Preserved, Whole
  <2> QED
    BY <1>2, <1>3, <2>1, <2>2, <2>3, <2>4, CallKeeps DEF Said
<1>5. CASE Commit(p)
  <2>1. /\ UNCHANGED <<inode, vacuum>> /\ settled' = settled \cup View(p)
        /\ conn' = [conn EXCEPT ![p].pending = NoTransaction] /\ Checkpointed(inode["db"], "db")
    BY <1>3, <1>5 DEF Commit
  <2>2. (\A q \in Procs : conn'[q].inode = conn[q].inode) /\ conn'[p].pending = NoTransaction
    BY <1>1, <2>1
  <2>3. /\ main'[inode["db"]].items = Said(inode["db"], wal["db"])
        /\ \A k \in Inodes : main'[k].sound
        /\ wal'["db"] = <<>> /\ wal'["tmp"] = wal["tmp"]
    BY <1>1, <1>3, <2>1, CheckpointDone DEF Preserved
  <2>4. Whole'
    BY <1>1, <2>1, <2>3 DEF Preserved, Whole
  <2>5. settled' \subseteq Said(inode["db"], wal["db"])
    BY <1>3, <2>1 DEF View, Said
  <2>6. Said(inode["db"], wal["db"])' = Said(inode["db"], wal["db"])
    BY <2>1, <2>3, EmptyItems DEF Said
  <2> QED
    BY <1>2, <2>1, <2>2, <2>4, <2>5, <2>6, CallKeeps
<1>6. CASE CommitFails(p)
  <2>1. /\ UNCHANGED <<inode, main, wal, vacuum, settled>>
        /\ conn' = [conn EXCEPT ![p].pending = NoTransaction]
    BY <1>6 DEF CommitFails
  <2>2. (\A q \in Procs : conn'[q].inode = conn[q].inode) /\ conn'[p].pending = NoTransaction
    BY <1>1, <2>1
  <2>3. Whole'
    BY <2>1 DEF Preserved, Whole
  <2> QED
    BY <1>2, <1>3, <2>1, <2>2, <2>3, CallKeeps DEF Said
<1>7. CASE Rollback(p)
  <2>1. /\ UNCHANGED <<inode, main, vacuum, settled>> /\ conn[p].pending \in 0..Len(wal["db"])
        /\ conn' = [conn EXCEPT ![p].pending = NoTransaction] /\ wal' = Cut(conn[p].pending)
        /\ settled \subseteq Said(inode["db"], SubSeq(wal["db"], 1, conn[p].pending))
    BY <1>3, <1>7 DEF Rollback
  <2>2. (\A q \in Procs : conn'[q].inode = conn[q].inode) /\ conn'[p].pending = NoTransaction
    BY <1>1, <2>1
  <2>3. wal'["db"] = SubSeq(wal["db"], 1, conn[p].pending) /\ wal'["tmp"] = wal["tmp"]
    BY <1>1, <2>1 DEF Cut
  <2>4. \A k \in DOMAIN wal'["db"] : k \in DOMAIN wal["db"] /\ wal'["db"][k] = wal["db"][k]
    <3>1. /\ SubSeq(wal["db"], 1, conn[p].pending) \in Seq(Entries)
          /\ Len(SubSeq(wal["db"], 1, conn[p].pending)) = conn[p].pending
          /\ \A k \in 1..conn[p].pending : SubSeq(wal["db"], 1, conn[p].pending)[k] = wal["db"][k]
      BY <1>1, <2>1, CutItems
    <3> QED
      BY <1>1, <2>1, <2>3, <3>1
  <2>5. Whole'
    <3>1. \A k \in DOMAIN wal'["db"] : wal'["db"][k].layout = inode'["db"]
      BY <1>1, <2>1, <2>4 DEF Preserved, Whole
    <3>2. \A k \in DOMAIN wal'["tmp"] : wal'["tmp"][k].layout = inode'["tmp"]
      BY <1>1, <2>1, <2>3 DEF Preserved, Whole
    <3>3. (inode'["db"] # NoFile => inode'["db"] # inode'["tmp"]) /\ \A k \in Inodes : main'[k].sound
      BY <2>1 DEF Preserved, Whole
    <3> QED
      BY <1>1, <3>1, <3>2, <3>3 DEF Whole
  <2> QED
    BY <1>2, <2>1, <2>2, <2>3, <2>5, CallKeeps DEF Said
<1>8. CASE \E w \in Writes : Write(p, w) \/ Panic(p, w)
  <2>1. PICK w \in Writes : Write(p, w) \/ Panic(p, w)
    BY <1>8
  <2>2. /\ UNCHANGED <<inode, main, vacuum>> /\ wal' = [wal EXCEPT !["db"] = Logged(p, w)]
        /\ UNCHANGED conn \/ conn' = [conn EXCEPT ![p].poisoned = TRUE]
        /\ UNCHANGED settled \/ (settled' = settled \cup {w} /\ conn[p].pending = NoTransaction)
    BY <2>1 DEF Write, Panic
  <2>3. (\A q \in Procs : conn'[q].inode = conn[q].inode) /\ conn'[p].pending = conn[p].pending
    <3>1. conn \in [Procs -> [inode : Inodes \cup {NoFile}, pending : Int, poisoned : BOOLEAN]]
      BY <1>1
    <3>2. CASE UNCHANGED conn
      BY <3>2
    <3>3. CASE conn' = [conn EXCEPT ![p].poisoned = TRUE]
      BY <3>1, <3>3
    <3> QED
      BY <2>2, <3>2, <3>3
  <2>4. /\ Items(Logged(p, w)) = Items(wal["db"]) \cup {w}
        /\ \A k \in DOMAIN Logged(p, w) : Logged(p, w)[k].layout = inode["db"]
        /\ \A n \in 0..Len(wal["db"]) : Items(SubSeq(Logged(p, w), 1, n)) = Items(SubSeq(wal["db"], 1, n))
    BY <1>2, <1>3, LoggedItems DEF Preserved
  <2>5. wal'["db"] = Logged(p, w) /\ wal'["tmp"] = wal["tmp"]
    BY <1>1, <2>2
  <2>6. Whole'
    BY <1>1, <2>2, <2>4, <2>5 DEF Preserved, Whole
  <2>7. settled' \subseteq Said(inode["db"], wal["db"])'
    BY <1>3, <2>2, <2>4, <2>5 DEF Said
  <2>8. conn'[p].pending # NoTransaction =>
               settled' \subseteq Said(inode["db"], SubSeq(wal["db"], 1, conn[p].pending))'
    BY <1>3, <2>2, <2>3, <2>4, <2>5 DEF Said
  <2> QED
    BY <1>2, <2>2, <2>3, <2>6, <2>7, <2>8, CallKeeps
<1> QED
  BY <1>4, <1>5, <1>6, <1>7, <1>8

\* After a process has dropped what it held, no one works on the database; what is left to show
\* is about files, logs and what has settled.
LEMMA ReleaseKeeps ==
    ASSUME Preserved, NEW p \in Procs, ~ Idle(p), Locked', UNCHANGED <<inode, settled>>,
           conn'[p].inode = NoFile, vacuum'[p].step = "none",
           \A q \in Procs : q # p => conn'[q] = conn[q] /\ vacuum'[q] = vacuum[q],
           Whole', inode["db"] # NoFile => settled \subseteq Said(inode["db"], wal["db"])'
    PROVE  Preserved'
<1>1. \A q \in Procs : ~ Opened(q)' /\ vacuum'[q].step = "none"
  BY DEF Preserved, Single, Idle, Opened
<1>2. Single'
  BY <1>1 DEF Single, Idle
<1>3. Kept'
  BY <1>1 DEF Preserved, Kept
<1>4. Copying'
  BY <1>1 DEF Copying
<1> QED
  BY <1>2, <1>3, <1>4 DEF Preserved

\* A handle that is closed, dropped or dies with its process leaves what has settled.
LEMMA ReleasePreserves ==
    ASSUME Preserved, NEW p \in Procs, Locked', Close(p) \/ Drop(p) \/ Crash(p) \/ VacuumFail(p)
    PROVE  Preserved'
<1>1. /\ "db" \in Paths /\ "tmp" \in Paths /\ Paths = {"db", "tmp"}
      /\ main \in [Inodes -> Mains] /\ wal \in [Paths -> Seq(Entries)]
      /\ inode \in [Paths -> Inodes \cup {NoFile}] /\ NoFile \notin Inodes /\ wal["db"] \in Seq(Entries)
      /\ conn \in [Procs -> [inode : Inodes \cup {NoFile}, pending : Int, poisoned : BOOLEAN]]
      /\ vacuum \in [Procs -> [step : Steps, inode : Inodes \cup {NoFile}]]
  BY PreservedTypes DEF Preserved
<1>2. NoVacuum.step = "none" /\ Closed.inode = NoFile
  BY DEF NoVacuum, Closed
<1>3. CASE Close(p)
  <2>1. /\ Opened(p) /\ conn' = [conn EXCEPT ![p] = Closed] /\ UNCHANGED <<inode, vacuum, settled>>
        /\ wal' = [wal EXCEPT !["db"] = <<>>]
    BY <1>3 DEF Close, Usable, Released
  <2>2. vacuum[p].step = "none" /\ ~ Idle(p)
    BY <2>1 DEF Preserved, Locked, Holding, Idle
  <2>3. /\ conn[p].inode = inode["db"] /\ inode["db"] \in Inodes
        /\ main[inode["db"]] \in Mains /\ main[inode["db"]].layout = inode["db"]
        /\ conn[p].pending \in 0..Len(wal["db"]) \cup {NoTransaction}
    BY <1>1, <2>1 DEF Preserved, Kept, Opened, Locked, Transacting, Numbered
  <2>4. PICK log : /\ log = IF conn[p].pending = NoTransaction THEN wal["db"] ELSE Cut(conn[p].pending)["db"]
                   /\ main' = [main EXCEPT ![inode["db"]] = Replayed(@, log)]
    BY <1>3, <2>3 DEF Close
  <2>5. /\ log \in Seq(Entries) /\ settled \subseteq Said(inode["db"], log)
        /\ \A k \in DOMAIN log : log[k].layout = inode["db"]
    <3>1. CASE conn[p].pending = NoTransaction
      BY <1>1, <2>3, <2>4, <3>1 DEF Preserved, Kept, Whole
    <3>2. CASE conn[p].pending # NoTransaction
      <4>1. conn[p].pending \in 0..Len(wal["db"]) /\ log = SubSeq(wal["db"], 1, conn[p].pending)
        BY <1>1, <2>3, <2>4, <3>2 DEF Cut
      <4>2. /\ log \in Seq(Entries) /\ Len(log) = conn[p].pending
            /\ \A k \in 1..conn[p].pending : log[k] = wal["db"][k]
        BY <1>1, <4>1, CutItems
      <4>3. \A k \in DOMAIN log : k \in DOMAIN wal["db"] /\ log[k] = wal["db"][k]
        BY <1>1, <4>1, <4>2
      <4>4. settled \subseteq Said(inode["db"], log)
        BY <2>1, <3>2, <4>1 DEF Preserved, Kept
      <4> QED
        BY <1>1, <4>2, <4>3, <4>4 DEF Preserved, Whole
    <3> QED
      BY <3>1, <3>2
  <2>6. /\ Replayed(main[inode["db"]], log).items = main[inode["db"]].items \cup Items(log)
        /\ Replayed(main[inode["db"]], log).sound
    <3>1. main[inode["db"]].sound
      BY <2>3 DEF Preserved, Whole
    <3> QED
      BY <2>3, <2>5, <3>1, ReplayedTyped
  <2>7. /\ main'[inode["db"]] = Replayed(main[inode["db"]], log)
        /\ \A k \in Inodes : k # inode["db"] => main'[k] = main[k]
        /\ wal'["db"] = <<>> /\ wal'["tmp"] = wal["tmp"]
    BY <1>1, <2>1, <2>3, <2>4
  <2>8. Whole'
    <3>1. \A k \in DOMAIN wal'["tmp"] : wal'["tmp"][k].layout = inode'["tmp"]
      BY <1>1, <2>1, <2>7 DEF Preserved, Whole
    <3>2. \A k \in Inodes : main'[k].sound
      BY <2>6, <2>7 DEF Preserved, Whole
    <3>3. inode'["db"] # NoFile => inode'["db"] # inode'["tmp"]
      BY <2>1 DEF Preserved, Whole
    <3> QED
      BY <1>1, <2>7, <3>1, <3>2, <3>3 DEF Whole
  <2>9. settled \subseteq Said(inode["db"], wal["db"])'
    BY <2>1, <2>5, <2>6, <2>7, EmptyItems DEF Said
  <2> QED
    BY <1>1, <1>2, <2>1, <2>2, <2>8, <2>9, ReleaseKeeps
<1>4. CASE Drop(p) \/ Crash(p) \/ VacuumFail(p)
  <2>1. UNCHANGED <<inode, main, wal, settled>> /\ ~ Idle(p)
    BY <1>4 DEF Drop, Crash, VacuumFail, Idle
  <2>2. conn'[p].inode = NoFile /\ \A q \in Procs : q # p => conn'[q] = conn[q]
    <3>1. CASE conn' = [conn EXCEPT ![p] = Closed]
      BY <1>1, <1>2, <3>1
    <3>2. CASE VacuumFail(p)
      BY <3>2 DEF VacuumFail, Preserved, Locked, Holding, Opened
    <3> QED
      BY <1>4, <3>1, <3>2 DEF Drop, Released, Crash
  <2>3. vacuum'[p].step = "none" /\ \A q \in Procs : q # p => vacuum'[q] = vacuum[q]
    <3>1. CASE vacuum' = [vacuum EXCEPT ![p] = NoVacuum]
      BY <1>1, <1>2, <3>1
    <3>2. CASE Drop(p)
      BY <3>2 DEF Drop, Preserved, Locked, Holding
    <3> QED
      BY <1>4, <3>1, <3>2 DEF Crash, VacuumFail
  <2>4. Whole'
    BY <2>1 DEF Preserved, Whole
  <2>5. inode["db"] # NoFile => settled \subseteq Said(inode["db"], wal["db"])'
    BY <2>1 DEF Preserved, Kept, Said
  <2> QED
    BY <2>1, <2>2, <2>3, <2>4, <2>5, ReleaseKeeps
<1> QED
  BY <1>3, <1>4

\* While a vacuum is under way no one else works on the database; what is left to show is about
\* files, logs and the vacuum itself.
LEMMA VacuumKeeps ==
    ASSUME Preserved, NEW p \in Procs, vacuum[p].step # "none", Locked', UNCHANGED <<conn, settled>>,
           \A q \in Procs : q # p => vacuum'[q] = vacuum[q],
           Whole', inode'["db"] # NoFile, settled \subseteq Said(inode["db"], wal["db"])',
           vacuum'[p].step # "none" =>
               /\ vacuum'[p].inode = inode'["db"] /\ wal'["db"] = <<>>
               /\ vacuum'[p].step = "copied" => main'[inode'["db"]].items \subseteq Said(inode["tmp"], wal["tmp"])'
               /\ vacuum'[p].step \in {"flushed", "parted", "closed"} =>
                      main'[inode'["db"]].items \subseteq main'[inode'["tmp"]].items /\ wal'["tmp"] = <<>>
    PROVE  Preserved'
<1>1. \A q \in Procs : ~ Opened(q) /\ (q # p => vacuum[q].step = "none")
  BY DEF Preserved, Single, Idle, Locked, Holding
<1>2. Single'
  BY <1>1 DEF Single, Idle, Opened
<1>3. Kept'
  BY <1>1 DEF Kept, Opened
<1>4. Copying'
  BY <1>1 DEF Copying
<1> QED
  BY <1>2, <1>3, <1>4 DEF Preserved

\* The entries that a vacuum appends to the log of its new file are the items of the old file, as
\* pages of the new file.
Entered(log, k, items) == log \o SetToSeq({[layout |-> k, item |-> w] : w \in items})

\* Such a log has all the items, and no entry of a layout that it had not before.
LEMMA CopiedEntries ==
    ASSUME NEW k \in Inodes, NEW items \in SUBSET Writes, IsFiniteSet(items), NEW log \in Seq(Entries)
    PROVE  /\ items \subseteq Items(Entered(log, k, items))
           /\ \A n \in DOMAIN Entered(log, k, items) :
                  \/ Entered(log, k, items)[n].layout = k
                  \/ n \in DOMAIN log /\ Entered(log, k, items)[n] = log[n]
<1> DEFINE S == {[layout |-> k, item |-> w] : w \in items}
           copied == SetToSeq(S)
           both == log \o copied
<1>1. S \in SUBSET Entries
  BY DEF Entries
<1>2. IsFiniteSet(S)
  <2>1. [w \in items |-> [layout |-> k, item |-> w]] \in Surjection(items, S)
    BY DEF Surjection
  <2> QED
    BY <2>1, FS_Surjection
<1>3. copied \in Seq(Entries) /\ {copied[n] : n \in DOMAIN copied} = S
  BY <1>1, <1>2, SetToSeqTyped
<1>4. \A e \in S : e.layout = k
  OBVIOUS
<1>5. ASSUME NEW w \in items PROVE \E e \in S : e.item = w
  <2>1. [layout |-> k, item |-> w] \in S /\ [layout |-> k, item |-> w].item = w
    OBVIOUS
  <2> QED
    BY <2>1
<1> HIDE DEF S, copied
<1>6. /\ Len(both) = Len(log) + Len(copied) /\ both \in Seq(Entries)
      /\ \A n \in 1..Len(both) : both[n] = IF n <= Len(log) THEN log[n] ELSE copied[n - Len(log)]
  BY <1>3, ConcatProperties
<1>7. \A n \in DOMAIN copied : copied[n] \in S
  BY <1>3
<1>8. ASSUME NEW n \in DOMAIN both
      PROVE  both[n].layout = k \/ (n \in DOMAIN log /\ both[n] = log[n])
  <2>1. n \in 1..Len(both)
    BY <1>6
  <2>2. CASE n <= Len(log)
    BY <1>6, <2>1, <2>2
  <2>3. CASE ~ (n <= Len(log))
    <3>1. n - Len(log) \in DOMAIN copied /\ both[n] = copied[n - Len(log)]
      BY <1>3, <1>6, <2>1, <2>3
    <3> QED
      BY <1>4, <1>7, <3>1
  <2> QED
    BY <2>2, <2>3
<1>9. ASSUME NEW w \in items
      PROVE  w \in Items(both)
  <2>1. PICK n \in DOMAIN copied : copied[n].item = w
    BY <1>3, <1>5
  <2>2. n + Len(log) \in DOMAIN both /\ both[n + Len(log)] = copied[n]
    BY <1>3, <1>6
  <2> QED
    BY <2>1, <2>2 DEF Items
<1>10. both = Entered(log, k, items)
  BY DEF copied, S, Entered
<1> QED
  BY <1>8, <1>9, <1>10

\* A vacuum brings all that has settled into the file it puts in place.
LEMMA VacuumPreserves ==
    ASSUME Preserved, NEW p \in Procs, Locked',
           \/ VacuumCreate(p) \/ VacuumCopy(p) \/ VacuumFlush(p)
           \/ VacuumCloseTmp(p) \/ VacuumCloseDb(p) \/ VacuumRename(p)
    PROVE  Preserved'
<1>1. /\ "db" \in Paths /\ "tmp" \in Paths /\ Paths = {"db", "tmp"} /\ Types
      /\ main \in [Inodes -> Mains] /\ wal \in [Paths -> Seq(Entries)]
      /\ inode \in [Paths -> Inodes \cup {NoFile}] /\ NoFile \notin Inodes
      /\ wal["db"] \in Seq(Entries) /\ wal["tmp"] \in Seq(Entries)
      /\ vacuum \in [Procs -> [step : Steps, inode : Inodes \cup {NoFile}]]
  BY PreservedTypes DEF Preserved, Locked
<1>2. vacuum[p].step # "none"
  BY DEF VacuumCreate, VacuumCopy, VacuumFlush, VacuumCloseTmp, VacuumCloseDb, VacuumRename, Goes
<1>3. /\ vacuum[p].inode = inode["db"] /\ inode["db"] \in Inodes /\ wal["db"] = <<>>
      /\ settled \subseteq Said(inode["db"], wal["db"])
  BY <1>1, <1>2 DEF Preserved, Copying, Kept
<1>4. vacuum[p].step \in Making => inode["tmp"] \in Inodes /\ inode["tmp"] # inode["db"]
  BY <1>1, <1>3 DEF Preserved, Locked, Rebuilding, Whole
<1>5. CASE VacuumCreate(p)
  <2>1. /\ NextInode \in Inodes /\ inode["tmp"] = NoFile
        /\ inode' = [inode EXCEPT !["tmp"] = NextInode] /\ main' = NewMain(NextInode)
        /\ UNCHANGED <<wal, conn, settled>>
    BY <1>5 DEF VacuumCreate
  <2>2. /\ vacuum'[p].step = "created" /\ vacuum'[p].inode = vacuum[p].inode
        /\ \A q \in Procs : q # p => vacuum'[q] = vacuum[q]
    BY <1>1, <1>5, VacuumGoes DEF VacuumCreate, Steps
  <2>3. main[NextInode].layout = NoFile /\ main[inode["db"]].layout = inode["db"]
    BY <1>1, <1>3, <2>1, NextIsNew DEF Preserved, Locked, Numbered
  <2>4. /\ inode'["tmp"] = NextInode /\ inode'["db"] = inode["db"] /\ NextInode # inode["db"]
        /\ main'[inode["db"]] = main[inode["db"]]
    BY <1>1, <1>3, <2>1, <2>3 DEF NewMain
  <2>5. \A k \in DOMAIN wal["tmp"] : FALSE
    <3>1. \A k \in DOMAIN wal["tmp"] : wal["tmp"][k] \in Entries
      BY <1>1
    <3> QED
      BY <1>1, <2>1, <3>1 DEF Preserved, Whole, Entries
  <2>6. Whole'
    <3>1. \A k \in Inodes : main'[k].sound
      BY <1>1, <2>1 DEF NewMain, Preserved, Whole
    <3>2. \A path \in Paths : \A k \in DOMAIN wal'[path] : wal'[path][k].layout = inode'[path]
      BY <1>1, <1>3, <2>1, <2>5
    <3> QED
      BY <2>4, <3>1, <3>2 DEF Whole
  <2>7. settled \subseteq Said(inode["db"], wal["db"])'
    BY <1>3, <2>1, <2>4 DEF Said
  <2> QED
    BY <1>1, <1>2, <1>3, <2>1, <2>2, <2>4, <2>6, <2>7, VacuumKeeps
<1>6. CASE VacuumCopy(p)
  <2>1. /\ vacuum[p].step = "created" /\ vacuum'[p].step = "copied" /\ vacuum'[p].inode = vacuum[p].inode
        /\ \A q \in Procs : q # p => vacuum'[q] = vacuum[q]
    BY <1>1, <1>6, VacuumGoes DEF VacuumCopy, Steps
  <2>2. inode["tmp"] \in Inodes
    BY <1>4, <2>1 DEF Making
  <2> DEFINE items == main[inode["db"]].items
             log == Entered(wal["tmp"], inode["tmp"], items)
  <2>3. UNCHANGED <<inode, main, conn, settled>> /\ wal' = [wal EXCEPT !["tmp"] = log]
    BY <1>3, <1>6 DEF VacuumCopy, Entered
  <2>4. items \in SUBSET Writes /\ IsFiniteSet(items)
    BY <1>1, <1>3 DEF Mains
  <2>5. /\ items \subseteq Items(log)
        /\ \A n \in DOMAIN log : log[n].layout = inode["tmp"] \/ (n \in DOMAIN wal["tmp"] /\ log[n] = wal["tmp"][n])
    BY <1>1, <2>2, <2>4, CopiedEntries
  <2> HIDE DEF log
  <2>6. wal'["tmp"] = log /\ wal'["db"] = wal["db"]
    BY <1>1, <2>3
  <2>7. Whole'
    <3>1. \A k \in DOMAIN wal'["tmp"] : wal'["tmp"][k].layout = inode'["tmp"]
      BY <1>1, <2>3, <2>5, <2>6 DEF Preserved, Whole
    <3>2. \A k \in DOMAIN wal'["db"] : wal'["db"][k].layout = inode'["db"]
      BY <1>1, <2>3, <2>6 DEF Preserved, Whole
    <3>3. (inode'["db"] # NoFile => inode'["db"] # inode'["tmp"]) /\ \A k \in Inodes : main'[k].sound
      BY <2>3 DEF Preserved, Whole
    <3> QED
      BY <1>1, <3>1, <3>2, <3>3 DEF Whole
  <2>8. settled \subseteq Said(inode["db"], wal["db"])'
    BY <1>3, <2>3, <2>6 DEF Said
  <2>9. main'[inode'["db"]].items \subseteq Said(inode["tmp"], wal["tmp"])'
    BY <2>3, <2>5, <2>6 DEF Said
  <2> QED
    BY <1>1, <1>2, <1>3, <2>1, <2>3, <2>6, <2>7, <2>8, <2>9, VacuumKeeps
<1>7. CASE VacuumFlush(p)
  <2>1. /\ vacuum[p].step = "copied" /\ vacuum'[p].step = "flushed" /\ vacuum'[p].inode = vacuum[p].inode
        /\ \A q \in Procs : q # p => vacuum'[q] = vacuum[q]
    BY <1>1, <1>7, VacuumGoes DEF VacuumFlush, Steps
  <2>2. inode["tmp"] \in Inodes /\ inode["tmp"] # inode["db"]
    BY <1>4, <2>1 DEF Making
  <2>3. UNCHANGED <<inode, conn, settled>> /\ Checkpointed(inode["tmp"], "tmp")
    BY <1>7 DEF VacuumFlush
  <2>4. /\ main'[inode["tmp"]].items = Said(inode["tmp"], wal["tmp"])
        /\ \A k \in Inodes : main'[k].sound
        /\ main'[inode["db"]] = main[inode["db"]]
        /\ wal'["tmp"] = <<>> /\ wal'["db"] = wal["db"]
    BY <1>1, <1>3, <2>2, <2>3, CheckpointDone DEF Preserved
  <2>5. Whole'
    BY <1>1, <2>3, <2>4 DEF Preserved, Whole
  <2>6. settled \subseteq Said(inode["db"], wal["db"])'
    BY <1>3, <2>3, <2>4 DEF Said
  <2>7. main'[inode'["db"]].items \subseteq main'[inode'["tmp"]].items
    BY <1>2, <2>1, <2>3, <2>4 DEF Preserved, Copying
  <2> QED
    BY <1>1, <1>2, <1>3, <2>1, <2>3, <2>4, <2>5, <2>6, <2>7, VacuumKeeps
<1>8. CASE VacuumCloseTmp(p) \/ VacuumCloseDb(p)
  <2>1. UNCHANGED <<inode, main, wal, conn, settled>>
    BY <1>8 DEF VacuumCloseTmp, VacuumCloseDb
  <2>2. /\ vacuum[p].step \in {"flushed", "parted"} /\ vacuum'[p].step \in {"parted", "closed"}
        /\ vacuum'[p].inode = vacuum[p].inode
        /\ \A q \in Procs : q # p => vacuum'[q] = vacuum[q]
    BY <1>1, <1>8, VacuumGoes DEF VacuumCloseTmp, VacuumCloseDb, Steps
  <2>3. Whole'
    BY <2>1 DEF Preserved, Whole
  <2>4. settled \subseteq Said(inode["db"], wal["db"])'
    BY <1>3, <2>1 DEF Said
  <2>5. main'[inode'["db"]].items \subseteq main'[inode'["tmp"]].items /\ wal'["tmp"] = <<>>
    BY <1>2, <2>1, <2>2 DEF Preserved, Copying
  <2> QED
    BY <1>1, <1>2, <1>3, <2>1, <2>2, <2>3, <2>4, <2>5, VacuumKeeps
<1>9. CASE VacuumRename(p)
  <2>1. /\ vacuum[p].step = "closed" /\ vacuum' = [vacuum EXCEPT ![p] = NoVacuum]
        /\ inode' = [inode EXCEPT !["db"] = inode["tmp"], !["tmp"] = NoFile]
        /\ UNCHANGED <<main, wal, conn, settled>>
    BY <1>9 DEF VacuumRename
  <2>2. /\ NoVacuum.step = "none" /\ vacuum'[p].step = "none"
        /\ \A q \in Procs : q # p => vacuum'[q] = vacuum[q]
    BY <1>1, <2>1 DEF NoVacuum
  <2>3. inode'["db"] = inode["tmp"] /\ inode'["tmp"] = NoFile /\ inode["tmp"] \in Inodes
    BY <1>1, <1>4, <2>1 DEF Making
  <2>4. main[inode["db"]].items \subseteq main[inode["tmp"]].items /\ wal["tmp"] = <<>>
    BY <1>2, <2>1 DEF Preserved, Copying
  <2>5. Whole'
    BY <1>1, <1>3, <2>1, <2>3, <2>4 DEF Preserved, Whole
  <2>6. settled \subseteq Said(inode["db"], wal["db"])'
    BY <1>3, <2>1, <2>3, <2>4 DEF Said
  <2> QED
    BY <1>1, <1>2, <2>1, <2>2, <2>3, <2>5, <2>6, VacuumKeeps
<1> QED
  BY <1>5, <1>6, <1>7, <1>8, <1>9

\* Every step keeps the invariant, as long as no one opens a file that is about to be replaced.
LEMMA PreservedNext ==
    ASSUME Alone = TRUE, Preserved, [ConnNext]_cvars
    PROVE  Preserved'
<1>1. Locked'
  BY LockedNext DEF Preserved
<1>2. ASSUME NEW p \in Procs, ConnStep(p) PROVE Preserved'
  BY <1>1, <1>2, OpenPreserves, CallPreserves, ReleasePreserves, VacuumPreserves DEF ConnStep
<1>3. CASE UNCHANGED cvars
  BY <1>1, <1>3 DEF cvars, Preserved, Single, Idle, Opened, Whole, Kept, Copying, Said
<1> QED
  BY <1>2, <1>3 DEF ConnNext

\* Whoever opens the database next reads what has settled.
LEMMA PreservedSettled ==
    ASSUME Preserved
    PROVE  SettledStays
<1> SUFFICES ASSUME inode["db"] # NoFile
             PROVE  settled \subseteq Recovered.items /\ Recovered.sound
  BY DEF SettledStays
<1>1. /\ "db" \in Paths /\ inode["db"] \in Inodes /\ main[inode["db"]] \in Mains /\ wal["db"] \in Seq(Entries)
      /\ main[inode["db"]].layout = inode["db"]
  BY PreservedTypes DEF Preserved, Locked, Numbered
<1>2. main[inode["db"]].sound /\ \A k \in DOMAIN wal["db"] : wal["db"][k].layout = main[inode["db"]].layout
  BY <1>1 DEF Preserved, Whole
<1>3. Recovered.items = main[inode["db"]].items \cup Items(wal["db"]) /\ Recovered.sound
  BY <1>1, <1>2, ReplayedTyped DEF Recovered
<1> QED
  BY <1>3 DEF Preserved, Kept, Said

\* Writes that were made outside a transaction or committed by one are in the database whoever
\* opens it next, and its pages are of one layout, as long as no one opens the file between the
\* moment vacuum_file lets go of it and its rename.
THEOREM SettledWritesStay ==
    ASSUME Alone = TRUE
    PROVE  ConnSpec => []SettledStays
<1>1. ConnInit => Preserved
  BY PreservedInit
<1>2. Preserved /\ [ConnNext]_cvars => Preserved'
  BY PreservedNext
<1>3. Preserved => SettledStays
  BY PreservedSettled
<1> QED
  BY <1>1, <1>2, <1>3, PTL DEF ConnSpec

-----------------------------------------------------------------------------
\* The registry of open paths.

Canonical(path) == <<path, "canonical">>
Spelled(path)   == <<path, "spelled">>

\* The names on a list of p are right for path, of which p has a handle or not.
Listed(p, held, names, path) ==
    /\ held => Canonical(path) \in names \/ Spelled(path) \in names
    /\ Canonical(path) \in names => held
    /\ Spelled(path) \in names => p \in Relative

\* A path that a process has a handle on names a file: its name is canonical by then.
Tracked ==
    /\ registry = [p \in Procs |-> registry[p]]
    /\ \A p \in Procs, path \in Paths : Listed(p, HasHandle(p, path), registry[p], path)
    /\ \A p \in Procs : HoldsDb(p) => inode["db"] # NoFile

\* A name is of one path.
LEMMA NamesDiffer ==
    /\ Paths = {"db", "tmp"}
    /\ \A path, other : Canonical(path) # Spelled(other)
    /\ \A path, other : path # other => Canonical(path) # Canonical(other) /\ Spelled(path) # Spelled(other)
    /\ \A p : (HasHandle(p, "db") <=> HoldsDb(p)) /\ (HasHandle(p, "tmp") <=> HoldsTmp(p))
  BY DEF Canonical, Spelled, Paths, HasHandle

\* The name of a path that names a file, and the name a handle is made under.
LEMMA NameIs ==
    ASSUME NEW p, NEW path
    PROVE  /\ inode[path] # NoFile => Name(p, path) = Canonical(path)
           /\ Name(p, path) = Canonical(path) \/ (Name(p, path) = Spelled(path) /\ p \in Relative)
  BY DEF Name, Canonical, Spelled

\* The new file of a vacuum is there while the vacuum has a handle on it.
LEMMA HeldIsThere ==
    ASSUME Locked, Tracked, NEW p \in Procs
    PROVE  (HoldsDb(p) => inode["db"] # NoFile) /\ (HoldsTmp(p) => inode["tmp"] # NoFile)
  BY DEF Locked, Tracked, Rebuilding, HoldsTmp, Making

\* What the others hold, and have on their lists, is left alone by a step of p.
LEMMA TrackedBy ==
    ASSUME Tracked, NEW p \in Procs, NEW names, registry' = [registry EXCEPT ![p] = names],
           \A q \in Procs : q # p => conn'[q].inode = conn[q].inode /\ vacuum'[q].step = vacuum[q].step,
           Listed(p, HoldsDb(p)', names, "db"), Listed(p, HoldsTmp(p)', names, "tmp"),
           inode["db"] # NoFile => inode'["db"] # NoFile, HoldsDb(p)' => inode'["db"] # NoFile
    PROVE  Tracked'
<1>1. registry' = [q \in Procs |-> registry'[q]]
  BY DEF Tracked
<1>2. registry'[p] = names /\ \A q \in Procs : q # p => registry'[q] = registry[q]
  BY DEF Tracked
<1>3. \A q \in Procs : q # p => (HoldsDb(q)' <=> HoldsDb(q)) /\ (HoldsTmp(q)' <=> HoldsTmp(q))
  BY DEF HoldsDb, HoldsTmp, Opened
<1>4. ASSUME NEW q \in Procs, NEW path \in Paths PROVE Listed(q, HasHandle(q, path), registry[q], path)'
  <2>1. CASE q = p
    BY <1>2, <2>1 DEF Paths, Listed, HasHandle
  <2>2. CASE q # p
    <3>1. Listed(q, HasHandle(q, path), registry[q], path) /\ registry'[q] = registry[q] /\ (HasHandle(q, path)' <=> HasHandle(q, path))
      BY <1>2, <1>3, <2>2 DEF Tracked, HasHandle
    <3> QED
      BY <3>1 DEF Listed, Canonical, Spelled
  <2> QED
    BY <2>1, <2>2
<1>5. \A q \in Procs : HoldsDb(q)' => inode'["db"] # NoFile
  BY <1>3 DEF Tracked
<1> QED
  BY <1>1, <1>4, <1>5 DEF Tracked

\* A handle is taken, and its name put on the list.
LEMMA TakeTracks ==
    ASSUME Locked, Tracked, NEW p \in Procs,
           Create(p) \/ Open(p) \/ VacuumOpen(p) \/ VacuumCreate(p)
    PROVE  Tracked'
<1>1. /\ conn \in [Procs -> [inode : Inodes \cup {NoFile}, pending : Int, poisoned : BOOLEAN]]
      /\ vacuum \in [Procs -> [step : Steps, inode : Inodes \cup {NoFile}]]
      /\ inode \in [Paths -> Inodes \cup {NoFile}] /\ NoFile \notin Inodes /\ "db" \in Paths /\ "tmp" \in Paths
  BY PreservedTypes
<1>9. Listed(p, HoldsDb(p), registry[p], "db") /\ Listed(p, HoldsTmp(p), registry[p], "tmp")
  BY <1>1 DEF Tracked, HasHandle
<1>2. CASE Create(p) \/ Open(p)
  <2>1. PICK k \in Inodes : conn' = [conn EXCEPT ![p] = [Closed EXCEPT !.inode = k]]
    BY <1>1, <1>2 DEF Create, Open
  <2>2. [Closed EXCEPT !.inode = k].inode = k
    BY <2>1, ClosedTyped
  <2>3. /\ registry' = [registry EXCEPT ![p] = registry[p] \cup {Name(p, "db")}] /\ UNCHANGED vacuum
        /\ vacuum[p].step = "none"
    BY <1>2 DEF Create, Open, TakeName, Register, Idle
  <2>4. conn'[p].inode = k /\ \A q \in Procs : q # p => conn'[q] = conn[q]
    BY <1>1, <2>1, <2>2
  <2>5. HoldsDb(p)' /\ ~ HoldsTmp(p)' /\ ~ HoldsTmp(p)
    BY <1>1, <2>3, <2>4 DEF HoldsDb, HoldsTmp, Opened
  <2>6. inode'["db"] # NoFile
    BY <1>1, <1>2 DEF Create, Open
  <2>7. Listed(p, HoldsDb(p)', registry[p] \cup {Name(p, "db")}, "db") /\ Listed(p, HoldsTmp(p)', registry[p] \cup {Name(p, "db")}, "tmp")
    BY <1>9, <2>5, NameIs, NamesDiffer DEF Listed
  <2> QED
    BY <2>3, <2>4, <2>6, <2>7, TrackedBy
<1>3. CASE VacuumOpen(p)
  <2>1. /\ registry' = [registry EXCEPT ![p] = registry[p] \cup {Name(p, "db")}] /\ UNCHANGED <<conn, inode>>
        /\ vacuum[p].step = "none" /\ inode["db"] # NoFile
        /\ vacuum' = [vacuum EXCEPT ![p] = [step |-> "opened", inode |-> inode["db"]]]
    BY <1>3 DEF VacuumOpen, TakeName, Register, Idle
  <2>2. vacuum'[p].step = "opened" /\ \A q \in Procs : q # p => vacuum'[q] = vacuum[q]
    BY <1>1, <2>1
  <2>3. HoldsDb(p)' /\ ~ HoldsTmp(p)' /\ ~ HoldsTmp(p)
    BY <2>1, <2>2 DEF HoldsDb, HoldsTmp
  <2>4. Listed(p, HoldsDb(p)', registry[p] \cup {Name(p, "db")}, "db") /\ Listed(p, HoldsTmp(p)', registry[p] \cup {Name(p, "db")}, "tmp")
    BY <1>9, <2>3, NameIs, NamesDiffer DEF Listed
  <2> QED
    BY <2>1, <2>2, <2>4, TrackedBy
<1>4. CASE VacuumCreate(p)
  <2>1. /\ registry' = [registry EXCEPT ![p] = registry[p] \cup {Name(p, "tmp")}] /\ UNCHANGED conn
        /\ inode'["db"] = inode["db"]
    BY <1>1, <1>4 DEF VacuumCreate, TakeName, Register
  <2>2. /\ vacuum[p].step = "opened" /\ vacuum'[p].step = "created"
        /\ \A q \in Procs : q # p => vacuum'[q] = vacuum[q]
    BY <1>1, <1>4, VacuumGoes DEF VacuumCreate, Steps, Locked
  <2>3. HoldsDb(p)' /\ HoldsDb(p) /\ HoldsTmp(p)' /\ ~ HoldsTmp(p)
    BY <2>1, <2>2 DEF HoldsDb, HoldsTmp
  <2>4. Listed(p, HoldsDb(p)', registry[p] \cup {Name(p, "tmp")}, "db") /\ Listed(p, HoldsTmp(p)', registry[p] \cup {Name(p, "tmp")}, "tmp")
    BY <1>9, <2>3, NameIs, NamesDiffer DEF Listed
  <2>5. inode["db"] # NoFile
    BY <2>3, HeldIsThere
  <2> QED
    BY <2>1, <2>2, <2>4, <2>5, TrackedBy
<1> QED
  BY <1>2, <1>3, <1>4

\* A handle is dropped, and its name taken off the list.
LEMMA DropTracks ==
    ASSUME Locked, Tracked, NEW p \in Procs,
           \/ Close(p) \/ Drop(p) \/ Crash(p) \/ VacuumFail(p)
           \/ VacuumCloseTmp(p) \/ VacuumCloseDb(p)
    PROVE  Tracked'
<1>1. /\ conn \in [Procs -> [inode : Inodes \cup {NoFile}, pending : Int, poisoned : BOOLEAN]]
      /\ vacuum \in [Procs -> [step : Steps, inode : Inodes \cup {NoFile}]]
      /\ Paths = {"db", "tmp"}
  BY PreservedTypes
<1>2. Closed.inode = NoFile /\ NoVacuum.step = "none"
  BY DEF Closed, NoVacuum
<1>9. /\ Listed(p, HoldsDb(p), registry[p], "db") /\ Listed(p, HoldsTmp(p), registry[p], "tmp")
      /\ HoldsDb(p) => Name(p, "db") = Canonical("db")
      /\ HoldsTmp(p) => Name(p, "tmp") = Canonical("tmp")
  BY <1>1, HeldIsThere, NameIs DEF Tracked, HasHandle
<1>10. UNCHANGED inode
  BY DEF Close, Drop, Crash, VacuumFail, VacuumCloseTmp, VacuumCloseDb
<1>3. CASE Close(p) \/ Drop(p)
  <2>1. /\ Opened(p) /\ conn' = [conn EXCEPT ![p] = Closed] /\ UNCHANGED vacuum
        /\ registry' = [registry EXCEPT ![p] = registry[p] \ {Name(p, "db")}]
    BY <1>3 DEF Close, Drop, Usable, Released, Unregister
  <2>2. conn'[p].inode = NoFile /\ \A q \in Procs : q # p => conn'[q] = conn[q]
    BY <1>1, <1>2, <2>1
  <2>3. vacuum[p].step = "none"
    BY <2>1 DEF Locked, Holding
  <2>4. HoldsDb(p) /\ ~ HoldsDb(p)' /\ ~ HoldsTmp(p)' /\ ~ HoldsTmp(p)
    BY <2>1, <2>2, <2>3 DEF HoldsDb, HoldsTmp, Opened
  <2>5. Listed(p, HoldsDb(p)', registry[p] \ {Name(p, "db")}, "db") /\ Listed(p, HoldsTmp(p)', registry[p] \ {Name(p, "db")}, "tmp")
    BY <1>9, <2>4, NamesDiffer DEF Listed
  <2> QED
    BY <1>10, <2>1, <2>2, <2>4, <2>5, TrackedBy
<1>4. CASE Crash(p)
  <2>1. /\ conn' = [conn EXCEPT ![p] = Closed] /\ vacuum' = [vacuum EXCEPT ![p] = NoVacuum]
        /\ registry' = [registry EXCEPT ![p] = {}]
    BY <1>4 DEF Crash
  <2>2. /\ conn'[p].inode = NoFile /\ vacuum'[p].step = "none"
        /\ \A q \in Procs : q # p => conn'[q] = conn[q] /\ vacuum'[q] = vacuum[q]
    BY <1>1, <1>2, <2>1
  <2>3. ~ HoldsDb(p)' /\ ~ HoldsTmp(p)'
    BY <2>2 DEF HoldsDb, HoldsTmp, Opened
  <2>4. Listed(p, HoldsDb(p)', {}, "db") /\ Listed(p, HoldsTmp(p)', {}, "tmp")
    BY <2>3, NamesDiffer DEF Listed
  <2> QED
    BY <1>10, <2>1, <2>2, <2>3, <2>4, TrackedBy
<1>5. CASE VacuumFail(p)
  <2> DEFINE held == {path \in Paths : HasHandle(p, path)}
             names == registry[p] \ {Name(p, path) : path \in held}
  <2>1. /\ vacuum[p].step # "none" /\ vacuum' = [vacuum EXCEPT ![p] = NoVacuum] /\ UNCHANGED conn
        /\ registry' = [registry EXCEPT ![p] = names]
    BY <1>5 DEF VacuumFail, Unregister
  <2>2. vacuum'[p].step = "none" /\ \A q \in Procs : q # p => vacuum'[q] = vacuum[q]
    BY <1>1, <1>2, <2>1
  <2>3. ~ HoldsDb(p)' /\ ~ HoldsTmp(p)'
    BY <2>1, <2>2 DEF HoldsDb, HoldsTmp, Opened, Locked, Holding
  <2>4. Canonical("db") \notin names /\ Canonical("tmp") \notin names /\ names \subseteq registry[p]
    <3>1. HoldsDb(p) => "db" \in held
      BY <1>1, NamesDiffer
    <3>2. HoldsTmp(p) => "tmp" \in held
      BY <1>1, NamesDiffer
    <3>3. (Canonical("db") \in registry[p] => HoldsDb(p)) /\ (Canonical("tmp") \in registry[p] => HoldsTmp(p))
      BY <1>9, NamesDiffer DEF Listed
    <3> HIDE DEF held
    <3> QED
      BY <1>9, <3>1, <3>2, <3>3
  <2> HIDE DEF names
  <2>5. Listed(p, HoldsDb(p)', names, "db") /\ Listed(p, HoldsTmp(p)', names, "tmp")
    BY <1>9, <2>3, <2>4 DEF Listed
  <2> QED
    BY <1>10, <2>1, <2>2, <2>3, <2>5, TrackedBy
<1>6. CASE VacuumCloseTmp(p)
  <2>1. registry' = [registry EXCEPT ![p] = registry[p] \ {Name(p, "tmp")}] /\ UNCHANGED conn
    BY <1>6 DEF VacuumCloseTmp, Unregister
  <2>2. /\ vacuum[p].step = "flushed" /\ vacuum'[p].step = "parted"
        /\ \A q \in Procs : q # p => vacuum'[q] = vacuum[q]
    BY <1>6, VacuumGoes DEF VacuumCloseTmp, Steps, Locked
  <2>3. HoldsDb(p)' /\ HoldsDb(p) /\ HoldsTmp(p) /\ ~ HoldsTmp(p)'
    BY <2>1, <2>2 DEF HoldsDb, HoldsTmp
  <2>4. Listed(p, HoldsDb(p)', registry[p] \ {Name(p, "tmp")}, "db") /\ Listed(p, HoldsTmp(p)', registry[p] \ {Name(p, "tmp")}, "tmp")
    BY <1>9, <2>3, NamesDiffer DEF Listed
  <2>5. inode["db"] # NoFile
    BY <2>3, HeldIsThere
  <2> QED
    BY <1>10, <2>1, <2>2, <2>4, <2>5, TrackedBy
<1>7. CASE VacuumCloseDb(p)
  <2>1. registry' = [registry EXCEPT ![p] = registry[p] \ {Name(p, "db")}] /\ UNCHANGED conn
    BY <1>7 DEF VacuumCloseDb, Unregister
  <2>2. /\ vacuum[p].step = "parted" /\ vacuum'[p].step = "closed"
        /\ \A q \in Procs : q # p => vacuum'[q] = vacuum[q]
    BY <1>7, VacuumGoes DEF VacuumCloseDb, Steps, Locked
  <2>3. HoldsDb(p) /\ ~ HoldsDb(p)' /\ ~ HoldsTmp(p)' /\ ~ HoldsTmp(p)
    BY <2>1, <2>2 DEF HoldsDb, HoldsTmp, Opened, Locked, Holding
  <2>4. Listed(p, HoldsDb(p)', registry[p] \ {Name(p, "db")}, "db") /\ Listed(p, HoldsTmp(p)', registry[p] \ {Name(p, "db")}, "tmp")
    BY <1>9, <2>3, NamesDiffer DEF Listed
  <2> QED
    BY <1>10, <2>1, <2>2, <2>3, <2>4, TrackedBy
<1> QED
  BY <1>3, <1>4, <1>5, <1>6, <1>7

\* Every other step takes and drops no handle.
LEMMA OtherTracks ==
    ASSUME Locked, Tracked, NEW p \in Procs,
           \/ BeginTransaction(p) \/ Commit(p) \/ CommitFails(p) \/ Rollback(p)
           \/ \E w \in Writes : Write(p, w) \/ Panic(p, w)
           \/ VacuumCopy(p) \/ VacuumFlush(p) \/ VacuumRename(p)
    PROVE  Tracked'
<1>1. /\ conn \in [Procs -> [inode : Inodes \cup {NoFile}, pending : Int, poisoned : BOOLEAN]]
      /\ vacuum \in [Procs -> [step : Steps, inode : Inodes \cup {NoFile}]]
      /\ Types /\ NoTransaction \in Int /\ Len(wal["db"]) \in Int
  BY DEF Locked, Types, NoTransaction, Paths
<1>2. UNCHANGED registry
  BY DEF BeginTransaction, Commit, CommitFails, Rollback, Write, Panic, VacuumCopy, VacuumFlush, VacuumRename
<1>3. /\ \A q \in Procs : conn'[q].inode = conn[q].inode
      /\ \A q \in Procs : (HoldsDb(q)' <=> HoldsDb(q)) /\ (HoldsTmp(q)' <=> HoldsTmp(q))
  <2>1. CASE \/ BeginTransaction(p) \/ Commit(p) \/ CommitFails(p) \/ Rollback(p)
             \/ \E w \in Writes : Write(p, w) \/ Panic(p, w)
    <3>1. UNCHANGED vacuum
      BY <2>1 DEF BeginTransaction, Commit, CommitFails, Rollback, Write, Panic
    <3>2. \/ \E n \in Int : conn' = [conn EXCEPT ![p].pending = n]
          \/ conn' = [conn EXCEPT ![p].poisoned = TRUE]
          \/ UNCHANGED conn
      BY <1>1, <2>1 DEF BeginTransaction, Commit, CommitFails, Rollback, Write, Panic
    <3>3. \A q \in Procs : conn'[q].inode = conn[q].inode
      BY <1>1, <3>2, ConnectionsTyped
    <3> QED
      BY <3>1, <3>3 DEF HoldsDb, HoldsTmp, Opened
  <2>2. CASE VacuumCopy(p) \/ VacuumFlush(p)
    <3>1. /\ vacuum[p].step \in {"created", "copied"} /\ vacuum'[p].step \in {"copied", "flushed"}
          /\ \A q \in Procs : q # p => vacuum'[q] = vacuum[q]
      BY <1>1, <2>2, VacuumGoes DEF VacuumCopy, VacuumFlush, Steps
    <3>2. UNCHANGED conn
      BY <2>2 DEF VacuumCopy, VacuumFlush
    <3> QED
      BY <3>1, <3>2 DEF HoldsDb, HoldsTmp, Opened
  <2>3. CASE VacuumRename(p)
    <3>1. vacuum[p].step = "closed" /\ vacuum' = [vacuum EXCEPT ![p] = NoVacuum] /\ UNCHANGED conn
      BY <2>3 DEF VacuumRename
    <3>2. vacuum'[p].step = "none" /\ \A q \in Procs : q # p => vacuum'[q] = vacuum[q]
      BY <1>1, <3>1 DEF NoVacuum
    <3> QED
      BY <3>1, <3>2 DEF HoldsDb, HoldsTmp, Opened
  <2> QED
    BY <2>1, <2>2, <2>3
<1>4. inode["db"] # NoFile => inode'["db"] # NoFile
  <2>1. CASE VacuumRename(p)
    <3>1. inode["tmp"] # NoFile /\ inode' = [inode EXCEPT !["db"] = inode["tmp"], !["tmp"] = NoFile]
      BY <2>1 DEF VacuumRename, Locked, Rebuilding, Making
    <3>2. inode \in [Paths -> Inodes \cup {NoFile}] /\ "db" \in Paths /\ "tmp" \in Paths
      BY PreservedTypes
    <3> QED
      BY <3>1, <3>2
  <2>2. CASE ~ VacuumRename(p)
    BY <2>2 DEF BeginTransaction, Commit, CommitFails, Rollback, Write, Panic, VacuumCopy, VacuumFlush
  <2> QED
    BY <2>1, <2>2
<1>5. \A q \in Procs, path \in Paths : HasHandle(q, path)' <=> HasHandle(q, path)
  BY <1>3 DEF HasHandle
<1> QED
  BY <1>2, <1>3, <1>4, <1>5 DEF Tracked, Listed, Canonical, Spelled

\* Connection.RegistryNamesOpen, however processes spell their paths: a handle is on the list as
\* long as it is open, and a database that is there and closed is not.
THEOREM RegistryFollows == ConnSpec => []RegistryNamesOpen
<1>1. ConnInit => Locked /\ Tracked
  <2>1. ConnInit => Tracked
    BY NamesDiffer DEF ConnInit, Tracked, Listed, HoldsDb, HoldsTmp, Opened, Closed, NoVacuum
  <2> QED
    BY <2>1, LockedInit
<1>2. Locked /\ Tracked /\ [ConnNext]_cvars => (Locked /\ Tracked)'
  <2> SUFFICES ASSUME Locked, Tracked, [ConnNext]_cvars PROVE Tracked'
    BY LockedNext
  <2>1. ASSUME NEW p \in Procs, ConnStep(p) PROVE Tracked'
    BY <2>1, TakeTracks, DropTracks, OtherTracks DEF ConnStep
  <2>2. CASE UNCHANGED cvars
    BY <2>2 DEF cvars, Tracked, Listed, Canonical, Spelled, HasHandle, HoldsDb, HoldsTmp, Opened
  <2> QED
    BY <2>1, <2>2 DEF ConnNext
<1>3. Locked /\ Tracked => RegistryNamesOpen
  <2> SUFFICES ASSUME Tracked PROVE RegistryNamesOpen
    OBVIOUS
  <2>1. \A p \in Procs, path \in Paths : Listed(p, HasHandle(p, path), registry[p], path)
    BY DEF Tracked
  <2> QED
    BY <2>1 DEF RegistryNamesOpen, Listed, Canonical, Spelled
<1> QED
  BY <1>1, <1>2, <1>3, PTL DEF ConnSpec

-------------------------------------------------------------------------------
\* Schemas.

\* A file whose ids are right: they come from below the counter, no two names of a kind share
\* one, every record has the id of its name, and a file without a schema has no records.
SoundFile(f) ==
    /\ f \in Files
    /\ \A k \in Kinds : f.schema.next[k] >= 1
    /\ \A k \in Kinds, n \in Names : f.schema.ids[k][n] < f.schema.next[k]
    /\ \A k \in Kinds, n, m \in Names :
           f.schema.ids[k][n] # NoId /\ f.schema.ids[k][n] = f.schema.ids[k][m] => n = m
    /\ \A r \in f.records : r.id # NoId /\ f.schema.ids[r.kind][r.name] = r.id
    /\ f.length >= 1
    /\ f.root = NoRoot => f.records = {}

\* The inductive invariant: the file and the snapshot are right, and the cache is not ahead of
\* the file.
SchemaInv ==
    /\ SoundFile(file)
    /\ snapshot # NoSnapshot => SoundFile(snapshot)
    /\ cache.version \in Int /\ cache.version <= file.version
    /\ CacheFresh

-----------------------------------------------------------------------------
\* Writing.

\* A new file has no ids.
LEMMA NewFileSound == SoundFile(NewFile)
<1>1. Empty \in Dtos
  BY SchemaAssumption DEF Empty, Dtos, NoId
<1>2. NewFile \in Files
  BY <1>1 DEF NewFile, Files, NoRoot
<1> QED
  BY <1>2 DEF SoundFile, NewFile, Empty, NoId

\* A schema whose ids extend those of the file can be written.
LEMMA WrittenSound ==
    ASSUME NEW f, SoundFile(f), NEW dto \in Dtos,
           \A k \in Kinds : dto.next[k] >= 1,
           \A k \in Kinds, n \in Names : dto.ids[k][n] < dto.next[k],
           \A k \in Kinds, n, m \in Names : dto.ids[k][n] # NoId /\ dto.ids[k][n] = dto.ids[k][m] => n = m,
           \A k \in Kinds, n \in Names : f.schema.ids[k][n] # NoId => dto.ids[k][n] = f.schema.ids[k][n]
    PROVE  /\ SoundFile(Written(f, dto))
           /\ Written(f, dto).version = f.version + 1 /\ Written(f, dto).root # NoRoot
           /\ Written(f, dto).records = f.records /\ Written(f, dto).schema = dto
<1>1. f \in [length : Nat, root : Nat, version : Nat, schema : Dtos, records : SUBSET Records] /\ f.length >= 1
  BY DEF SoundFile, Files
<1>2. /\ Written(f, dto).length = f.length + 1 /\ Written(f, dto).root = f.length
      /\ Written(f, dto).version = f.version + 1 /\ Written(f, dto).schema = dto
      /\ Written(f, dto).records = f.records
      /\ Written(f, dto) \in Files
  <2>1. [f EXCEPT !.schema = dto, !.root = f.length] \in Files
    BY <1>1 DEF Files
  <2> DEFINE version == f.version + 1
             length == f.length + 1
  <2>2. version \in Nat /\ length \in Nat
    BY <1>1
  <2>3. Written(f, dto) = [f EXCEPT !.schema = dto, !.root = f.length, !.version = version, !.length = length]
    BY DEF Written
  <2> HIDE DEF version, length
  <2>4. Written(f, dto) \in Files
    BY <2>1, <2>2, <2>3 DEF Files
  <2>5. /\ Written(f, dto).length = f.length + 1 /\ Written(f, dto).root = f.length
        /\ Written(f, dto).version = f.version + 1 /\ Written(f, dto).schema = dto
        /\ Written(f, dto).records = f.records
    BY <1>1 DEF Written
  <2> QED
    BY <2>4, <2>5
<1>3. Written(f, dto).root # NoRoot /\ Written(f, dto).length >= 1
  BY <1>1, <1>2 DEF NoRoot
<1>4. \A r \in f.records : r.kind \in Kinds /\ r.name \in Names
  BY <1>1 DEF Records
<1>5. \A r \in f.records : r.id # NoId /\ dto.ids[r.kind][r.name] = r.id
  BY <1>4 DEF SoundFile
<1> HIDE DEF NoRoot, NoId
<1> QED
  BY <1>2, <1>3, <1>5 DEF SoundFile

\* assign_type_ids: the ids that are there stay, and the new ones are new.
LEMMA AssignedSound ==
    ASSUME NEW f, SoundFile(f), NEW ast \in Schemas,
           NEW number, \A k \in Kinds : number[k] \in Numberings(NewNames(ast, f.schema, k), f.schema.next[k])
    PROVE  SoundFile(Written(f, Assigned(ast, f.schema, number)))
<1> DEFINE dto == Assigned(ast, f.schema, number)
           new(k) == NewNames(ast, f.schema, k)
           next(k) == f.schema.next[k]
           ids(k, n) == f.schema.ids[k][n]
<1>1. /\ f.schema.next \in [Kinds -> Nat] /\ f.schema.ids \in [Kinds -> [Names -> Nat]]
      /\ ast \in [Kinds -> [Names -> FieldSets]]
      /\ \A k \in Kinds : next(k) >= 1
      /\ \A k \in Kinds, n \in Names : ids(k, n) < next(k)
  BY SchemaAssumption DEF SoundFile, Files, Dtos
<1>2. \A k \in Kinds : Cardinality(new(k)) \in Nat
  <2>1. \A k \in Kinds : new(k) \subseteq Names
    BY DEF NewNames
  <2> QED
    BY <2>1, SchemaAssumption, FS_Subset, FS_CardinalityType
<1>3. \A k \in Kinds :
        /\ \A n \in new(k) : number[k][n] \in next(k)..(next(k) + Cardinality(new(k)) - 1)
        /\ \A n, m \in new(k) : number[k][n] = number[k][m] => n = m
        /\ \A n \in new(k) : ids(k, n) = NoId
  BY DEF Numberings, Injective, NewNames
<1>4. /\ \A k \in Kinds : dto.next[k] = next(k) + Cardinality(new(k))
      /\ \A k \in Kinds, n \in Names : dto.ids[k][n] = IF n \in new(k) THEN number[k][n] ELSE ids(k, n)
  BY DEF Assigned
<1>5. \A k \in Kinds, n \in Names : n \in new(k) => number[k][n] \in Nat /\ number[k][n] >= next(k) /\ number[k][n] < dto.next[k]
  BY <1>1, <1>2, <1>3, <1>4
<1>6. dto \in Dtos
  <2>1. \A k \in Kinds, n \in Names : (IF n \in new(k) THEN number[k][n] ELSE ids(k, n)) \in Nat
    BY <1>1, <1>5
  <2>2. \A k \in Kinds : next(k) + Cardinality(new(k)) \in Nat
    BY <1>1, <1>2
  <2> QED
    BY <1>1, <2>1, <2>2 DEF Assigned, Dtos
<1> HIDE DEF dto
<1>7. \A k \in Kinds : dto.next[k] >= 1
  BY <1>1, <1>2, <1>4
<1>8. \A k \in Kinds, n \in Names : dto.ids[k][n] < dto.next[k]
  <2> SUFFICES ASSUME NEW k \in Kinds, NEW n \in Names
               PROVE  dto.ids[k][n] < dto.next[k]
    OBVIOUS
  <2>1. CASE n \in new(k)
    BY <1>4, <1>5, <2>1
  <2>2. CASE n \notin new(k)
    <3>1. dto.ids[k][n] = ids(k, n) /\ dto.next[k] = next(k) + Cardinality(new(k))
      BY <1>4, <2>2
    <3>2. ids(k, n) \in Nat /\ next(k) \in Nat /\ ids(k, n) < next(k)
      BY <1>1
    <3> QED
      BY <1>2, <3>1, <3>2
  <2> QED
    BY <2>1, <2>2
<1>9. \A k \in Kinds, n, m \in Names : dto.ids[k][n] # NoId /\ dto.ids[k][n] = dto.ids[k][m] => n = m
  <2> SUFFICES ASSUME NEW k \in Kinds, NEW n \in Names, NEW m \in Names,
                      dto.ids[k][n] # NoId, dto.ids[k][n] = dto.ids[k][m]
               PROVE  n = m
    OBVIOUS
  <2>1. CASE n \in new(k) /\ m \in new(k)
    BY <1>3, <1>4, <2>1
  <2>2. CASE n \in new(k) /\ m \notin new(k)
    BY <1>1, <1>4, <1>5, <2>2
  <2>3. CASE n \notin new(k) /\ m \in new(k)
    BY <1>1, <1>4, <1>5, <2>3
  <2>4. CASE n \notin new(k) /\ m \notin new(k)
    BY <1>4, <2>4 DEF SoundFile
  <2> QED
    BY <2>1, <2>2, <2>3, <2>4
<1>10. \A k \in Kinds, n \in Names : f.schema.ids[k][n] # NoId => dto.ids[k][n] = f.schema.ids[k][n]
  BY <1>3, <1>4
<1>11. SoundFile(Written(f, dto))
  BY <1>6, <1>7, <1>8, <1>9, <1>10, WrittenSound
<1> QED
  BY <1>11 DEF dto

\* register_dynamic_type: the next id, for a name that has none.
LEMMA RegisteredSound ==
    ASSUME SoundFile(file), NEW k \in Kinds, NEW n \in Names, file.schema.ids[k][n] = NoId
    PROVE  /\ SoundFile(Written(file, Registered(k, n)))
           /\ Written(file, Registered(k, n)).version = file.version + 1
           /\ Written(file, Registered(k, n)).root # NoRoot
           /\ Written(file, Registered(k, n)).records = file.records
           /\ Written(file, Registered(k, n)).schema.ids[k][n] = file.schema.next[k]
           /\ file.schema.next[k] # NoId /\ file.schema.next[k] \in Nat
<1> DEFINE dto == Registered(k, n)
           id  == file.schema.next[k]
           after == id + 1
<1>1. /\ file.schema \in [defs : [Kinds -> [Names -> FieldSets]], ids : [Kinds -> [Names -> Nat]], next : [Kinds -> Nat]]
      /\ file.schema.next \in [Kinds -> Nat] /\ file.schema.ids \in [Kinds -> [Names -> Nat]]
      /\ \A j \in Kinds : file.schema.next[j] >= 1
      /\ \A j \in Kinds, m \in Names : file.schema.ids[j][m] < file.schema.next[j]
  BY DEF SoundFile, Files, Dtos
<1>2. id \in Nat /\ after \in Nat /\ after > id /\ id >= 1
  BY <1>1
<1>3. dto = [file.schema EXCEPT !.ids[k][n] = id, !.next[k] = after]
  BY DEF Registered
<1> HIDE DEF dto, id, after
<1>4. dto \in Dtos
  BY <1>1, <1>2, <1>3 DEF Dtos
<1>5. /\ dto.ids = [file.schema.ids EXCEPT ![k][n] = id]
      /\ dto.next = [file.schema.next EXCEPT ![k] = after]
  BY <1>1, <1>3
<1>6. /\ \A j \in Kinds : dto.next[j] = IF j = k THEN after ELSE file.schema.next[j]
      /\ \A j \in Kinds, m \in Names : dto.ids[j][m] = IF j = k /\ m = n THEN id ELSE file.schema.ids[j][m]
  BY <1>1, <1>5
<1>7. \A j \in Kinds : dto.next[j] >= 1
  BY <1>1, <1>2, <1>6
<1>8. ASSUME NEW j \in Kinds, NEW m \in Names PROVE dto.ids[j][m] < dto.next[j]
  <2>1. /\ file.schema.ids[j][m] \in Nat /\ file.schema.next[j] \in Nat
        /\ file.schema.ids[j][m] < file.schema.next[j]
    BY <1>1
  <2>2. CASE j = k
    BY <1>2, <1>6, <2>1, <2>2 DEF id
  <2>3. CASE j # k
    BY <1>6, <2>1, <2>3
  <2> QED
    BY <2>2, <2>3
<1>9. ASSUME NEW j \in Kinds, NEW m \in Names, NEW o \in Names,
             dto.ids[j][m] # NoId, dto.ids[j][m] = dto.ids[j][o]
      PROVE  m = o
  <2>1. /\ file.schema.ids[j][m] \in Nat /\ file.schema.ids[j][o] \in Nat
        /\ file.schema.ids[j][m] < file.schema.next[j] /\ file.schema.ids[j][o] < file.schema.next[j]
    BY <1>1
  <2>2. j = k => file.schema.ids[j][m] # id /\ file.schema.ids[j][o] # id
    BY <2>1 DEF id
  <2> QED
    BY <1>6, <1>9, <2>2 DEF SoundFile
<1>10. \A j \in Kinds, m \in Names : file.schema.ids[j][m] # NoId => dto.ids[j][m] = file.schema.ids[j][m]
  BY <1>6
<1>11. /\ SoundFile(Written(file, dto))
       /\ Written(file, dto).version = file.version + 1 /\ Written(file, dto).root # NoRoot
       /\ Written(file, dto).records = file.records /\ Written(file, dto).schema = dto
  BY <1>4, <1>7, <1>8, <1>9, <1>10, WrittenSound
<1>12. dto.ids[k][n] = id /\ id # NoId
  BY <1>2, <1>6 DEF NoId
<1> QED
  BY <1>2, <1>11, <1>12 DEF dto, id

\* A file with other records, of another length.
WithRecords(f, S, length) == [f EXCEPT !.records = S, !.length = length]

\* A file is right with other records too, if each has the id of its name.
LEMMA RecordsSound ==
    ASSUME NEW f, SoundFile(f), NEW S \in SUBSET Records, NEW length \in Nat, length >= 1,
           \A r \in S : r.id # NoId /\ f.schema.ids[r.kind][r.name] = r.id,
           f.root = NoRoot => S = {}
    PROVE  /\ SoundFile(WithRecords(f, S, length))
           /\ SoundFile([f EXCEPT !.records = S])
           /\ WithRecords(f, S, length).version = f.version
           /\ WithRecords(f, S, length).schema = f.schema
           /\ WithRecords(f, S, length).root = f.root
           /\ [f EXCEPT !.records = S].version = f.version
           /\ [f EXCEPT !.records = S].schema = f.schema
           /\ [f EXCEPT !.records = S].root = f.root
<1> DEFINE g == [f EXCEPT !.records = S, !.length = length]
           h == [f EXCEPT !.records = S]
<1>1. f \in [length : Nat, root : Nat, version : Nat, schema : Dtos, records : SUBSET Records] /\ f.length >= 1
  BY DEF SoundFile, Files
<1>2. g \in Files /\ h \in Files
  BY <1>1 DEF Files
<1>3. /\ g.version = f.version /\ g.schema = f.schema /\ g.root = f.root /\ g.records = S /\ g.length = length
      /\ h.version = f.version /\ h.schema = f.schema /\ h.root = f.root /\ h.records = S /\ h.length = f.length
  BY <1>1
<1> HIDE DEF g, h
<1>4. SoundFile(g) /\ SoundFile(h)
  BY <1>1, <1>2, <1>3 DEF SoundFile
<1> QED
  BY <1>3, <1>4 DEF g, h, WithRecords

-----------------------------------------------------------------------------
\* The invariant.

\* An empty file, without a cache or a snapshot.
LEMMA SchemaInvInit == SchemaInit => SchemaInv
  BY NewFileSound DEF SchemaInit, SchemaInv, NoSnapshot, NoCache, CacheFresh, CacheMatches, NewFile

\* A step that writes a file with a newer version, whose schema no cache has.
LEMMA Newer ==
    ASSUME SchemaInv, SoundFile(file'), file'.version = file.version + 1, UNCHANGED <<cache, snapshot>>
    PROVE  SchemaInv'
<1>1. file.version \in Nat /\ cache.version \in Int /\ cache.version <= file.version
  BY DEF SchemaInv, SoundFile, Files
<1>2. cache'.version \in Int /\ cache'.version <= file'.version /\ cache'.version # file'.version
  BY <1>1
<1>3. CacheFresh'
  BY <1>2 DEF CacheFresh, CacheMatches
<1> QED
  BY <1>2, <1>3 DEF SchemaInv

\* A step that leaves the schema as it was.
LEMMA SameSchema ==
    ASSUME SchemaInv, SoundFile(file'), file'.version = file.version, file'.schema = file.schema,
           file'.root = file.root, UNCHANGED <<cache, snapshot>>
    PROVE  SchemaInv'
  BY DEF SchemaInv, CacheFresh, CacheMatches, DtoStored, DeclaredFields

\* A step that forgets the cache.
LEMMA Forgets ==
    ASSUME SoundFile(file'), cache' = NoCache, snapshot' # NoSnapshot => SoundFile(snapshot)'
    PROVE  SchemaInv'
<1>1. file'.version \in Nat
  BY DEF SoundFile, Files
<1>2. cache'.version = -1
  BY DEF NoCache
<1>3. CacheFresh'
  BY <1>1, <1>2 DEF CacheFresh, CacheMatches
<1> QED
  BY <1>1, <1>2, <1>3 DEF SchemaInv

\* Every step keeps the invariant.
LEMMA SchemaInvNext == SchemaInv /\ [SchemaNext]_svars => SchemaInv'
<1> SUFFICES ASSUME SchemaInv, [SchemaNext]_svars PROVE SchemaInv'
  OBVIOUS
<1>1. /\ SoundFile(file) /\ file.length \in Nat /\ file.length >= 1 /\ file.records \in SUBSET Records
      /\ file.schema.ids \in [Kinds -> [Names -> Nat]] /\ file.version \in Nat
      /\ \A r \in file.records : r.id # NoId /\ file.schema.ids[r.kind][r.name] = r.id
      /\ file.root = NoRoot => file.records = {}
  BY DEF SchemaInv, SoundFile, Files, Dtos
<1>2. ASSUME NEW ast \in Schemas, ApplySchema(ast) PROVE SchemaInv'
  <2>1. PICK number : /\ \A k \in Kinds : number[k] \in Numberings(NewNames(ast, file.schema, k), file.schema.next[k])
                      /\ file' = Written(file, Assigned(ast, file.schema, number))
    BY <1>2 DEF ApplySchema, Saved
  <2>2. SoundFile(file')
    BY <1>1, <2>1, AssignedSound
  <2>3. file'.version = file.version + 1
    BY <2>1, <1>1 DEF Written, SoundFile, Files
  <2> QED
    BY <1>2, <2>2, <2>3, Newer DEF ApplySchema
<1>3. CASE ApplyFails
  BY <1>1, <1>3, Forgets DEF ApplyFails, SchemaInv
<1>4. ASSUME NEW k \in Kinds, NEW n \in Names, RegisterName(k, n) PROVE SchemaInv'
  <2>1. file' = Written(file, Registered(k, n)) /\ file.schema.ids[k][n] = NoId /\ UNCHANGED <<cache, snapshot>>
    BY <1>4 DEF RegisterName, MayRegister
  <2> QED
    BY <1>1, <2>1, RegisteredSound, Newer
<1>5. ASSUME NEW k \in Kinds, NEW n \in Names, InsertRecord(k, n) PROVE SchemaInv'
  <2>1. /\ file.root # NoRoot /\ file.schema.ids[k][n] # NoId /\ UNCHANGED <<cache, snapshot>>
    BY <1>5 DEF InsertRecord, DtoStored
  <2>2. PICK length \in {file.length, file.length + 1} :
            file' = [file EXCEPT !.records = @ \cup {Record(k, file.schema.ids[k][n], n)}, !.length = length]
    BY <1>5 DEF InsertRecord
  <2> DEFINE S == file.records \cup {Record(k, file.schema.ids[k][n], n)}
  <2>3. S \in SUBSET Records /\ \A r \in S : r.id # NoId /\ file.schema.ids[r.kind][r.name] = r.id
    BY <1>1, <2>1 DEF Record, Records
  <2>4. length \in Nat /\ length >= 1
    BY <1>1
  <2> HIDE DEF S
  <2>5. file' = [file EXCEPT !.records = S, !.length = length]
    BY <2>2 DEF S
  <2>6. /\ SoundFile(file') /\ file'.version = file.version
        /\ file'.schema = file.schema /\ file'.root = file.root
    <3>1. SoundFile(file) /\ (file.root = NoRoot => S = {})
      BY <1>1, <2>1
    <3>2. /\ SoundFile(WithRecords(file, S, length))
          /\ WithRecords(file, S, length).version = file.version
          /\ WithRecords(file, S, length).schema = file.schema
          /\ WithRecords(file, S, length).root = file.root
      BY <2>3, <2>4, <3>1, RecordsSound, ZenonT(60)
    <3>3. file' = WithRecords(file, S, length)
      BY <2>5 DEF WithRecords
    <3> QED
      BY <3>2, <3>3
  <2> QED
    BY <2>1, <2>6, SameSchema
<1>6. ASSUME NEW k \in Kinds, NEW n \in Names, InsertDynamic(k, n) PROVE SchemaInv'
  <2> DEFINE f == Written(file, Registered(k, n))
             S == file.records \cup {Record(k, file.schema.next[k], n)}
  <2>1. file.schema.ids[k][n] = NoId /\ UNCHANGED <<cache, snapshot>>
    BY <1>6 DEF InsertDynamic, MayRegister
  <2>2. /\ SoundFile(f) /\ f.version = file.version + 1 /\ f.root # NoRoot /\ f.records = file.records
        /\ f.schema.ids[k][n] = file.schema.next[k] /\ file.schema.next[k] # NoId /\ file.schema.next[k] \in Nat
    BY <1>1, <2>1, RegisteredSound
  <2>3. file' = [f EXCEPT !.records = S]
    BY <1>6, <2>2 DEF InsertDynamic
  <2> HIDE DEF f
  <2>4. S \in SUBSET Records /\ \A r \in S : r.id # NoId /\ f.schema.ids[r.kind][r.name] = r.id
    <3>1. \A r \in file.records : r.id # NoId /\ f.schema.ids[r.kind][r.name] = r.id
      BY <2>2 DEF SoundFile
    <3> QED
      BY <1>1, <2>2, <3>1 DEF Record, Records
  <2> HIDE DEF S
  <2>5. SoundFile(file') /\ file'.version = f.version
    BY <1>1, <2>2, <2>3, <2>4, RecordsSound, ZenonT(60)
  <2> QED
    BY <2>1, <2>2, <2>5, Newer
<1>7. ASSUME NEW r \in file.records, Delete(r) PROVE SchemaInv'
  <2>1. file' = [file EXCEPT !.records = file.records \ {r}] /\ UNCHANGED <<cache, snapshot>>
    BY <1>7 DEF Delete
  <2>2. /\ file.records \ {r} \in SUBSET Records
        /\ \A q \in file.records \ {r} : q.id # NoId /\ file.schema.ids[q.kind][q.name] = q.id
        /\ file.root = NoRoot => file.records \ {r} = {}
    BY <1>1
  <2> QED
    BY <1>1, <2>1, <2>2, RecordsSound, SameSchema
<1>8. CASE ReadDeclared
  <2>1. cache'.version = file.version /\ cache'.fields = DeclaredFields(file.schema) /\ UNCHANGED <<file, snapshot>>
    BY <1>8 DEF ReadDeclared
  <2>2. CacheFresh'
    BY <2>1 DEF CacheFresh, DeclaredFields
  <2> QED
    BY <1>1, <2>1, <2>2 DEF SchemaInv
<1>9. CASE TakeSnapshot \/ DropSnapshot
  BY <1>1, <1>9 DEF TakeSnapshot, DropSnapshot, SchemaInv, CacheFresh, CacheMatches, DtoStored
<1>10. CASE RestoreSnapshot \/ Reopen \/ Die
  BY <1>1, <1>10, Forgets DEF RestoreSnapshot, CacheRestored, Reopen, Die, SchemaInv
<1>11. CASE Vacuum
  <2>1. cache' = NoCache /\ UNCHANGED snapshot
    BY <1>11 DEF Vacuum
  <2>2. CASE DtoStored
    <3> DEFINE f == Written(NewFile, file.schema)
    <3>1. file' = [f EXCEPT !.records = file.records]
      BY <1>11, <2>2 DEF Vacuum, Copied
    <3>2. \A k \in Kinds, n \in Names : NewFile.schema.ids[k][n] = NoId
      BY DEF NewFile, Empty
    <3>3. file.schema \in Dtos
      BY <1>1 DEF SoundFile, Files
    <3>4. SoundFile(f) /\ f.root # NoRoot /\ f.schema = file.schema
      <4>1. /\ \A k \in Kinds : file.schema.next[k] >= 1
            /\ \A k \in Kinds, n \in Names : file.schema.ids[k][n] < file.schema.next[k]
            /\ \A k \in Kinds, n, m \in Names :
                   file.schema.ids[k][n] # NoId /\ file.schema.ids[k][n] = file.schema.ids[k][m] => n = m
        BY <1>1 DEF SoundFile
      <4>2. SoundFile(NewFile)
        BY NewFileSound
      <4> HIDE DEF f
      <4>3. SoundFile(Written(NewFile, file.schema)) /\ Written(NewFile, file.schema).root # NoRoot
            /\ Written(NewFile, file.schema).schema = file.schema
        BY <3>2, <3>3, <4>1, <4>2, WrittenSound
      <4> QED
        BY <4>3 DEF f
    <3> HIDE DEF f
    <3>5. SoundFile(file')
      <4>1. \A r \in file.records : r.id # NoId /\ f.schema.ids[r.kind][r.name] = r.id
        BY <1>1, <3>4
      <4>2. file.length \in Nat /\ file.length >= 1 /\ file.records \in SUBSET Records
        BY <1>1
      <4>3. SoundFile([f EXCEPT !.records = file.records])
        BY <3>4, <4>1, <4>2, RecordsSound
      <4> QED
        BY <3>1, <4>3
    <3> QED
      BY <2>1, <3>5, Forgets DEF SchemaInv
  <2>3. CASE ~ DtoStored
    <3>1. file.records = {} /\ file' = [NewFile EXCEPT !.records = {}]
      BY <1>1, <1>11, <2>3 DEF Vacuum, DtoStored
    <3>2. SoundFile(file')
      <4>1. {} \in SUBSET Records /\ 1 \in Nat /\ 1 >= 1 /\ \A r \in {} : FALSE
        OBVIOUS
      <4>2. SoundFile([NewFile EXCEPT !.records = {}])
        BY <4>1, NewFileSound, RecordsSound
      <4> QED
        BY <3>1, <4>2
    <3> QED
      BY <2>1, <3>2, Forgets DEF SchemaInv
  <2> QED
    BY <2>2, <2>3
<1>12. CASE UNCHANGED svars
  BY <1>12 DEF svars, SchemaInv, CacheFresh, CacheMatches, DtoStored
<1> QED
  BY <1>2, <1>3, <1>4, <1>5, <1>6, <1>7, <1>8, <1>9, <1>10, <1>11, <1>12 DEF SchemaNext

\* The invariant holds in every reachable state.
THEOREM SchemaInvariant == SchemaSpec => []SchemaInv
  BY SchemaInvInit, SchemaInvNext, PTL DEF SchemaSpec

\* A record is read under the name it was inserted with and under no other, whatever schemas were
\* applied, names registered or transactions rolled back since.
THEOREM TypesKeepTheirNames == SchemaSpec => []TypesKeepNames
<1>1. SchemaInv => TypesKeepNames
  <2> SUFFICES ASSUME SchemaInv, NEW r \in file.records
               PROVE  DtoStored /\ NamesOf(file.schema, r.kind, r.id) = {r.name}
    BY DEF TypesKeepNames
  <2>1. r.kind \in Kinds /\ r.name \in Names
    BY DEF SchemaInv, SoundFile, Files, Records
  <2>2. r.id # NoId /\ file.schema.ids[r.kind][r.name] = r.id /\ DtoStored
    BY DEF SchemaInv, SoundFile, DtoStored
  <2>3. \A n \in Names : file.schema.ids[r.kind][n] = r.id => n = r.name
    BY <2>1, <2>2 DEF SchemaInv, SoundFile
  <2> QED
    BY <2>1, <2>2, <2>3 DEF NamesOf
<1> QED
  BY <1>1, SchemaInvariant, PTL

\* A cache that the next read would take holds what the stored schema says: versions only grow
\* while the cache is kept, and whatever takes the file back to an earlier one clears it.
THEOREM CacheNeverStale == SchemaSpec => []CacheFresh
  BY SchemaInvariant, PTL DEF SchemaInv
================================================================================
