------------------------------ MODULE Wal_proofs ------------------------------
(***************************************************************************)
(* Proofs about the file backend: WalStore first, for every number of      *)
(* pages, every log length, every cache capacity and every set of page     *)
(* contents; then WalFaults, for any number of process deaths and power    *)
(* losses besides, when a power loss tears at most the last entry of the   *)
(* log that was never synced.                                              *)
(***************************************************************************)
EXTENDS WalFaults, SequenceTheorems, SetInduction

-----------------------------------------------------------------------------
(* The inductive invariant. *)

\* What the upper layers log: never a page of zeros, never "no page".
GoodEntries == [page : Pages, data : Values]

PCs == {"ready", "closing", "prealloc", "copy", "synced", "truncated", "loaded", "down"}

Types ==
    /\ main \in [Pages -> Contents]
    /\ wal \in Seq(GoodEntries)
    /\ offsets \in [Pages -> Nat] /\ walLen \in Nat
    /\ cache \in [Pages -> Values \cup {NotCached}]
    /\ header \in Values \cup {Absent} /\ count \in 0 .. MaxPage + 1
    /\ txn \in Snapshots \cup {NoSnapshot}
    /\ op \in Snapshots \cup {NoSnapshot}
    /\ pc \in PCs
    /\ todo \subseteq Pages
    /\ caller \in {"none", "flush", "close", "open"}

\* The first n pages exist, and no other.
Dense(m, n) == \A p \in Pages : m[p] # Absent <=> p < n

\* The index is the one the log gives, except when there is none and while a
\* checkpoint has cut the log and not yet cleared the index.
IndexExact ==
    /\ pc \notin {"down", "truncated"} => /\ walLen = Len(wal)
                                          /\ offsets = LoadIndex(wal)
    /\ pc = "truncated" => wal = <<>>

CacheExact == \A p \in Pages : cache[p] # NotCached => cache[p] = Recovered[p]

PagesExact ==
    /\ Recovered \in [Pages -> Values \cup {Absent}]
    /\ \E n \in 1 .. MaxPage + 1 : Dense(Recovered, n)
    /\ \E n \in 1 .. MaxPage + 1 : Dense(main, n)

\* The calls that have a header in memory.
Opened == \/ pc \in {"ready", "closing", "prealloc"}
          \/ pc \in {"copy", "synced", "truncated"} /\ caller # "open"

HeaderExact == Opened => header = Recovered[0] /\ Dense(Recovered, count)

SnapshotExact(s) ==
    s # NoSnapshot => /\ pc = "ready"
                      /\ s.walLen <= Len(wal)
                      /\ s.header = View(wal, s.walLen, main)[0]
                      /\ View(wal, s.walLen, main) \in [Pages -> Values \cup {Absent}]
                      /\ Dense(View(wal, s.walLen, main), s.count)

SnapshotsNested == txn # NoSnapshot /\ op # NoSnapshot => txn.walLen <= op.walLen

CheckpointExact ==
    /\ pc \in {"prealloc", "copy"} =>
        /\ todo \subseteq Logged
    /\ pc \in {"copy", "synced"} =>
        \A p \in Logged \ todo : main[p] = wal[offsets[p]].data
    /\ pc = "prealloc" => todo = Logged
    /\ pc \in {"synced", "truncated"} => todo = {}
    /\ pc = "loaded" => offsets = EmptyIndex

IInv ==
    /\ Types /\ IndexExact /\ CacheExact /\ PagesExact /\ HeaderExact
    /\ SnapshotExact(txn) /\ SnapshotExact(op) /\ SnapshotsNested
    /\ CheckpointExact

-----------------------------------------------------------------------------
(* The log as a sequence. *)

\* An entry that load_index accepts is not one with a bad checksum.
LEMMA GoodEntriesNotTorn == Torn \notin GoodEntries
  BY SentinelAssumption DEF GoodEntries, Pages

\* load_index reads a log without a bad checksum to its end.
LEMMA ValidLenWhole ==
  ASSUME NEW w \in Seq(GoodEntries)
  PROVE  ValidLen(w) = Len(w)
<1> DEFINE Valid(n) == /\ \A i \in 1 .. n : w[i] # Torn
                       /\ n = Len(w) \/ w[n + 1] = Torn
<1>1. \A i \in 1 .. Len(w) : w[i] # Torn
  BY GoodEntriesNotTorn, ElementOfSeq
<1>2. Len(w) \in 0 .. Len(w) /\ Valid(Len(w))
  BY <1>1, LenProperties
<1>3. \A n \in 0 .. Len(w) : Valid(n) => n = Len(w)
  BY <1>1, LenProperties
<1> QED  BY <1>2, <1>3 DEF ValidLen

\* A write at the end of the log appends one entry and touches no other.
LEMMA WriteAtEnd ==
  ASSUME NEW w \in Seq(GoodEntries), NEW e \in GoodEntries
  PROVE  /\ WriteAt(w, Len(w), e) \in Seq(GoodEntries)
         /\ Len(WriteAt(w, Len(w), e)) = Len(w) + 1
         /\ WriteAt(w, Len(w), e)[Len(w) + 1] = e
         /\ \A i \in 1 .. Len(w) : WriteAt(w, Len(w), e)[i] = w[i]
<1> DEFINE x == WriteAt(w, Len(w), e)
<1>1. Len(w) \in Nat /\ \A i \in 1 .. Len(w) : w[i] \in GoodEntries
  BY LenProperties, ElementOfSeq
<1>2. x \in [1 .. Len(w) + 1 -> GoodEntries]
  BY <1>1 DEF WriteAt
<1>3. x \in Seq(GoodEntries)
  BY <1>1, <1>2, SeqDef
<1>4. Len(x) = Len(w) + 1
  BY <1>1, <1>2, <1>3, LenProperties
<1> QED  BY <1>1, <1>3, <1>4 DEF WriteAt

\* Cutting the log keeps its first entries.
LEMMA SetLenCuts ==
  ASSUME NEW w \in Seq(GoodEntries), NEW n \in 0 .. Len(w)
  PROVE  /\ SetLen(w, n) \in Seq(GoodEntries)
         /\ Len(SetLen(w, n)) = n
         /\ \A i \in 1 .. n : SetLen(w, n)[i] = w[i]
<1> DEFINE x == SetLen(w, n)
<1>1. Len(w) \in Nat /\ \A i \in 1 .. Len(w) : w[i] \in GoodEntries
  BY LenProperties, ElementOfSeq
<1>2. x \in [1 .. n -> GoodEntries]
  BY <1>1 DEF SetLen
<1>3. x \in Seq(GoodEntries)
  BY <1>1, <1>2, SeqDef
<1>4. Len(x) = n
  BY <1>1, <1>2, <1>3, LenProperties
<1> QED  BY <1>1, <1>3, <1>4 DEF SetLen

-----------------------------------------------------------------------------
(* The latest entry of a page. *)

\* The index of WalFile::load_index holds positions of entries of the log, or none.
LEMMA LastEntryType ==
  ASSUME NEW w, NEW n \in Nat, NEW p
  PROVE  /\ LastEntry(w, n, p) \in 0 .. n
         /\ LastEntry(w, n, p) # 0 => w[LastEntry(w, n, p)].page = p
  BY DEF LastEntry

\* An entry appended behind the first n (WalFile::write) leaves their index alone.
LEMMA LastEntryPrefix ==
  ASSUME NEW w, NEW x, NEW n \in Nat, NEW p, \A i \in 1 .. n : x[i] = w[i]
  PROVE  LastEntry(x, n, p) = LastEntry(w, n, p)
<1>1. {i \in 1 .. n : x[i].page = p /\ \A j \in (i + 1) .. n : x[j].page # p}
      = {i \in 1 .. n : w[i].page = p /\ \A j \in (i + 1) .. n : w[j].page # p}
  OBVIOUS
<1> QED  BY <1>1 DEF LastEntry

\* The index after WalFile::write: the new entry for its page, the old one for others.
LEMMA LastEntryStep ==
  ASSUME NEW x, NEW k \in Nat \ {0}, NEW p
  PROVE  LastEntry(x, k, p) = IF x[k].page = p THEN k ELSE LastEntry(x, k - 1, p)
<1> DEFINE upto == {i \in 1 .. k : x[i].page = p /\ \A j \in (i + 1) .. k : x[j].page # p}
           before == {i \in 1 .. k - 1 : x[i].page = p /\ \A j \in (i + 1) .. k - 1 : x[j].page # p}
<1>1. CASE x[k].page = p
  <2>1. upto = {k}
    BY <1>1
  <2> QED  BY <2>1, <1>1 DEF LastEntry
<1>2. CASE x[k].page # p
  <2>1. \A i \in 1 .. k : i \in upto <=> i \in before
    BY <1>2
  <2>2. upto = before
    BY <2>1
  <2> QED  BY <2>2, <1>2 DEF LastEntry
<1> QED  BY <1>1, <1>2

-----------------------------------------------------------------------------
(* What a recovery finds. *)

\* Overwriting a stale tail (WalFile::write) changes nothing a recovery finds before it.
LEMMA ViewPrefix ==
  ASSUME NEW w, NEW x, NEW m, NEW n \in Nat, \A i \in 1 .. n : x[i] = w[i]
  PROVE  View(x, n, m) = View(w, n, m)
<1>1. \A p \in Pages : /\ LastEntry(x, n, p) = LastEntry(w, n, p)
                       /\ LastEntry(w, n, p) \in 0 .. n
  BY LastEntryPrefix, LastEntryType
<1> QED  BY <1>1 DEF View

\* WalFile::write changes what a recovery finds in one page, to what was written.
LEMMA ViewAppend ==
  ASSUME NEW w \in Seq(GoodEntries), NEW m, NEW p \in Pages, NEW v \in Values,
         NEW x, x = WriteAt(w, Len(w), LogEntry(p, v))
  PROVE  View(x, Len(w) + 1, m) = [View(w, Len(w), m) EXCEPT ![p] = v]
<1>1. LogEntry(p, v) \in GoodEntries /\ LogEntry(p, v).page = p /\ LogEntry(p, v).data = v
  BY DEF LogEntry, GoodEntries
<1>2. /\ Len(w) \in Nat
      /\ x[Len(w) + 1] = LogEntry(p, v)
      /\ \A i \in 1 .. Len(w) : x[i] = w[i]
  BY <1>1, WriteAtEnd, LenProperties
<1>3. x[Len(w) + 1].page = p /\ x[Len(w) + 1].data = v
  BY <1>1, <1>2
<1>4. ASSUME NEW q \in Pages
      PROVE  View(x, Len(w) + 1, m)[q] = IF q = p THEN v ELSE View(w, Len(w), m)[q]
  <2>1. LastEntry(x, Len(w) + 1, q) = IF p = q THEN Len(w) + 1 ELSE LastEntry(w, Len(w), q)
    <3>1. LastEntry(x, Len(w) + 1, q) =
            IF x[Len(w) + 1].page = q THEN Len(w) + 1 ELSE LastEntry(w, Len(w), q)
      <4>1. Len(w) + 1 \in Nat \ {0} /\ (Len(w) + 1) - 1 = Len(w)
        BY <1>2
      <4>2. LastEntry(x, Len(w), q) = LastEntry(w, Len(w), q)
        BY <1>2, LastEntryPrefix
      <4> QED  BY <4>1, <4>2, LastEntryStep
    <3> QED  BY <1>3, <3>1
  <2>2. LastEntry(w, Len(w), q) \in 0 .. Len(w)
    BY <1>2, LastEntryType
  <2> QED  BY <1>2, <1>3, <2>1, <2>2 DEF View
<1>5. /\ View(x, Len(w) + 1, m) = [q \in Pages |-> View(x, Len(w) + 1, m)[q]]
      /\ View(w, Len(w), m) = [q \in Pages |-> View(w, Len(w), m)[q]]
  BY DEF View
<1> QED  BY <1>4, <1>5

\* The index of an empty log is empty (WalFile::checkpoint clears it).
LEMMA NoEntry == \A p : LastEntry(<<>>, 0, p) = 0
  BY LastEntryType

\* With an empty log a recovery finds the main file as it is.
LEMMA ViewEmpty ==
  ASSUME NEW S, NEW m \in [Pages -> S]
  PROVE  View(<<>>, 0, m) = m
  BY NoEntry DEF View

\* Without bad checksums a recovery replays the whole log (load_index).
LEMMA RecoveredWhole ==
  ASSUME wal \in Seq(GoodEntries)
  PROVE  Recovered = View(wal, Len(wal), main)
  BY ValidLenWhole DEF Recovered

\* Without bad checksums load_index rebuilds the index write maintains.
LEMMA LoadIndexWhole ==
  ASSUME NEW w \in Seq(GoodEntries)
  PROVE  /\ LoadIndex(w) = [p \in Pages |-> LastEntry(w, Len(w), p)]
         /\ LoadIndex(w) \in [Pages -> Nat]
         /\ \A p \in Pages : LoadIndex(w)[p] \in 0 .. Len(w)
<1>1. Len(w) \in Nat /\ ValidLen(w) = Len(w)
  BY LenProperties, ValidLenWhole
<1> QED  BY <1>1, LastEntryType DEF LoadIndex

\* With the exact index, a read that misses the cache returns the recovered page.
LEMMA StoredExact ==
  ASSUME wal \in Seq(GoodEntries), offsets = LoadIndex(wal)
  PROVE  \A p \in Pages : Stored(p) = Recovered[p]
  BY LoadIndexWhole, RecoveredWhole DEF Stored, View

-----------------------------------------------------------------------------
(* What logging a page and restoring a snapshot do. *)

\* PageCache::put, whichever page it evicts, leaves only what it held or was given.
LEMMA CachePutExact ==
  ASSUME NEW c \in [Pages -> Values \cup {NotCached}], NEW p \in Pages, NEW v \in Values,
         NEW d \in CachePut(c, p, v)
  PROVE  /\ d \in [Pages -> Values \cup {NotCached}]
         /\ d[p] = v
         /\ \A q \in Pages : q # p /\ d[q] # NotCached => d[q] = c[q]
  BY DEF CachePut, Cached

\* What write_page and append_page change: the log at its end, the index, the cache.
LEMMA LogPageEffect ==
  ASSUME Types, IndexExact, CacheExact, pc \notin {"down", "truncated"},
         NEW p \in Pages, NEW v \in Values, LogPage(p, v), main' = main
  PROVE  /\ wal' \in Seq(GoodEntries)
         /\ Len(wal') = Len(wal) + 1
         /\ walLen' = Len(wal') /\ walLen' \in Nat
         /\ offsets' = LoadIndex(wal')
         /\ offsets' \in [Pages -> Nat]
         /\ Recovered' = [Recovered EXCEPT ![p] = v]
         /\ \A n \in 0 .. Len(wal) : View(wal', n, main') = View(wal, n, main)
         /\ cache' \in [Pages -> Values \cup {NotCached}]
         /\ CacheExact'
<1>1. /\ wal' = WriteAt(wal, Len(wal), LogEntry(p, v))
      /\ offsets' = [offsets EXCEPT ![p] = Len(wal) + 1]
      /\ walLen' = Len(wal) + 1
      /\ cache' \in CachePut(cache, p, v)
      /\ offsets = LoadIndex(wal) /\ Len(wal) \in Nat
      /\ wal \in Seq(GoodEntries)
  BY LenProperties DEF LogPage, IndexExact, Types
<1>2. LogEntry(p, v) \in GoodEntries /\ LogEntry(p, v).page = p
  BY DEF LogEntry, GoodEntries
<1>3. /\ wal' \in Seq(GoodEntries)
      /\ Len(wal') = Len(wal) + 1
      /\ wal'[Len(wal) + 1] = LogEntry(p, v)
      /\ \A i \in 1 .. Len(wal) : wal'[i] = wal[i]
  BY <1>1, <1>2, WriteAtEnd
<1>4. offsets' = LoadIndex(wal')
  <2>1. \A q \in Pages : LastEntry(wal', Len(wal) + 1, q) =
                            IF p = q THEN Len(wal) + 1 ELSE LastEntry(wal, Len(wal), q)
    <3>1. ASSUME NEW q \in Pages
          PROVE  LastEntry(wal', Len(wal) + 1, q) =
                   IF wal'[Len(wal) + 1].page = q THEN Len(wal) + 1
                                                  ELSE LastEntry(wal, Len(wal), q)
      <4>1. Len(wal) + 1 \in Nat \ {0} /\ (Len(wal) + 1) - 1 = Len(wal)
        BY <1>1
      <4>2. LastEntry(wal', Len(wal), q) = LastEntry(wal, Len(wal), q)
        BY <1>1, <1>3, LastEntryPrefix
      <4> QED  BY <4>1, <4>2, LastEntryStep
    <3> QED  BY <1>2, <1>3, <3>1
  <2>2. LoadIndex(wal') = [q \in Pages |-> LastEntry(wal', Len(wal) + 1, q)]
    BY <1>3, LoadIndexWhole
  <2>3. LoadIndex(wal) = [q \in Pages |-> LastEntry(wal, Len(wal), q)]
    BY <1>1, LoadIndexWhole
  <2> QED  BY <1>1, <2>1, <2>2, <2>3
<1>5. offsets' \in [Pages -> Nat]
  BY <1>3, <1>4, LoadIndexWhole
<1>6. Recovered' = [Recovered EXCEPT ![p] = v]
  <2>1. Recovered' = View(wal', Len(wal) + 1, main)
    BY <1>3, ValidLenWhole DEF Recovered
  <2>2. Recovered = View(wal, Len(wal), main)
    BY <1>1, RecoveredWhole
  <2> QED  BY <1>1, <2>1, <2>2, ViewAppend
<1>7. \A n \in 0 .. Len(wal) : View(wal', n, main') = View(wal, n, main)
  BY <1>1, <1>3, ViewPrefix
<1>8. cache' \in [Pages -> Values \cup {NotCached}] /\ CacheExact'
  <2>1. Recovered = [q \in Pages |-> Recovered[q]]
    BY DEF Recovered, View
  <2>2. cache \in [Pages -> Values \cup {NotCached}]
    BY DEF Types
  <2>3. /\ cache' \in [Pages -> Values \cup {NotCached}]
        /\ cache'[p] = v
        /\ \A q \in Pages : q # p /\ cache'[q] # NotCached => cache'[q] = cache[q]
    BY <1>1, <2>2, CachePutExact
  <2>4. Recovered'[p] = v /\ \A q \in Pages : q # p => Recovered'[q] = Recovered[q]
    BY <1>6, <2>1
  <2> QED  BY <2>3, <2>4 DEF CacheExact
<1> QED  BY <1>1, <1>3, <1>4, <1>5, <1>6, <1>7, <1>8

\* DatabaseFile::restore cuts the log to the snapshot and rebuilds the index from it.
LEMMA RestoreEffect ==
  ASSUME Types, NEW s, s.walLen \in 0 .. Len(wal), Restore(s), main' = main
  PROVE  /\ wal' \in Seq(GoodEntries)
         /\ Len(wal') = s.walLen
         /\ walLen' = Len(wal') /\ walLen' \in Nat
         /\ offsets' = LoadIndex(wal') /\ offsets' \in [Pages -> Nat]
         /\ Recovered' = View(wal, s.walLen, main)
         /\ \A n \in 0 .. s.walLen : View(wal', n, main') = View(wal, n, main)
         /\ cache' = EmptyCache
<1>1. wal \in Seq(GoodEntries) /\ Len(wal) \in Nat
  BY LenProperties DEF Types
<1>2. /\ wal' \in Seq(GoodEntries)
      /\ Len(wal') = s.walLen
      /\ \A i \in 1 .. s.walLen : wal'[i] = wal[i]
  BY <1>1, SetLenCuts DEF Restore
<1>3. walLen' = Len(wal') /\ walLen' \in Nat
  BY <1>2, ValidLenWhole DEF Restore
<1>4. offsets' = LoadIndex(wal') /\ offsets' \in [Pages -> Nat]
  BY <1>2, LoadIndexWhole DEF Restore
<1>5. \A n \in 0 .. s.walLen : View(wal', n, main') = View(wal, n, main)
  BY <1>1, <1>2, ViewPrefix
<1>6. Recovered' = View(wal, s.walLen, main)
  BY <1>2, <1>5, ValidLenWhole DEF Recovered
<1> QED  BY <1>2, <1>3, <1>4, <1>5, <1>6 DEF Restore

-----------------------------------------------------------------------------
(* What the checkpoint does to the main file. *)

\* The contents of a page are never the marks for a missing or an uncached page.
LEMMA SentinelsDiffer ==
  /\ Absent \notin Values /\ Zero \notin Values /\ Zero # Absent
  /\ NotCached \notin Values /\ InitHeader \in Values
  BY ValuesAssumption

\* The number of pages of a file without gaps.
LEMMA MainLenExact ==
  ASSUME NEW m, NEW n \in 0 .. MaxPage + 1, Dense(m, n)
  PROVE  MainLen(m) = n
<1>1. ASSUME NEW k \in 0 .. MaxPage + 1, Dense(m, k)
      PROVE  k = n
  <2>1. CASE k < n
    <3>1. k \in Pages
      BY <2>1, MaxPageAssumption DEF Pages
    <3> QED  BY <1>1, <2>1, <3>1 DEF Dense
  <2>2. CASE n < k
    <3>1. n \in Pages
      BY <2>2, MaxPageAssumption DEF Pages
    <3> QED  BY <1>1, <2>2, <3>1 DEF Dense
  <2> QED  BY <2>1, <2>2
<1> QED  BY <1>1 DEF MainLen, Dense

\* A page that is recovered but not in the main file has an entry in the log.
LEMMA MissingIsLogged ==
  ASSUME wal \in Seq(GoodEntries), offsets = LoadIndex(wal), NEW p \in Pages,
         offsets[p] = 0
  PROVE  Recovered[p] = main[p]
  BY LoadIndexWhole, RecoveredWhole DEF View

LEMMA LoggedValue ==
  ASSUME wal \in Seq(GoodEntries), offsets = LoadIndex(wal), NEW p \in Pages,
         offsets[p] # 0
  PROVE  /\ Recovered[p] = wal[offsets[p]].data
         /\ wal[offsets[p]].data \in Values
<1>1. offsets[p] \in 1 .. Len(wal) /\ offsets[p] = LastEntry(wal, Len(wal), p)
  BY LoadIndexWhole, LenProperties
<1>2. wal[offsets[p]] \in GoodEntries
  BY <1>1, ElementOfSeq
<1> QED  BY <1>1, <1>2, RecoveredWhole DEF View, GoodEntries

\* Two main files that agree on the pages the log lacks recover the same.
LEMMA SameRecovery ==
  ASSUME wal \in Seq(GoodEntries), offsets = LoadIndex(wal), wal' = wal,
         \A p \in Pages : offsets[p] = 0 => main'[p] = main[p]
  PROVE  Recovered' = Recovered
<1>1. Recovered' = View(wal, Len(wal), main')
  BY ValidLenWhole DEF Recovered
<1>2. Recovered = View(wal, Len(wal), main)
  BY RecoveredWhole
<1>3. \A p \in Pages : offsets[p] = LastEntry(wal, Len(wal), p)
  BY LoadIndexWhole
<1> QED  BY <1>1, <1>2, <1>3 DEF View

\* Copying a logged page changes no page a recovery finds.
LEMMA CopyEffect ==
  ASSUME Types, offsets = LoadIndex(wal), PagesExact,
         NEW p \in Pages, offsets[p] # 0,
         main' = WriteMain(main, p, wal[offsets[p]].data), wal' = wal
  PROVE  /\ main' \in [Pages -> Contents]
         /\ main'[p] = wal[offsets[p]].data
         /\ \A q \in Pages : q # p /\ main[q] # Absent => main'[q] = main[q]
         /\ Recovered' = Recovered
         /\ \E n \in 1 .. MaxPage + 1 : Dense(main', n)
<1>1. wal \in Seq(GoodEntries) /\ main \in [Pages -> Contents]
  BY DEF Types
<1>2. Recovered[p] = wal[offsets[p]].data /\ wal[offsets[p]].data \in Values
  BY <1>1, LoggedValue
<1>3. main' \in [Pages -> Contents]
  BY <1>1, <1>2 DEF WriteMain, Contents
<1>4. \A q \in Pages : q # p /\ main[q] # Absent => main'[q] = main[q]
  BY DEF WriteMain
<1>5. \A q \in Pages : offsets[q] = 0 => main'[q] = main[q]
  <2> SUFFICES ASSUME NEW q \in Pages, offsets[q] = 0, main[q] = Absent, q < p
               PROVE  FALSE
    BY <1>4 DEF WriteMain
  <2>1. Recovered[q] = Absent
    BY <1>1, MissingIsLogged
  <2>2. PICK n \in 1 .. MaxPage + 1 : Dense(Recovered, n)
    BY DEF PagesExact
  <2> QED  BY <1>2, <2>1, <2>2, SentinelsDiffer DEF Dense, Pages
<1>6. Recovered' = Recovered
  BY <1>1, <1>5, SameRecovery
<1>7. \E n \in 1 .. MaxPage + 1 : Dense(main', n)
  <2>1. PICK n \in 1 .. MaxPage + 1 : Dense(main, n)
    BY DEF PagesExact
  <2>2. CASE p < n
    BY <1>2, <2>1, <2>2, SentinelsDiffer DEF WriteMain, Dense, Pages
  <2>3. CASE p >= n
    <3>1. p + 1 \in 1 .. MaxPage + 1
      BY MaxPageAssumption DEF Pages
    <3>2. Dense(main', p + 1)
      BY <1>2, <2>1, <2>3, SentinelsDiffer DEF WriteMain, Dense, Pages
    <3> QED  BY <3>1, <3>2
  <2> QED  BY <2>1, <2>2, <2>3 DEF Pages
<1> QED  BY <1>3, <1>4, <1>6, <1>7 DEF WriteMain

\* Neither does a zero page at the end of the main file, below the page count.
LEMMA PreallocateEffect ==
  ASSUME Types, offsets = LoadIndex(wal), PagesExact, Dense(Recovered, count),
         MainLen(main) < count,
         main' = WriteMain(main, MainLen(main), Zero), wal' = wal
  PROVE  /\ main' \in [Pages -> Contents]
         /\ Recovered' = Recovered
         /\ \E n \in 1 .. MaxPage + 1 : Dense(main', n)
<1>1. /\ wal \in Seq(GoodEntries) /\ main \in [Pages -> Contents]
      /\ count \in 0 .. MaxPage + 1
  BY DEF Types
<1>2. PICK n \in 1 .. MaxPage + 1 : Dense(main, n)
  BY DEF PagesExact
<1>3. MainLen(main) = n /\ n \in Pages /\ n + 1 \in 1 .. MaxPage + 1
  BY <1>1, <1>2, MainLenExact, MaxPageAssumption DEF Pages
<1>4. main' = [main EXCEPT ![n] = Zero]
  <2>1. main' = WriteMain(main, n, Zero)
    BY <1>3
  <2>2. \A q \in Pages : q < n => main[q] # Absent
    BY <1>2 DEF Dense
  <2> QED  BY <1>1, <2>1, <2>2 DEF WriteMain
<1>5. offsets[n] # 0
  <2>1. Recovered[n] # Absent /\ main[n] = Absent
    BY <1>2, <1>3 DEF Dense
  <2> QED  BY <1>1, <1>3, <2>1, MissingIsLogged
<1>6. Recovered' = Recovered
  BY <1>1, <1>4, <1>5, SameRecovery
<1>7. Dense(main', n + 1)
  <2> SUFFICES ASSUME NEW q \in Pages
               PROVE  main'[q] # Absent <=> q < n + 1
    BY DEF Dense
  <2>1. q \in Int /\ n \in Int
    BY <1>3 DEF Pages
  <2>2. main[q] # Absent <=> q < n
    BY <1>2 DEF Dense
  <2>3. main'[q] = IF q = n THEN Zero ELSE main[q]
    BY <1>1, <1>3, <1>4
  <2> QED  BY <2>1, <2>2, <2>3, SentinelsDiffer
<1> QED  BY <1>1, <1>3, <1>4, <1>6, <1>7 DEF Contents

-----------------------------------------------------------------------------
(* The steps preserve the invariant. *)

\* A step that changes neither file changes nothing a recovery finds.
LEMMA SameFiles ==
  ASSUME UNCHANGED files
  PROVE  /\ Recovered' = Recovered
         /\ \A n : View(wal', n, main') = View(wal, n, main)
  BY DEF files, Recovered

\* Logging page p, which exists or is the next to append.
LEMMA LogStep ==
  ASSUME IInv, Idle, NEW p \in Pages, NEW v \in Values, LogPage(p, v),
         UNCHANGED <<main, txn, op, pc, todo, caller>>,
         header' = IF p = 0 THEN v ELSE header,
         \/ p < count /\ count' = count
         \/ p = count /\ count' = count + 1
  PROVE  IInv'
<1> USE DEF IInv
<1>1. /\ Types /\ IndexExact /\ CacheExact /\ pc = "ready"
      /\ wal \in Seq(GoodEntries) /\ Len(wal) \in Nat
      /\ header = Recovered[0] /\ Dense(Recovered, count)
  BY LenProperties DEF Idle, Types, HeaderExact, Opened
<1>2. /\ wal' \in Seq(GoodEntries)
      /\ Len(wal') = Len(wal) + 1
      /\ walLen' = Len(wal') /\ walLen' \in Nat
      /\ offsets' = LoadIndex(wal')
      /\ offsets' \in [Pages -> Nat]
      /\ Recovered' = [Recovered EXCEPT ![p] = v]
      /\ \A n \in 0 .. Len(wal) : View(wal', n, main') = View(wal, n, main)
      /\ cache' \in [Pages -> Values \cup {NotCached}]
      /\ CacheExact'
  BY <1>1, LogPageEffect
<1>3. count \in 1 .. MaxPage + 1
  <2>1. PICK n \in 1 .. MaxPage + 1 : Dense(Recovered, n)
    BY DEF PagesExact
  <2>2. 0 \in Pages /\ count \in 0 .. MaxPage + 1
    BY <1>1, MaxPageAssumption DEF Pages, Types
  <2> QED  BY <1>1, <2>1, <2>2 DEF Dense
<1>4. count' \in 1 .. MaxPage + 1
  BY <1>3, MaxPageAssumption DEF Pages
<1>5. Types'
  BY <1>1, <1>2, <1>4 DEF Types
<1>6. IndexExact'
  BY <1>1, <1>2 DEF IndexExact
<1>7. Recovered' \in [Pages -> Values \cup {Absent}] /\ Recovered'[p] = v
      /\ \A q \in Pages : q # p => Recovered'[q] = Recovered[q]
  BY <1>2 DEF PagesExact
<1>8. Dense(Recovered', count')
  <2> SUFFICES ASSUME NEW q \in Pages
               PROVE  Recovered'[q] # Absent <=> q < count'
    BY DEF Dense
  <2>1. q \in Int /\ p \in Int /\ (Recovered[q] # Absent <=> q < count)
    BY <1>1 DEF Dense, Pages
  <2> QED  BY <1>3, <1>7, <2>1, SentinelsDiffer
<1>9. PagesExact'
  BY <1>4, <1>7, <1>8 DEF PagesExact, Dense
<1>10. HeaderExact'
  <2>1. 0 \in Pages
    BY MaxPageAssumption DEF Pages
  <2>2. header' = Recovered'[0]
    BY <1>1, <1>7, <2>1
  <2> QED  BY <1>8, <2>2 DEF HeaderExact
<1>11. SnapshotExact(txn)'
  BY <1>1, <1>2 DEF SnapshotExact, Types, Snapshots
<1>12. SnapshotExact(op)'
  BY <1>1, <1>2 DEF SnapshotExact, Types, Snapshots
<1>13. SnapshotsNested' /\ CheckpointExact'
  BY <1>1 DEF SnapshotsNested, CheckpointExact
<1> QED  BY <1>2, <1>5, <1>6, <1>9, <1>10, <1>11, <1>12, <1>13

\* Restoring s; of the other snapshot, only an older one may stay.
LEMMA RestoreStep ==
  ASSUME IInv, NEW s \in {txn, op}, s # NoSnapshot, Restore(s),
         UNCHANGED <<main, todo, caller>>,
         \/ pc' = "ready"
         \/ pc' = "closing" /\ txn' = NoSnapshot /\ op' = NoSnapshot,
         txn' \in {txn, NoSnapshot}, txn' # NoSnapshot => txn'.walLen <= s.walLen,
         op' \in {op, NoSnapshot}, op' # NoSnapshot => op'.walLen <= s.walLen
  PROVE  IInv'
<1> USE DEF IInv
<1>1. /\ Types /\ pc = "ready" /\ s \in Snapshots
      /\ wal \in Seq(GoodEntries) /\ Len(wal) \in Nat
      /\ s.walLen \in 0 .. Len(wal) /\ s.count \in 0 .. MaxPage + 1
      /\ SnapshotExact(s)
  BY LenProperties DEF Types, SnapshotExact, Snapshots
<1>2. /\ wal' \in Seq(GoodEntries)
      /\ Len(wal') = s.walLen
      /\ walLen' = Len(wal') /\ walLen' \in Nat
      /\ offsets' = LoadIndex(wal') /\ offsets' \in [Pages -> Nat]
      /\ Recovered' = View(wal, s.walLen, main)
      /\ \A n \in 0 .. s.walLen : View(wal', n, main') = View(wal, n, main)
      /\ cache' = EmptyCache
  BY <1>1, RestoreEffect
<1>3. /\ header' = s.header /\ count' = s.count
      /\ s.header = Recovered'[0]
      /\ Recovered' \in [Pages -> Values \cup {Absent}]
      /\ Dense(Recovered', count')
  BY <1>1, <1>2 DEF SnapshotExact, Restore
<1>4. 0 \in Pages
  BY MaxPageAssumption DEF Pages
<1>5. Types'
  BY <1>1, <1>2, <1>3, <1>4 DEF Types, EmptyCache, PCs
<1>6. IndexExact'
  BY <1>2 DEF IndexExact
<1>7. CacheExact'
  BY <1>2 DEF CacheExact, EmptyCache
<1>8. PagesExact'
  <2>1. PICK n \in 1 .. MaxPage + 1 : Dense(main, n)
    BY DEF PagesExact
  <2>2. main[0] # Absent
    BY <1>4, <2>1 DEF Dense
  <2>3. View(wal, s.walLen, main)[0] # Absent
    <3>1. LastEntry(wal, s.walLen, 0) \in 0 .. s.walLen
      BY <1>1, LastEntryType
    <3>2. \A i \in 1 .. s.walLen : wal[i].data \in Values
      <4>1. \A i \in 1 .. Len(wal) : wal[i] \in GoodEntries
        BY <1>1, ElementOfSeq
      <4>2. \A i \in 1 .. s.walLen : i \in 1 .. Len(wal)
        BY <1>1
      <4> QED  BY <4>1, <4>2 DEF GoodEntries
    <3>3. View(wal, s.walLen, main)[0] =
            IF LastEntry(wal, s.walLen, 0) = 0 THEN main[0]
                                               ELSE wal[LastEntry(wal, s.walLen, 0)].data
      BY <1>4 DEF View
    <3> QED  BY <2>2, <3>1, <3>2, <3>3, SentinelsDiffer
  <2>4. 0 < count'
    BY <1>2, <1>3, <1>4, <2>3 DEF Dense
  <2>5. count' \in 1 .. MaxPage + 1
    BY <1>1, <1>3, <2>4
  <2> QED  BY <1>3, <2>1, <2>5 DEF PagesExact, Dense
<1>9. HeaderExact'
  BY <1>3 DEF HeaderExact
<1>10. SnapshotExact(txn)'
  BY <1>1, <1>2 DEF SnapshotExact, Types, Snapshots
<1>11. SnapshotExact(op)'
  BY <1>1, <1>2 DEF SnapshotExact, Types, Snapshots
<1>12. SnapshotsNested'
  BY DEF SnapshotsNested
<1>13. CheckpointExact'
  BY DEF CheckpointExact
<1> QED  BY <1>5, <1>6, <1>7, <1>8, <1>9, <1>10, <1>11, <1>12, <1>13

\* The memory is lost and the files stay.
LEMMA ForgetStep ==
  ASSUME IInv, Forget, UNCHANGED files
  PROVE  IInv'
<1> USE DEF IInv, Forget
<1>1. Recovered' = Recovered /\ wal' = wal /\ main' = main
  BY SameFiles DEF files
<1>2. Types'
  BY <1>1, MaxPageAssumption DEF Types, EmptyIndex, EmptyCache, PCs
<1>3. IndexExact' /\ CacheExact'
  BY <1>1 DEF IndexExact, CacheExact, EmptyCache
<1>4. PagesExact' /\ HeaderExact'
  BY <1>1 DEF PagesExact, HeaderExact, Opened, Dense
<1>5. SnapshotExact(txn)' /\ SnapshotExact(op)' /\ SnapshotsNested'
  BY DEF SnapshotExact, SnapshotsNested
<1>6. CheckpointExact'
  BY DEF CheckpointExact
<1> QED  BY <1>2, <1>3, <1>4, <1>5, <1>6

\* create_inner: an empty log, the header in page 0 of the main file, one page.
LEMMA InitInv == Init => IInv
<1> SUFFICES ASSUME Init PROVE IInv
  OBVIOUS
<1> USE DEF Init
<1>1. <<>> \in Seq(GoodEntries) /\ Len(<<>>) = 0 /\ 0 \in Pages
  BY EmptySeq, MaxPageAssumption DEF Pages
<1>2. main \in [Pages -> Values \cup {Absent}]
  BY SentinelsDiffer
<1>3. Recovered = main
  BY <1>1, <1>2, RecoveredWhole, ViewEmpty
<1>4. Types
  BY <1>1, <1>2, SentinelsDiffer, MaxPageAssumption
     DEF Types, Contents, EmptyIndex, EmptyCache, PCs
<1>5. IndexExact
  BY <1>1, LoadIndexWhole, NoEntry DEF IndexExact, EmptyIndex
<1>6. CacheExact
  BY DEF CacheExact, EmptyCache
<1>7. Dense(main, 1) /\ 1 \in 1 .. MaxPage + 1
  BY SentinelsDiffer, MaxPageAssumption DEF Dense, Pages
<1>8. PagesExact
  BY <1>2, <1>3, <1>7 DEF PagesExact
<1>9. HeaderExact
  BY <1>1, <1>3, <1>7 DEF HeaderExact
<1> QED  BY <1>4, <1>5, <1>6, <1>8, <1>9
         DEF IInv, SnapshotExact, SnapshotsNested, CheckpointExact

\* Every step of every call of the file backend keeps the invariant.
LEMMA StepInv == IInv /\ [Next]_vars => IInv'
<1> SUFFICES ASSUME IInv, [Next]_vars PROVE IInv'
  OBVIOUS
<1> USE DEF IInv
<1>ty. /\ Types /\ wal \in Seq(GoodEntries) /\ Len(wal) \in Nat /\ count \in 0 .. MaxPage + 1
       /\ main \in [Pages -> Contents] /\ 0 \in Pages
  BY LenProperties, MaxPageAssumption DEF Types, Pages
<1>1. ASSUME NEW p \in Pages, ReadPage(p) PROVE IInv'
  <2> USE <1>1 DEF ReadPage
  <2>1. Recovered' = Recovered /\ \A n : View(wal', n, main') = View(wal, n, main)
    BY SameFiles DEF files
  <2>2. Stored(p) = Recovered[p] /\ Stored(p) \in Values
    <3>1. Stored(p) = Recovered[p]
      BY <1>ty, StoredExact DEF IndexExact, Idle
    <3>2. Recovered[p] # Absent /\ Recovered[p] \in Values \cup {Absent}
      BY DEF HeaderExact, Opened, Idle, Dense, PagesExact
    <3> QED  BY <3>1, <3>2
  <2>3. /\ cache' \in [Pages -> Values \cup {NotCached}]
        /\ cache'[p] = Stored(p)
        /\ \A q \in Pages : q # p /\ cache'[q] # NotCached => cache'[q] = cache[q]
    BY <2>2, CachePutExact DEF Types
  <2>4. CacheExact'
    BY <2>1, <2>2, <2>3 DEF CacheExact
  <2>5. Types'
    BY <2>3 DEF Types
  <2>6. IndexExact' /\ PagesExact' /\ HeaderExact'
    BY <2>1 DEF IndexExact, PagesExact, HeaderExact, Opened, Dense
  <2>7. SnapshotExact(txn)' /\ SnapshotExact(op)' /\ SnapshotsNested' /\ CheckpointExact'
    BY <2>1 DEF SnapshotExact, SnapshotsNested, CheckpointExact, Idle
  <2> QED  BY <2>4, <2>5, <2>6, <2>7
<1>2. ASSUME NEW p \in Pages, NEW v \in Values, WritePage(p, v) PROVE IInv'
  BY <1>2, LogStep DEF WritePage
<1>3. ASSUME NEW v \in Values, WriteHeader(v) PROVE IInv'
  <2>1. 0 < count
    <3>1. PICK n \in 1 .. MaxPage + 1 : Dense(Recovered, n)
      BY DEF PagesExact
    <3> QED  BY <1>3, <1>ty, <3>1 DEF WriteHeader, Dense, HeaderExact, Opened, Idle
  <2> QED  BY <1>3, <1>ty, <2>1, LogStep DEF WriteHeader
<1>4. ASSUME NEW v \in Values, AppendPage(v) PROVE IInv'
  <2>1. count \in Pages /\ count # 0
    <3>1. PICK n \in 1 .. MaxPage + 1 : Dense(Recovered, n)
      BY DEF PagesExact
    <3>2. 0 < count
      BY <1>4, <1>ty, <3>1 DEF AppendPage, Dense, HeaderExact, Opened, Idle
    <3> QED  BY <1>4, <1>ty, <3>2 DEF AppendPage, Pages
  <2> QED  BY <1>4, <2>1, LogStep DEF AppendPage
<1>5. CASE BeginTransaction \/ BeginOperation \/ FinishOperation
  <2> USE <1>5 DEF BeginTransaction, BeginOperation, FinishOperation, memory
  <2>1. /\ UNCHANGED files /\ pc = "ready"
        /\ Recovered' = Recovered /\ \A n : View(wal', n, main') = View(wal, n, main)
        /\ wal' = wal /\ main' = main
    BY SameFiles DEF files, Idle
  <2>2. /\ walLen = Len(wal) /\ Recovered = View(wal, Len(wal), main)
        /\ header = Recovered[0] /\ Dense(Recovered, count)
    BY <1>ty, <2>1, RecoveredWhole DEF IndexExact, HeaderExact, Opened
  <2>3. /\ Snapshot \in Snapshots /\ Snapshot.walLen = walLen
        /\ Snapshot.count = count /\ Snapshot.header = header
    BY DEF Snapshot, Snapshots, Types, Contents
  <2>4. Types'
    BY <2>1, <2>3 DEF Types
  <2>5. IndexExact' /\ CacheExact' /\ PagesExact' /\ HeaderExact'
    BY <2>1 DEF IndexExact, CacheExact, PagesExact, HeaderExact, Opened, Dense
  <2>6. SnapshotExact(Snapshot)
    BY <1>ty, <2>1, <2>2, <2>3 DEF SnapshotExact, PagesExact
  <2>7. SnapshotExact(txn)' /\ SnapshotExact(op)'
    BY <2>1, <2>6 DEF SnapshotExact, Dense
  <2>8. SnapshotsNested'
    BY <2>1, <2>2, <2>3 DEF SnapshotsNested, SnapshotExact
  <2>9. CheckpointExact'
    BY <2>1 DEF CheckpointExact
  <2> QED  BY <2>4, <2>5, <2>7, <2>8, <2>9
<1>6. CASE RollbackTransaction
  BY <1>6, RestoreStep DEF RollbackTransaction, Idle
<1>7. CASE AbandonOperation
  BY <1>7, RestoreStep DEF AbandonOperation, Idle, SnapshotsNested
<1>8. CASE Close
  <2>1. CASE txn = NoSnapshot
    <3> USE <1>8, <2>1 DEF Close, memory, Idle
    <3>1. Recovered' = Recovered /\ wal' = wal /\ main' = main
      BY SameFiles DEF files
    <3>2. Types'
      BY <3>1 DEF Types, PCs
    <3>3. IndexExact' /\ CacheExact' /\ PagesExact' /\ HeaderExact'
      BY <3>1 DEF IndexExact, CacheExact, PagesExact, HeaderExact, Opened, Dense
    <3>4. SnapshotExact(txn)' /\ SnapshotExact(op)' /\ SnapshotsNested' /\ CheckpointExact'
      BY DEF SnapshotExact, SnapshotsNested, CheckpointExact
    <3> QED  BY <3>2, <3>3, <3>4
  <2>2. CASE txn # NoSnapshot
    BY <1>8, <2>2, RestoreStep DEF Close
  <2> QED  BY <2>1, <2>2
<1>9. CASE Flush \/ CommitTransaction
  <2> USE <1>9 DEF Flush, CommitTransaction, StartFlush, memory
  <2>1. /\ Recovered' = Recovered /\ wal' = wal /\ main' = main /\ pc = "ready"
        /\ pc' \in {"ready", "prealloc"} /\ txn' = NoSnapshot /\ op' = NoSnapshot
        /\ UNCHANGED memory
        /\ pc' = "prealloc" => todo' = Logged
    BY SameFiles DEF files, Idle
  <2>2. Types'
    BY <2>1 DEF Types, PCs, Logged
  <2>3. IndexExact' /\ CacheExact' /\ PagesExact' /\ HeaderExact'
    BY <2>1 DEF IndexExact, CacheExact, PagesExact, HeaderExact, Opened, Dense
  <2>4. SnapshotExact(txn)' /\ SnapshotExact(op)' /\ SnapshotsNested'
    BY <2>1 DEF SnapshotExact, SnapshotsNested
  <2>5. CheckpointExact'
    BY <2>1 DEF CheckpointExact, Logged
  <2> QED  BY <2>2, <2>3, <2>4, <2>5
<1>10. CASE FlushOnClose
  <2>1. CASE Logged = {}
    BY <1>10, <2>1, ForgetStep DEF FlushOnClose
  <2>2. CASE Logged # {}
    <3> USE <1>10, <2>2 DEF FlushOnClose, StartFlush, memory
    <3>1. /\ Recovered' = Recovered /\ wal' = wal /\ main' = main
          /\ pc = "closing" /\ pc' = "prealloc"
      BY SameFiles DEF files
    <3>2. Types'
      BY <3>1 DEF Types, PCs, Logged
    <3>3. IndexExact' /\ CacheExact' /\ PagesExact' /\ HeaderExact'
      BY <3>1 DEF IndexExact, CacheExact, PagesExact, HeaderExact, Opened, Dense
    <3>4. SnapshotExact(txn)' /\ SnapshotExact(op)' /\ SnapshotsNested'
      BY <3>1 DEF SnapshotExact, SnapshotsNested
    <3>5. CheckpointExact'
      BY <3>1 DEF CheckpointExact, Logged
    <3> QED  BY <3>2, <3>3, <3>4, <3>5
  <2> QED  BY <2>1, <2>2
<1>11. CASE Preallocate
  <2> USE <1>11 DEF Preallocate, memory
  <2>1. /\ offsets = LoadIndex(wal) /\ Dense(Recovered, count) /\ pc = "prealloc"
        /\ txn = NoSnapshot /\ op = NoSnapshot
    BY DEF IndexExact, HeaderExact, Opened, SnapshotExact
  <2>2. /\ main' \in [Pages -> Contents]
        /\ Recovered' = Recovered
        /\ \E n \in 1 .. MaxPage + 1 : Dense(main', n)
    <3>1. CASE MainLen(main) < count
      BY <2>1, <3>1, PreallocateEffect
    <3>2. CASE ~ MainLen(main) < count
      BY <1>ty, <3>2, SameFiles DEF PagesExact, files
    <3> QED  BY <3>1, <3>2
  <2>3. Types'
    BY <2>2 DEF Types, PCs
  <2>4. IndexExact' /\ CacheExact' /\ PagesExact'
    BY <2>1, <2>2 DEF IndexExact, CacheExact, PagesExact, Dense
  <2>5. HeaderExact'
    BY <2>1, <2>2 DEF HeaderExact, Opened, Dense
  <2>6. SnapshotExact(txn)' /\ SnapshotExact(op)' /\ SnapshotsNested'
    BY <2>1 DEF SnapshotExact, SnapshotsNested
  <2>7. CheckpointExact'
    BY <2>1 DEF CheckpointExact, Logged
  <2> QED  BY <2>3, <2>4, <2>5, <2>6, <2>7
<1>12. ASSUME NEW p \in Pages, CopyPage(p) PROVE IInv'
  <2> USE <1>12 DEF CopyPage, memory
  <2>1. /\ offsets = LoadIndex(wal) /\ pc = "copy"
        /\ txn = NoSnapshot /\ op = NoSnapshot /\ offsets[p] # 0
    BY DEF IndexExact, SnapshotExact, CheckpointExact, Logged
  <2>2. /\ main' \in [Pages -> Contents]
        /\ main'[p] = wal[offsets[p]].data
        /\ \A q \in Pages : q # p /\ main[q] # Absent => main'[q] = main[q]
        /\ Recovered' = Recovered
        /\ \E n \in 1 .. MaxPage + 1 : Dense(main', n)
    BY <2>1, CopyEffect
  <2>3. Types'
    BY <2>2 DEF Types
  <2>4. IndexExact' /\ CacheExact' /\ PagesExact' /\ HeaderExact'
    BY <2>1, <2>2 DEF IndexExact, CacheExact, PagesExact, HeaderExact, Opened, Dense
  <2>5. SnapshotExact(txn)' /\ SnapshotExact(op)' /\ SnapshotsNested'
    BY <2>1 DEF SnapshotExact, SnapshotsNested
  <2>6. CheckpointExact'
    <3>1. \A q \in Logged : wal[offsets[q]].data \in Values
      BY <1>ty, <2>1, LoggedValue DEF Logged
    <3>2. \A q \in Logged \ todo : main[q] = wal[offsets[q]].data /\ main[q] # Absent
      BY <2>1, <3>1, SentinelsDiffer DEF CheckpointExact
    <3>3. \A q \in Logged \ todo' : main'[q] = wal[offsets[q]].data
      BY <2>2, <3>2 DEF Logged
    <3> QED  BY <2>1, <3>3 DEF CheckpointExact, Logged
  <2> QED  BY <2>3, <2>4, <2>5, <2>6
<1>13. CASE SyncMain
  <2> USE <1>13 DEF SyncMain, memory
  <2>1. Recovered' = Recovered /\ wal' = wal /\ main' = main
    BY SameFiles DEF files
  <2>2. Types' /\ IndexExact' /\ CacheExact' /\ PagesExact' /\ HeaderExact'
    BY <2>1 DEF Types, PCs, IndexExact, CacheExact, PagesExact, HeaderExact, Opened, Dense
  <2>3. SnapshotExact(txn)' /\ SnapshotExact(op)' /\ SnapshotsNested' /\ CheckpointExact'
    BY <2>1 DEF SnapshotExact, SnapshotsNested, CheckpointExact, Logged
  <2> QED  BY <2>2, <2>3
<1>14. CASE TruncateWal
  <2> USE <1>14 DEF TruncateWal, memory
  <2>1. /\ offsets = LoadIndex(wal) /\ todo = {} /\ txn = NoSnapshot /\ op = NoSnapshot
        /\ \A p \in Logged : main[p] = wal[offsets[p]].data
    BY DEF IndexExact, CheckpointExact, SnapshotExact
  <2>2. wal' = <<>>
    BY DEF SetLen
  <2>3. Recovered' = main
    <3>1. Recovered' = View(<<>>, 0, main)
      BY <2>2, EmptySeq, ValidLenWhole DEF Recovered
    <3> QED  BY <1>ty, <3>1, ViewEmpty
  <2>4. Recovered = main
    <3>1. \A p \in Pages : Recovered[p] = main[p]
      BY <1>ty, <2>1, LoggedValue, MissingIsLogged DEF Logged
    <3> QED  BY <1>ty, <3>1 DEF PagesExact
  <2>7. Types'
    BY <2>2, EmptySeq DEF Types, PCs
  <2>8. IndexExact'
    BY <2>2 DEF IndexExact
  <2>9. CacheExact'
    BY <2>2, <2>3, <2>4, EmptySeq DEF CacheExact
  <2>10. PagesExact' /\ HeaderExact'
    BY <2>2, <2>3, <2>4, EmptySeq DEF PagesExact, HeaderExact, Opened, Dense
  <2>5. Types' /\ IndexExact' /\ CacheExact' /\ PagesExact' /\ HeaderExact'
    BY <2>7, <2>8, <2>9, <2>10
  <2>6. SnapshotExact(txn)' /\ SnapshotExact(op)' /\ SnapshotsNested' /\ CheckpointExact'
    BY <2>1 DEF SnapshotExact, SnapshotsNested, CheckpointExact
  <2> QED  BY <2>5, <2>6
<1>15. CASE FinishCheckpoint
  <2>1. CASE caller = "close"
    BY <1>15, <2>1, ForgetStep DEF FinishCheckpoint
  <2>2. CASE caller # "close"
    <3> USE <1>15, <2>2 DEF FinishCheckpoint
    <3>1. /\ Recovered' = Recovered /\ wal' = wal /\ main' = main /\ wal = <<>>
          /\ txn = NoSnapshot /\ op = NoSnapshot /\ todo = {}
      BY SameFiles DEF files, IndexExact, SnapshotExact, CheckpointExact
    <3>2. LoadIndex(<<>>) = EmptyIndex /\ Len(<<>>) = 0
      BY EmptySeq, LoadIndexWhole, NoEntry DEF EmptyIndex
    <3>3. Types'
      BY <3>1 DEF Types, PCs, EmptyIndex
    <3>4. IndexExact'
      BY <3>1, <3>2 DEF IndexExact
    <3>5. CacheExact' /\ PagesExact' /\ HeaderExact'
      BY <3>1 DEF CacheExact, PagesExact, HeaderExact, Opened, Dense
    <3>6. SnapshotExact(txn)' /\ SnapshotExact(op)' /\ SnapshotsNested' /\ CheckpointExact'
      BY <3>1 DEF SnapshotExact, SnapshotsNested, CheckpointExact
    <3> QED  BY <3>3, <3>4, <3>5, <3>6
  <2> QED  BY <2>1, <2>2
<1>16. CASE FlushError
  <2> USE <1>16 DEF FlushError, memory
  <2>1. /\ Recovered' = Recovered /\ wal' = wal /\ main' = main
        /\ txn = NoSnapshot /\ op = NoSnapshot
    BY SameFiles DEF files, SnapshotExact
  <2>2. Types' /\ IndexExact' /\ CacheExact' /\ PagesExact' /\ HeaderExact'
    BY <2>1 DEF Types, PCs, IndexExact, CacheExact, PagesExact, HeaderExact, Opened, Dense
  <2>3. SnapshotExact(txn)' /\ SnapshotExact(op)' /\ SnapshotsNested' /\ CheckpointExact'
    BY <2>1 DEF SnapshotExact, SnapshotsNested, CheckpointExact
  <2> QED  BY <2>2, <2>3
<1>17. CASE Crash
  BY <1>17, ForgetStep DEF Crash
<1>18. CASE Open
  <2> USE <1>18 DEF Open
  <2>1. /\ Recovered' = Recovered /\ wal' = wal /\ main' = main
        /\ txn = NoSnapshot /\ op = NoSnapshot
    BY SameFiles DEF files, SnapshotExact
  <2>2. /\ walLen' = Len(wal) /\ offsets' = LoadIndex(wal)
        /\ offsets' \in [Pages -> Nat]
    BY <1>ty, ValidLenWhole, LoadIndexWhole
  <2>3. /\ pc' \in {"loaded", "copy"} /\ todo' \subseteq Pages
        /\ caller' \in {"none", "flush", "close", "open"}
        /\ pc' = "copy" => caller' = "open" /\ todo' = Logged'
        /\ pc' = "loaded" => offsets' = EmptyIndex
    BY <2>2 DEF Types, Logged
  <2>4. Types' /\ IndexExact' /\ CacheExact' /\ PagesExact' /\ HeaderExact'
    BY <1>ty, <2>1, <2>2, <2>3
       DEF Types, PCs, IndexExact, CacheExact, PagesExact, HeaderExact, Opened, Dense
  <2>5. SnapshotExact(txn)' /\ SnapshotExact(op)' /\ SnapshotsNested'
    BY <2>1 DEF SnapshotExact, SnapshotsNested
  <2>6. CheckpointExact'
    BY <2>3 DEF CheckpointExact
  <2> QED  BY <2>4, <2>5, <2>6
<1>19. CASE ReadHeader
  <2> USE <1>19 DEF ReadHeader
  <2>1. /\ Recovered' = Recovered /\ wal' = wal /\ main' = main
        /\ txn = NoSnapshot /\ op = NoSnapshot
        /\ offsets = EmptyIndex /\ offsets = LoadIndex(wal)
    BY SameFiles DEF files, SnapshotExact, CheckpointExact, IndexExact
  <2>2. Recovered = main
    <3>1. \A p \in Pages : Recovered[p] = main[p]
      BY <1>ty, <2>1, MissingIsLogged DEF EmptyIndex
    <3> QED  BY <1>ty, <3>1 DEF PagesExact
  <2>3. PICK n \in 1 .. MaxPage + 1 : Dense(main, n)
    BY DEF PagesExact
  <2>4. count' = n
    BY <2>3, MainLenExact
  <2>5. header' = Recovered[0] /\ Recovered[0] \in Values \cup {Absent}
    BY <1>ty, <2>2 DEF PagesExact
  <2>6. Types' /\ IndexExact' /\ CacheExact' /\ PagesExact'
    BY <2>1, <2>4, <2>5 DEF Types, PCs, IndexExact, CacheExact, PagesExact, Dense
  <2>7. HeaderExact'
    BY <2>1, <2>2, <2>3, <2>4, <2>5 DEF HeaderExact, Dense
  <2>8. SnapshotExact(txn)' /\ SnapshotExact(op)' /\ SnapshotsNested' /\ CheckpointExact'
    BY <2>1 DEF SnapshotExact, SnapshotsNested, CheckpointExact
  <2> QED  BY <2>6, <2>7, <2>8
<1>20. CASE UNCHANGED vars
  <2>1. Recovered' = Recovered /\ \A n : View(wal', n, main') = View(wal, n, main)
    BY <1>20, SameFiles DEF vars, files
  <2> QED
    BY <1>20, <2>1 DEF vars, Types, IndexExact, CacheExact, PagesExact, HeaderExact, Opened,
       SnapshotExact, SnapshotsNested, CheckpointExact, Dense, Logged
<1> QED
  BY <1>1, <1>2, <1>3, <1>4, <1>5, <1>6, <1>7, <1>8, <1>9, <1>10, <1>11, <1>12, <1>13,
     <1>14, <1>15, <1>16, <1>17, <1>18, <1>19, <1>20 DEF Next

-----------------------------------------------------------------------------
(* The theorems about the invariants. *)

\* The invariant holds in every reachable state, through every call, checkpoint,
\* death and opening of the file backend (storage/file.rs, storage/wal.rs).
THEOREM Invariance == Spec => []IInv
<1>1. Init => IInv
  BY InitInv
<1>2. IInv /\ [Next]_vars => IInv'
  BY StepInv
<1> QED  BY <1>1, <1>2, PTL DEF Spec

\* DatabaseFile, WalFile and PageCache keep to their types: an offset, a page
\* count and a snapshot stay in range whatever is rolled back, flushed or reopened.
THEOREM TypeCorrect == Spec => []TypeOK
<1>1. IInv => TypeOK
  <2> SUFFICES ASSUME IInv PROVE TypeOK
    OBVIOUS
  <2>1. wal \in Seq(Entries \cup {Torn})
    <3>1. Len(wal) \in Nat /\ wal \in [1 .. Len(wal) -> GoodEntries]
      BY LenProperties DEF IInv, Types
    <3>2. GoodEntries \subseteq Entries \cup {Torn}
      BY DEF GoodEntries, Entries, Contents
    <3>3. wal \in [1 .. Len(wal) -> Entries \cup {Torn}]
      BY <3>1, <3>2
    <3> QED  BY <3>1, <3>3, SeqDef
  <2> QED  BY <2>1 DEF IInv, Types, TypeOK, Contents, PCs
<1> QED  BY <1>1, Invariance, PTL

\* read_page, which looks in the cache, then in the log, then in the main file,
\* returns what a recovery from the files would: nothing read is lost by a crash.
THEOREM ReadsRecoverable == Spec => []ReadsAreRecoverable
<1>1. IInv => ReadsAreRecoverable
  <2> SUFFICES ASSUME IInv, Idle, NEW p \in Pages
               PROVE  ReadResult(p) = Recovered[p]
    BY DEF ReadsAreRecoverable
  <2>1. Stored(p) = Recovered[p]
    BY StoredExact DEF IInv, Types, IndexExact, Idle
  <2> QED  BY <2>1 DEF IInv, CacheExact, ReadResult
<1> QED  BY <1>1, Invariance, PTL

\* The header and page count that restore, flush and open_inner leave in memory
\* are those of the pages.
THEOREM HeaderLockstep == Spec => []HeaderInLockstep
<1>1. IInv => HeaderInLockstep
  BY DEF IInv, HeaderExact, Opened, Idle, Dense, HeaderInLockstep
<1> QED  BY <1>1, Invariance, PTL

-----------------------------------------------------------------------------
(* WalStore implements PageStore. *)

\* A snapshot's pages stay what they were when no step cuts or copies the log.
LEMMA SnapshotViewKept ==
  ASSUME NEW s, s = NoSnapshot \/ s.walLen \in 0 .. Len(wal),
         \A n \in 0 .. Len(wal) : View(wal', n, main') = View(wal, n, main)
  PROVE  (IF s = NoSnapshot THEN NoSnapshot ELSE View(wal', s.walLen, main'))
         = SnapshotView(s)
  BY DEF SnapshotView

\* Snapshots of the two levels exist together.
LEMMA SnapshotViewDefined ==
  ASSUME NEW s, SnapshotExact(s)
  PROVE  SnapshotView(s) = NoSnapshot <=> s = NoSnapshot
<1>1. [Pages -> Values \cup {Absent}] \subseteq [0 .. MaxPage -> Values \cup {Zero, Absent}]
  BY DEF Pages
<1> QED  BY <1>1, SentinelAssumption DEF SnapshotView, SnapshotExact

\* The initial files of create_inner are the fresh PageStore.
LEMMA InitRefines == Init => Abstract!Init
<1> SUFFICES ASSUME Init PROVE Abstract!Init
  OBVIOUS
<1>1. main \in [Pages -> Values \cup {Absent}] /\ wal = <<>>
  BY SentinelsDiffer DEF Init
<1>2. Recovered = main
  BY <1>1, EmptySeq, RecoveredWhole, ViewEmpty
<1> QED
  BY <1>2 DEF Init, SnapshotView, Abstract!Init, Abstract!FreshDatabase, Abstract!Pages, Pages

\* Logging a page writes or appends it in the PageStore.
LEMMA LogRefines ==
  ASSUME IInv, Idle, NEW p \in Pages, NEW v \in Values, LogPage(p, v),
         UNCHANGED <<main, txn, op>>,
         p < count \/ p = count
  PROVE  Abstract!WritePage(p, v) \/ Abstract!AppendPage(p, v)
<1>1. /\ Types /\ IndexExact /\ CacheExact /\ pc = "ready" /\ Len(wal) \in Nat
      /\ Dense(Recovered, count) /\ count \in 0 .. MaxPage + 1
  BY LenProperties DEF IInv, Idle, Types, HeaderExact, Opened
<1>2. /\ Recovered' = [Recovered EXCEPT ![p] = v]
      /\ \A n \in 0 .. Len(wal) : View(wal', n, main') = View(wal, n, main)
  BY <1>1, LogPageEffect
<1>3. /\ txn = NoSnapshot \/ txn.walLen \in 0 .. Len(wal)
      /\ op = NoSnapshot \/ op.walLen \in 0 .. Len(wal)
  BY <1>1 DEF IInv, Types, SnapshotExact, Snapshots
<1>4. SnapshotView(txn)' = SnapshotView(txn) /\ SnapshotView(op)' = SnapshotView(op)
  BY <1>2, <1>3, SnapshotViewKept DEF SnapshotView
<1>5. CASE p < count
  BY <1>1, <1>2, <1>4, <1>5 DEF Dense, Abstract!WritePage
<1>6. CASE p = count
  <2>1. \A q \in Pages : Recovered[q] = Absent <=> q >= p
    BY <1>1, <1>6 DEF Dense, Pages
  <2> QED  BY <1>2, <1>4, <2>1 DEF Abstract!AppendPage, Abstract!Pages, Pages
<1> QED  BY <1>5, <1>6

\* A step that keeps the recovered pages and both snapshots is a stutter.
LEMMA StutterRefines ==
  ASSUME Recovered' = Recovered, SnapshotView(txn)' = SnapshotView(txn),
         SnapshotView(op)' = SnapshotView(op)
  PROVE  [Abstract!Next]_(Abstract!vars)
  BY DEF Abstract!vars

\* Losing the memory is the abstract crash: the snapshots go, the pages stay.
LEMMA ForgetRefines ==
  ASSUME Recovered' = Recovered, txn' = NoSnapshot, op' = NoSnapshot
  PROVE  [Abstract!Next]_(Abstract!vars)
  BY DEF Abstract!Next, Abstract!Crash, SnapshotView

\* Between checkpoints nobody holds a snapshot: one that keeps the recovered
\* pages is a stutter.
LEMMA CheckpointRefines ==
  ASSUME Recovered' = Recovered, txn = NoSnapshot, op = NoSnapshot, UNCHANGED <<txn, op>>
  PROVE  [Abstract!Next]_(Abstract!vars)
  BY DEF Abstract!vars, SnapshotView

\* Every step of the file backend is a step of the PageStore, or none.
LEMMA StepRefines == IInv /\ IInv' /\ [Next]_vars => [Abstract!Next]_(Abstract!vars)
<1> SUFFICES ASSUME IInv, IInv', [Next]_vars PROVE [Abstract!Next]_(Abstract!vars)
  OBVIOUS
<1>ty. /\ Types /\ wal \in Seq(GoodEntries) /\ Len(wal) \in Nat /\ count \in 0 .. MaxPage + 1
       /\ main \in [Pages -> Contents] /\ 0 \in Pages
  BY LenProperties, MaxPageAssumption DEF IInv, Types, Pages
<1>sn. /\ SnapshotView(txn) = NoSnapshot <=> txn = NoSnapshot
       /\ SnapshotView(op) = NoSnapshot <=> op = NoSnapshot
       /\ txn # NoSnapshot => txn.walLen \in 0 .. Len(wal)
       /\ op # NoSnapshot => op.walLen \in 0 .. Len(wal)
  BY <1>ty, SnapshotViewDefined DEF IInv, Types, SnapshotExact, Snapshots
<1>qt. pc # "ready" => txn = NoSnapshot /\ op = NoSnapshot
  BY DEF IInv, SnapshotExact
<1>sf. ASSUME UNCHANGED files
       PROVE  /\ Recovered' = Recovered
              /\ txn' = txn => SnapshotView(txn)' = SnapshotView(txn)
              /\ op' = op => SnapshotView(op)' = SnapshotView(op)
  BY <1>sf, SameFiles DEF SnapshotView
<1>1. ASSUME NEW p \in Pages, ReadPage(p) PROVE [Abstract!Next]_(Abstract!vars)
  BY <1>1, <1>sf, StutterRefines DEF ReadPage, files
<1>2. ASSUME NEW p \in Pages, NEW v \in Values, WritePage(p, v)
      PROVE  [Abstract!Next]_(Abstract!vars)
  <2>1. Abstract!WritePage(p, v) \/ Abstract!AppendPage(p, v)
    BY <1>2, LogRefines DEF WritePage
  <2> QED  BY <2>1 DEF Abstract!Next, Abstract!Pages, Pages
<1>3. ASSUME NEW v \in Values, WriteHeader(v) PROVE [Abstract!Next]_(Abstract!vars)
  <2>1. 0 < count \/ 0 = count
    BY <1>ty
  <2>2. Abstract!WritePage(0, v) \/ Abstract!AppendPage(0, v)
    BY <1>3, <1>ty, <2>1, LogRefines DEF WriteHeader
  <2> QED  BY <1>ty, <2>2 DEF Abstract!Next, Abstract!Pages, Pages
<1>4. ASSUME NEW v \in Values, AppendPage(v) PROVE [Abstract!Next]_(Abstract!vars)
  <2>1. count \in Pages
    BY <1>4, <1>ty DEF AppendPage, Pages
  <2>2. Abstract!WritePage(count, v) \/ Abstract!AppendPage(count, v)
    BY <1>4, <2>1, LogRefines DEF AppendPage
  <2> QED  BY <2>1, <2>2 DEF Abstract!Next, Abstract!Pages, Pages
<1>5. CASE BeginTransaction \/ BeginOperation
  <2> USE <1>5 DEF BeginTransaction, BeginOperation, memory
  <2>1. /\ UNCHANGED files /\ walLen = Len(wal)
        /\ Recovered = View(wal, Len(wal), main) /\ Recovered' = Recovered
        /\ wal' = wal /\ main' = main
    BY <1>ty, <1>sf, RecoveredWhole DEF files, Idle, IInv, IndexExact
  <2>2. Snapshot # NoSnapshot /\ Snapshot.walLen = Len(wal)
    <3>1. Snapshot \in [walLen : Nat, count : Nat, header : Values \cup {Zero, Absent}]
      BY <1>ty DEF Snapshot, Types
    <3> QED  BY <2>1, <3>1, SentinelAssumption DEF Snapshot
  <2>3. SnapshotView(Snapshot) = Recovered
    BY <2>1, <2>2 DEF SnapshotView
  <2>4. CASE BeginTransaction
    <3>1. SnapshotView(txn)' = Recovered /\ SnapshotView(op)' = SnapshotView(op)
      BY <2>1, <2>3, <2>4 DEF SnapshotView
    <3> QED  BY <1>sn, <2>1, <2>4, <3>1 DEF Abstract!Next, Abstract!BeginTransaction
  <2>5. CASE BeginOperation
    <3>1. SnapshotView(op)' = Recovered /\ SnapshotView(txn)' = SnapshotView(txn)
      BY <2>1, <2>3, <2>5 DEF SnapshotView
    <3> QED  BY <1>sn, <2>1, <2>5, <3>1 DEF Abstract!Next, Abstract!BeginOperation
  <2> QED  BY <2>4, <2>5
<1>6. CASE FinishOperation
  <2>1. /\ Recovered' = Recovered /\ SnapshotView(txn)' = SnapshotView(txn)
        /\ SnapshotView(op)' = NoSnapshot
    BY <1>6, <1>sf DEF FinishOperation, memory, SnapshotView
  <2> QED  BY <1>6, <1>sn, <2>1 DEF FinishOperation, Abstract!Next, Abstract!FinishOperation
<1>7. CASE RollbackTransaction
  <2>1. Recovered' = View(wal, txn.walLen, main)
    BY <1>7, <1>sn, <1>ty, RestoreEffect DEF RollbackTransaction
  <2>2. /\ Recovered' = SnapshotView(txn) /\ SnapshotView(txn)' = NoSnapshot
        /\ SnapshotView(op)' = SnapshotView(op)
    BY <1>7, <2>1 DEF RollbackTransaction, SnapshotView
  <2> QED
    BY <1>7, <1>sn, <2>2 DEF RollbackTransaction, Abstract!Next, Abstract!RollbackTransaction
<1>8. CASE AbandonOperation
  <2>1. /\ Recovered' = View(wal, op.walLen, main)
        /\ \A n \in 0 .. op.walLen : View(wal', n, main') = View(wal, n, main)
    BY <1>8, <1>sn, <1>ty, RestoreEffect DEF AbandonOperation
  <2>2. txn # NoSnapshot => txn.walLen \in 0 .. op.walLen
    BY <1>8, <1>ty, <1>sn DEF AbandonOperation, IInv, SnapshotsNested
  <2>3. /\ Recovered' = SnapshotView(op) /\ SnapshotView(op)' = NoSnapshot
        /\ SnapshotView(txn)' = SnapshotView(txn)
    BY <1>8, <2>1, <2>2 DEF AbandonOperation, SnapshotView
  <2> QED
    BY <1>8, <1>sn, <2>3 DEF AbandonOperation, Abstract!Next, Abstract!AbandonOperation
<1>9. CASE Close
  <2>1. CASE txn = NoSnapshot
    BY <1>9, <1>sf, <2>1, StutterRefines DEF Close, files
  <2>2. CASE txn # NoSnapshot
    <3>1. Recovered' = View(wal, txn.walLen, main)
      BY <1>9, <1>sn, <1>ty, <2>2, RestoreEffect DEF Close
    <3>2. /\ Recovered' = SnapshotView(txn) /\ SnapshotView(txn)' = NoSnapshot
          /\ SnapshotView(op)' = SnapshotView(op)
      BY <1>9, <2>2, <3>1 DEF Close, SnapshotView
    <3> QED
      BY <1>9, <1>sn, <2>2, <3>2 DEF Close, Abstract!Next, Abstract!RollbackTransaction
  <2> QED  BY <2>1, <2>2
<1>10. CASE Flush
  BY <1>10, <1>sf, StutterRefines DEF Flush
<1>11. CASE CommitTransaction
  <2>1. /\ Recovered' = Recovered /\ SnapshotView(op)' = SnapshotView(op)
        /\ SnapshotView(txn)' = NoSnapshot
    BY <1>11, <1>sf DEF CommitTransaction, SnapshotView
  <2> QED
    BY <1>11, <1>sn, <2>1 DEF CommitTransaction, Abstract!Next, Abstract!CommitTransaction
<1>12. CASE FlushOnClose
  <2>1. Recovered' = Recovered
    BY <1>12, <1>sf DEF FlushOnClose
  <2>2. CASE Logged = {}
    BY <1>12, <2>1, <2>2, ForgetRefines DEF FlushOnClose, Forget
  <2>3. CASE Logged # {}
    BY <1>12, <1>qt, <2>1, <2>3, CheckpointRefines DEF FlushOnClose
  <2> QED  BY <2>2, <2>3
<1>13. CASE Preallocate
  <2>1. /\ offsets = LoadIndex(wal) /\ Dense(Recovered, count) /\ PagesExact
    BY <1>13 DEF Preallocate, IInv, IndexExact, HeaderExact, Opened
  <2>2. Recovered' = Recovered
    <3>1. CASE MainLen(main) < count
      BY <1>13, <1>ty, <2>1, <3>1, PreallocateEffect DEF Preallocate
    <3>2. CASE ~ MainLen(main) < count
      BY <1>13, <3>2, <1>sf DEF Preallocate, files
    <3> QED  BY <3>1, <3>2
  <2> QED  BY <1>13, <1>qt, <2>2, CheckpointRefines DEF Preallocate
<1>14. ASSUME NEW p \in Pages, CopyPage(p) PROVE [Abstract!Next]_(Abstract!vars)
  <2>1. /\ offsets = LoadIndex(wal) /\ offsets[p] # 0 /\ PagesExact
    BY <1>14 DEF CopyPage, IInv, IndexExact, CheckpointExact, Logged
  <2>2. Recovered' = Recovered
    BY <1>14, <1>ty, <2>1, CopyEffect DEF CopyPage
  <2> QED  BY <1>14, <1>qt, <2>2, CheckpointRefines DEF CopyPage
<1>15. CASE SyncMain \/ FlushError
  BY <1>15, <1>sf, StutterRefines DEF SyncMain, FlushError
<1>16. CASE TruncateWal
  <2>1. /\ offsets = LoadIndex(wal) /\ todo = {}
        /\ \A p \in Logged : main[p] = wal[offsets[p]].data
    BY <1>16 DEF TruncateWal, IInv, IndexExact, CheckpointExact
  <2>2. Recovered' = main
    <3>1. wal' = <<>> /\ main' = main
      BY <1>16 DEF TruncateWal, SetLen
    <3>2. Recovered' = View(<<>>, 0, main)
      BY <3>1, EmptySeq, ValidLenWhole DEF Recovered
    <3> QED  BY <1>ty, <3>2, ViewEmpty
  <2>3. Recovered = main
    <3>1. \A p \in Pages : Recovered[p] = main[p]
      BY <1>ty, <2>1, LoggedValue, MissingIsLogged DEF Logged
    <3> QED  BY <1>ty, <3>1 DEF IInv, PagesExact
  <2> QED  BY <1>16, <1>qt, <2>2, <2>3, CheckpointRefines DEF TruncateWal
<1>17. CASE FinishCheckpoint
  <2>1. Recovered' = Recovered
    BY <1>17, <1>sf DEF FinishCheckpoint
  <2>2. CASE caller = "close"
    BY <1>17, <2>1, <2>2, ForgetRefines DEF FinishCheckpoint, Forget
  <2>3. CASE caller # "close"
    BY <1>17, <1>qt, <2>1, <2>3, CheckpointRefines DEF FinishCheckpoint
  <2> QED  BY <2>2, <2>3
<1>18. CASE Crash
  BY <1>18, <1>sf, ForgetRefines DEF Crash, Forget
<1>19. CASE Open \/ ReadHeader
  BY <1>19, <1>sf, StutterRefines DEF Open, ReadHeader
<1>20. CASE UNCHANGED vars
  <2>1. UNCHANGED files /\ txn' = txn /\ op' = op
    BY <1>20 DEF vars, files
  <2> QED  BY <1>sf, <2>1, StutterRefines
<1> QED
  BY <1>1, <1>2, <1>3, <1>4, <1>5, <1>6, <1>7, <1>8, <1>9, <1>10, <1>11, <1>12, <1>13,
     <1>14, <1>15, <1>16, <1>17, <1>18, <1>19, <1>20 DEF Next

\* The file backend gives the layers above it what the memory backend gives: a
\* rollback puts every page back, and no checkpoint, failed checkpoint, death at
\* any step of one, or reopening changes a page (storage/file.rs, storage/wal.rs).
THEOREM Refinement == Spec => ImplementsPageStore
<1>1. Init => Abstract!Init
  BY InitRefines
<1>2. IInv /\ IInv' /\ [Next]_vars => [Abstract!Next]_(Abstract!vars)
  BY StepRefines
<1> QED  BY <1>1, <1>2, Invariance, PTL DEF Spec, ImplementsPageStore, Abstract!Spec

-----------------------------------------------------------------------------
(* Power loss. *)

\* A log that is torn at its end or nowhere.
TailTorn(w) ==
    /\ w \in Seq(GoodEntries \cup {Torn})
    /\ \A i \in 1 .. Len(w) : w[i] = Torn => i = Len(w)

\* What a history of the pages is: the pages are written in order, and one that was not there
\* when the last checkpoint ended can also be found as zeros.
History(l) ==
    /\ l \in [Pages -> SUBSET Contents]
    /\ \A p \in Pages : Absent \in l[p] => l[p] = {Absent} \/ Zero \in l[p]
    /\ \A p, q \in Pages : p < q /\ l[p] = {Absent} => l[q] = {Absent}

\* The first n pages are in the history.
Reaches(l, n) == \A p \in Pages : p < n => l[p] # {Absent}

\* Whatever version of the main file and of the first n entries of the log w the disk holds
\* is in the history.
DiskIn(l) == \A p \in Pages : mainDisk[p] \subseteq l[p]
LogIn(l, w, n) == \A i \in 1 .. n : w[i] # Torn => w[i].data \in l[w[i].page]

FaultTypes ==
    /\ main \in [Pages -> Contents]
    /\ count \in 0 .. MaxPage + 1
    /\ offsets \in [Pages -> Nat] /\ walLen \in Nat
    /\ pc \in PCs /\ todo \subseteq Pages
    /\ \E n \in 0 .. MaxPage + 1 : Dense(main, n)

\* Every version the disk may hold is a log and a set of contents, the current ones among them.
Versions ==
    /\ wal \in walDisk /\ \A w \in walDisk : TailTorn(w)
    /\ walSafe \in Nat
    /\ mainDisk \in [Pages -> SUBSET Contents]
    /\ \A p \in Pages : main[p] \in mainDisk[p]

\* The index is the one load_index gives for the log.
IndexLoaded ==
    /\ pc \notin {"down", "truncated"} => walLen = ValidLen(wal) /\ offsets = LoadIndex(wal)
    /\ pc = "truncated" => wal = <<>>
    /\ pc \in {"prealloc", "copy"} => todo \subseteq Logged

\* Once the main file is synced the disk has no older version of it; and it reaches as far as
\* the pages in memory.
MainOnDisk ==
    /\ pc \in {"synced", "truncated"} => \A p \in Pages : mainDisk[p] = {main[p]}
    /\ pc \in {"copy", "synced", "truncated"} /\ caller # "open" =>
           \A p \in Pages : p < count => main[p] # Absent

\* What may be found is in the history, and so is what may be found after a rollback.
Historic ==
    /\ History(legit) /\ DiskIn(legit)
    /\ \A w \in walDisk : LogIn(legit, w, Len(w))
    /\ Opened => Reaches(legit, count)

SnapshotHistoric(s, l) ==
    s # NoSnapshot =>
        /\ pc = "ready"
        /\ s.walLen \in 0 .. ValidLen(wal) /\ s.count \in 0 .. MaxPage + 1
        /\ History(l) /\ DiskIn(l) /\ LogIn(l, wal, s.walLen) /\ Reaches(l, s.count)

FaultInv ==
    /\ FaultTypes /\ Versions /\ IndexLoaded /\ MainOnDisk /\ Historic
    /\ SnapshotHistoric(txn, legitTxn) /\ SnapshotHistoric(op, legitOp) /\ SnapshotsNested

-----------------------------------------------------------------------------
(* A log with a torn end. *)

\* load_index reads a log up to its torn end.
LEMMA ValidLenTorn ==
  ASSUME NEW w, TailTorn(w)
  PROVE  /\ ValidLen(w) \in 0 .. Len(w) /\ Len(w) \in Nat
         /\ \A i \in 1 .. ValidLen(w) : w[i] # Torn /\ w[i] \in GoodEntries
         /\ ValidLen(w) = Len(w) \/ w[ValidLen(w) + 1] = Torn
<1> DEFINE Valid(n) == /\ \A i \in 1 .. n : w[i] # Torn
                       /\ n = Len(w) \/ w[n + 1] = Torn
<1>1. Len(w) \in Nat /\ \A i \in 1 .. Len(w) : w[i] \in GoodEntries \cup {Torn}
  BY LenProperties, ElementOfSeq DEF TailTorn
<1>2. \E n \in 0 .. Len(w) : Valid(n)
  <2>1. CASE Len(w) = 0
    BY <1>1, <2>1
  <2>2. CASE Len(w) # 0 /\ w[Len(w)] = Torn
    <3>1. Len(w) - 1 \in 0 .. Len(w) /\ (Len(w) - 1) + 1 = Len(w)
      BY <1>1, <2>2
    <3>2. \A i \in 1 .. Len(w) - 1 : w[i] # Torn
      BY <1>1 DEF TailTorn
    <3> QED
      BY <2>2, <3>1, <3>2
  <2>3. CASE Len(w) # 0 /\ w[Len(w)] # Torn
    <3>1. \A i \in 1 .. Len(w) : w[i] # Torn
      BY <1>1, <2>3 DEF TailTorn
    <3> QED
      BY <1>1, <3>1
  <2> QED
    BY <2>1, <2>2, <2>3
<1>3. ValidLen(w) \in 0 .. Len(w) /\ Valid(ValidLen(w))
  BY <1>2 DEF ValidLen
<1>4. \A i \in 1 .. ValidLen(w) : i \in 1 .. Len(w)
  BY <1>1, <1>3
<1> QED
  BY <1>1, <1>3, <1>4

\* A log of good entries is torn nowhere.
LEMMA GoodLog ==
  ASSUME NEW w \in Seq(GoodEntries)
  PROVE  TailTorn(w) /\ ValidLen(w) = Len(w)
<1>1. \A i \in 1 .. Len(w) : w[i] # Torn
  BY GoodEntriesNotTorn, ElementOfSeq
<1>2. w \in Seq(GoodEntries \cup {Torn})
  BY SeqDef
<1> QED
  BY <1>1, <1>2, ValidLenWhole DEF TailTorn

\* WalFile::write puts its entry over the torn one.
LEMMA WriteOverTorn ==
  ASSUME NEW w, TailTorn(w), NEW e \in GoodEntries, NEW x, x = WriteAt(w, ValidLen(w), e)
  PROVE  /\ x \in Seq(GoodEntries)
         /\ Len(x) = ValidLen(w) + 1
         /\ x[ValidLen(w) + 1] = e
         /\ \A i \in 1 .. ValidLen(w) : x[i] = w[i]
<1> DEFINE n == ValidLen(w)
<1>1. /\ n \in 0 .. Len(w) /\ Len(w) \in Nat /\ \A i \in 1 .. n : w[i] \in GoodEntries
      /\ n = Len(w) \/ w[n + 1] = Torn
  BY ValidLenTorn
<1>2. Len(w) \in {n, n + 1}
  <2>1. n # Len(w) => n + 1 \in 1 .. Len(w)
    BY <1>1
  <2> QED
    BY <1>1, <2>1 DEF TailTorn
<1>3. x = [i \in 1 .. n + 1 |-> IF i = n + 1 THEN e ELSE w[i]]
  BY <1>1, <1>2 DEF WriteAt
<1>4. x \in [1 .. n + 1 -> GoodEntries] /\ n + 1 \in Nat
  BY <1>1, <1>2, <1>3
<1>5. x \in Seq(GoodEntries)
  BY <1>4, SeqDef
<1>6. Len(x) = n + 1
  BY <1>4, <1>5, LenProperties
<1> QED
  BY <1>1, <1>3, <1>6

\* File::set_len with a length that load_index accepts keeps the first entries.
LEMMA CutTorn ==
  ASSUME NEW w, TailTorn(w), NEW n \in 0 .. ValidLen(w)
  PROVE  /\ SetLen(w, n) \in Seq(GoodEntries)
         /\ Len(SetLen(w, n)) = n
         /\ \A i \in 1 .. n : SetLen(w, n)[i] = w[i]
<1> DEFINE x == SetLen(w, n)
<1>1. /\ Len(w) \in Nat /\ ValidLen(w) \in 0 .. Len(w)
      /\ \A i \in 1 .. ValidLen(w) : w[i] \in GoodEntries
  BY ValidLenTorn, LenProperties DEF TailTorn
<1>2. x = [i \in 1 .. n |-> w[i]]
  BY <1>1 DEF SetLen
<1>3. x \in [1 .. n -> GoodEntries] /\ n \in Nat
  BY <1>1, <1>2
<1>4. x \in Seq(GoodEntries)
  BY <1>3, SeqDef
<1>5. Len(x) = n
  BY <1>3, <1>4, LenProperties
<1> QED
  BY <1>2, <1>4, <1>5

\* The index load_index gives names entries it accepts.
LEMMA IndexTyped ==
  ASSUME NEW w, TailTorn(w)
  PROVE  /\ LoadIndex(w) \in [Pages -> Nat]
         /\ \A p \in Pages : /\ LoadIndex(w)[p] \in 0 .. ValidLen(w)
                             /\ LoadIndex(w)[p] # 0 => w[LoadIndex(w)[p]].page = p
<1> DEFINE n == ValidLen(w)
<1>1. n \in Nat
  BY ValidLenTorn
<1>2. LoadIndex(w) = [p \in Pages |-> LastEntry(w, n, p)]
  BY DEF LoadIndex
<1> HIDE DEF n
<1>3. \A p \in Pages : /\ LastEntry(w, n, p) \in 0 .. n
                       /\ LastEntry(w, n, p) # 0 => w[LastEntry(w, n, p)].page = p
  BY <1>1, LastEntryType
<1> QED
  BY <1>1, <1>2, <1>3 DEF n

\* The index WalFile::write maintains is the one load_index would give.
LEMMA WrittenIndex ==
  ASSUME NEW w, TailTorn(w), NEW p \in Pages, NEW v \in Values, NEW x, x = WriteAt(w, ValidLen(w), LogEntry(p, v))
  PROVE  LoadIndex(x) = [LoadIndex(w) EXCEPT ![p] = ValidLen(w) + 1]
<1> DEFINE n == ValidLen(w)
<1>1. LogEntry(p, v) \in GoodEntries /\ LogEntry(p, v).page = p
  BY DEF LogEntry, GoodEntries
<1>2. /\ x \in Seq(GoodEntries) /\ Len(x) = n + 1 /\ x[n + 1] = LogEntry(p, v)
      /\ \A i \in 1 .. n : x[i] = w[i]
  BY <1>1, WriteOverTorn
<1>3. n \in Nat
  BY ValidLenTorn
<1>4. ASSUME NEW q \in Pages
      PROVE  LastEntry(x, n + 1, q) = IF q = p THEN n + 1 ELSE LastEntry(w, n, q)
  <2>1. n + 1 \in Nat \ {0} /\ (n + 1) - 1 = n
    BY <1>3
  <2>2. LastEntry(x, n, q) = LastEntry(w, n, q)
    BY <1>2, <1>3, LastEntryPrefix
  <2>3. LastEntry(x, n + 1, q) = IF x[n + 1].page = q THEN n + 1 ELSE LastEntry(x, n, q)
    BY <2>1, LastEntryStep
  <2> QED
    BY <1>1, <1>2, <2>2, <2>3
<1>5. LoadIndex(x) = [q \in Pages |-> LastEntry(x, n + 1, q)]
  BY <1>2, LoadIndexWhole
<1>6. LoadIndex(w) = [q \in Pages |-> LastEntry(w, n, q)]
  BY DEF LoadIndex
<1>7. LoadIndex(x) = [q \in Pages |-> IF q = p THEN n + 1 ELSE LastEntry(w, n, q)]
  BY <1>4, <1>5
<1> HIDE DEF n
<1> QED
  BY <1>6, <1>7 DEF n

-----------------------------------------------------------------------------
(* The main file. *)

\* A page written with something to the main file: those before it are there too.
LEMMA MainWritten ==
  ASSUME NEW m \in [Pages -> Contents], NEW n \in 0 .. MaxPage + 1, Dense(m, n),
         NEW p \in Pages, NEW v \in Values \cup {Zero}
  PROVE  /\ WriteMain(m, p, v) \in [Pages -> Contents]
         /\ \E k \in 0 .. MaxPage + 1 : Dense(WriteMain(m, p, v), k)
         /\ WriteMain(m, p, v)[p] = v
         /\ \A q \in Pages : q # p => \/ WriteMain(m, p, v)[q] = m[q]
                                      \/ q < p /\ m[q] = Absent /\ WriteMain(m, p, v)[q] = Zero
         /\ \A q \in Pages : m[q] # Absent => WriteMain(m, p, v)[q] # Absent
<1> DEFINE x == WriteMain(m, p, v)
           k == IF p < n THEN n ELSE p + 1
<1>1. v # Absent /\ Zero # Absent /\ v \in Contents /\ Zero \in Contents
  BY SentinelsDiffer DEF Contents
<1>2. x \in [Pages -> Contents] /\ \A q \in Pages : x[q] = IF q = p THEN v ELSE IF q < p /\ m[q] = Absent THEN Zero ELSE m[q]
  BY <1>1 DEF WriteMain
<1>3. k \in 0 .. MaxPage + 1
  BY MaxPageAssumption DEF Pages
<1>4. Dense(x, k)
  <2> SUFFICES ASSUME NEW q \in Pages PROVE x[q] # Absent <=> q < k
    BY DEF Dense
  <2>1. m[q] # Absent <=> q < n
    BY DEF Dense
  <2>2. q \in Nat /\ p \in Nat /\ n \in Nat
    BY MaxPageAssumption DEF Pages
  <2> QED
    BY <1>1, <1>2, <2>1, <2>2
<1>6. \A q \in Pages : q # p => x[q] = m[q] \/ (q < p /\ m[q] = Absent /\ x[q] = Zero)
  BY <1>2
<1>7. \A q \in Pages : m[q] # Absent => x[q] # Absent
  BY <1>1, <1>2
<1>8. x[p] = v
  BY <1>2
<1> HIDE DEF x, k
<1>5. \E j \in 0 .. MaxPage + 1 : Dense(x, j)
  BY <1>3, <1>4
<1> QED
  BY <1>2, <1>5, <1>6, <1>7, <1>8 DEF x

\* What a power loss leaves of a main file has no gaps.
LEMMA HolesFilled ==
  ASSUME NEW m \in [Pages -> Contents]
  PROVE  /\ FillHoles(m) \in [Pages -> Contents]
         /\ \E n \in 0 .. MaxPage + 1 : Dense(FillHoles(m), n)
         /\ \A p \in Pages :
                \/ FillHoles(m)[p] = m[p]
                \/ /\ m[p] = Absent /\ FillHoles(m)[p] = Zero
                   /\ \E q \in Pages : q > p /\ m[q] # Absent
<1> DEFINE T == {n \in 0 .. MaxPage + 1 : \A q \in Pages : q >= n => m[q] = Absent}
<1>1. MaxPage + 1 \in T
  BY MaxPageAssumption DEF Pages
<1>2. T \in SUBSET Nat
  OBVIOUS
<1> HIDE DEF T
<1>3. PICK n \in T : \A k \in T : n <= k
  BY <1>1, <1>2, LeastNumber
<1>4. n \in 0 .. MaxPage + 1 /\ \A q \in Pages : q >= n => m[q] = Absent
  BY <1>3 DEF T
<1>5. n # 0 => n - 1 \in Pages /\ m[n - 1] # Absent
  <2> SUFFICES ASSUME n # 0 PROVE n - 1 \in Pages /\ m[n - 1] # Absent
    OBVIOUS
  <2>1. n - 1 \in 0 .. MaxPage + 1 /\ n - 1 \in Pages
    BY <1>4, MaxPageAssumption DEF Pages
  <2>2. n - 1 \notin T
    BY <1>3, <1>4
  <2>3. PICK q \in Pages : q >= n - 1 /\ m[q] # Absent
    BY <2>1, <2>2 DEF T
  <2>4. q = n - 1
    BY <1>4, <2>3, MaxPageAssumption DEF Pages
  <2> QED
    BY <2>1, <2>3, <2>4
<1>6. Zero # Absent /\ Zero \in Contents
  BY SentinelsDiffer DEF Contents
<1>7. \A p \in Pages : FillHoles(m)[p] =
          IF m[p] = Absent /\ \E q \in Pages : q > p /\ m[q] # Absent THEN Zero ELSE m[p]
  BY DEF FillHoles
<1>8. \A p \in Pages : FillHoles(m)[p] # Absent <=> p < n
  <2> SUFFICES ASSUME NEW p \in Pages PROVE FillHoles(m)[p] # Absent <=> p < n
    OBVIOUS
  <2>1. p \in Nat /\ n \in Nat
    BY <1>4, MaxPageAssumption DEF Pages
  <2>2. CASE p >= n
    <3>1. \A q \in Pages : q > p => m[q] = Absent
      BY <1>4, <2>1, <2>2 DEF Pages
    <3> QED
      BY <1>4, <1>7, <2>1, <2>2, <3>1
  <2>3. CASE p = n - 1
    BY <1>5, <1>7, <2>1, <2>3
  <2>4. CASE p < n - 1
    <3>1. n - 1 \in Pages /\ n - 1 > p /\ m[n - 1] # Absent
      BY <1>5, <2>1, <2>4
    <3> QED
      BY <1>6, <1>7, <2>1, <2>4, <3>1
  <2> QED
    BY <2>1, <2>2, <2>3, <2>4
<1>9. FillHoles(m) \in [Pages -> Contents]
  BY <1>6 DEF FillHoles
<1> QED
  BY <1>4, <1>7, <1>8, <1>9 DEF Dense

-----------------------------------------------------------------------------
(* The history. *)

\* The history when v is written to page p.
Grown(l, p, v) == [l EXCEPT ![p] = @ \cup IF @ = {Absent} THEN {v, Zero} ELSE {v}]

\* A history goes on with what is written to a page that is there, or to the first that is not.
LEMMA HistoryGrows ==
  ASSUME NEW l, History(l), NEW n \in 0 .. MaxPage + 1, Reaches(l, n),
         NEW p \in Pages, p <= n, NEW v \in Values, NEW k \in {n, n + 1}, k = n \/ k = p + 1
  PROVE  /\ History(Grown(l, p, v)) /\ Reaches(Grown(l, p, v), k)
         /\ v \in Grown(l, p, v)[p] /\ \A q \in Pages : l[q] \subseteq Grown(l, p, v)[q]
<1> DEFINE x == Grown(l, p, v)
<1>1. v # Absent /\ v \in Contents /\ Zero \in Contents /\ Zero # Absent
  BY SentinelsDiffer DEF Contents
<1>2. l \in [Pages -> SUBSET Contents]
  BY DEF History
<1>3. /\ x \in [Pages -> SUBSET Contents]
      /\ x[p] = l[p] \cup (IF l[p] = {Absent} THEN {v, Zero} ELSE {v})
      /\ \A q \in Pages : q # p => x[q] = l[q]
  BY <1>1, <1>2 DEF Grown
<1> HIDE DEF x
<1>4. v \in x[p] /\ x[p] # {Absent} /\ \A q \in Pages : l[q] \subseteq x[q]
  BY <1>1, <1>3
<1>5. \A q \in Pages : q \in Nat
  BY DEF Pages
<1>6. \A q \in Pages : Absent \in x[q] => x[q] = {Absent} \/ Zero \in x[q]
  BY <1>1, <1>3 DEF History
<1>7. \A q, r \in Pages : q < r /\ x[q] = {Absent} => x[r] = {Absent}
  <2> SUFFICES ASSUME NEW q \in Pages, NEW r \in Pages, q < r, x[q] = {Absent} PROVE x[r] = {Absent}
    OBVIOUS
  <2>1. q # p /\ l[q] = {Absent}
    BY <1>3, <1>4
  <2>2. q >= p
    BY <1>5, <2>1 DEF Reaches
  <2>3. r # p
    BY <1>5, <2>1, <2>2
  <2> QED
    BY <1>3, <2>1, <2>3 DEF History
<1>8. Reaches(x, k)
  <2> SUFFICES ASSUME NEW q \in Pages, q < k PROVE x[q] # {Absent}
    BY DEF Reaches
  <2>1. CASE q = p
    BY <1>4, <2>1
  <2>2. CASE q # p
    <3>1. q < n
      BY <1>5, <2>2
    <3> QED
      BY <1>3, <2>2, <3>1 DEF Reaches
  <2> QED
    BY <2>1, <2>2
<1>9. History(x)
  BY <1>3, <1>6, <1>7 DEF History
<1> QED
  BY <1>4, <1>8, <1>9 DEF x

\* A page missing from some version of the main file may be found as zeros when a later one,
\* or the page itself, was written.
LEMMA GapInHistory ==
  ASSUME NEW l, History(l), NEW p \in Pages, NEW q \in Pages, p <= q,
         Absent \in l[p], l[q] # {Absent}
  PROVE  Zero \in l[p]
<1>1. p \in Nat /\ q \in Nat
  BY DEF Pages
<1>2. l[p] # {Absent}
  BY <1>1 DEF History
<1> QED
  BY <1>2 DEF History

\* What a recovery finds is a version of the page.
LEMMA RecoveredIn ==
  ASSUME NEW l, NEW w, TailTorn(w), LogIn(l, w, Len(w)), NEW m, \A p \in Pages : m[p] \in l[p]
  PROVE  \A p \in Pages : View(w, ValidLen(w), m)[p] \in l[p]
<1>1. /\ ValidLen(w) \in 0 .. Len(w) /\ Len(w) \in Nat
      /\ \A i \in 1 .. ValidLen(w) : w[i] # Torn
  BY ValidLenTorn
<1> SUFFICES ASSUME NEW p \in Pages PROVE View(w, ValidLen(w), m)[p] \in l[p]
  OBVIOUS
<1>2. LastEntry(w, ValidLen(w), p) \in 0 .. ValidLen(w)
      /\ (LastEntry(w, ValidLen(w), p) # 0 => w[LastEntry(w, ValidLen(w), p)].page = p)
  BY <1>1, LastEntryType
<1> DEFINE i == LastEntry(w, ValidLen(w), p)
<1>3. View(w, ValidLen(w), m)[p] = IF i = 0 THEN m[p] ELSE w[i].data
  BY DEF View
<1> HIDE DEF i
<1>4. i # 0 => w[i].data \in l[p]
  BY <1>1, <1>2 DEF i, LogIn
<1> QED
  BY <1>3, <1>4

-----------------------------------------------------------------------------
(* The versions on the disk. *)

\* A step that leaves its writes with the operating system adds a version.
LEMMA UnsyncedAdds ==
  ASSUME Versions, Unsynced, TailTorn(wal'), main' \in [Pages -> Contents]
  PROVE  /\ Versions'
         /\ walDisk' = walDisk \cup {wal'}
         /\ \A p \in Pages : mainDisk'[p] = mainDisk[p] \cup {main'[p]}
<1>1. Len(wal') \in Nat
  BY LenProperties DEF TailTorn
<1>2. walSafe' \in Nat
  BY <1>1 DEF Versions, Unsynced
<1>3. mainDisk' \in [Pages -> SUBSET Contents]
  BY DEF Versions, Unsynced
<1>4. /\ walDisk' = walDisk \cup {wal'}
      /\ \A p \in Pages : mainDisk'[p] = mainDisk[p] \cup {main'[p]}
  BY DEF Unsynced
<1> QED
  BY <1>2, <1>3, <1>4 DEF Versions

\* Without a write it adds none.
LEMMA UnsyncedMain ==
  ASSUME Versions, Unsynced, main' = main
  PROVE  mainDisk' = mainDisk
<1>1. \A p \in Pages : mainDisk[p] \cup {main'[p]} = mainDisk[p]
  BY DEF Versions
<1>2. mainDisk' = [p \in Pages |-> mainDisk[p]]
  BY <1>1 DEF Unsynced
<1> QED
  BY <1>2 DEF Versions

LEMMA UnsyncedKeeps ==
  ASSUME Versions, Unsynced, UNCHANGED <<main, wal>>, main \in [Pages -> Contents]
  PROVE  Versions' /\ walDisk' = walDisk /\ mainDisk' = mainDisk
<1>1. TailTorn(wal)
  BY DEF Versions
<1>2. Versions' /\ walDisk' = walDisk \cup {wal'}
  BY <1>1, UnsyncedAdds
<1>3. walDisk' = walDisk
  BY <1>2 DEF Versions
<1> QED
  BY <1>2, <1>3, UnsyncedMain

\* The snapshots that stay: the log is kept as far as they need it, the main file altogether.
LEMMA SnapshotsStay ==
  ASSUME FaultInv,
         txn' = NoSnapshot \/ /\ UNCHANGED <<txn, legitTxn>>
                              /\ txn # NoSnapshot =>
                                     /\ pc' = pc /\ mainDisk' = mainDisk
                                     /\ txn.walLen <= ValidLen(wal')
                                     /\ \A i \in 1 .. txn.walLen : wal'[i] = wal[i],
         op' = NoSnapshot \/ /\ UNCHANGED <<op, legitOp>>
                             /\ op # NoSnapshot =>
                                     /\ pc' = pc /\ mainDisk' = mainDisk
                                     /\ op.walLen <= ValidLen(wal')
                                     /\ \A i \in 1 .. op.walLen : wal'[i] = wal[i],
         TailTorn(wal')
  PROVE  SnapshotHistoric(txn, legitTxn)' /\ SnapshotHistoric(op, legitOp)' /\ SnapshotsNested'
<1>1. ValidLen(wal') \in Nat
  BY ValidLenTorn
<1>2. SnapshotHistoric(txn, legitTxn)'
  <2> SUFFICES ASSUME txn' # NoSnapshot PROVE SnapshotHistoric(txn, legitTxn)'
    BY DEF SnapshotHistoric
  <2>1. txn # NoSnapshot /\ txn.walLen \in Nat
    BY DEF FaultInv, SnapshotHistoric
  <2> QED
    BY <1>1, <2>1 DEF FaultInv, SnapshotHistoric, DiskIn, LogIn, History, Reaches
<1>3. SnapshotHistoric(op, legitOp)'
  <2> SUFFICES ASSUME op' # NoSnapshot PROVE SnapshotHistoric(op, legitOp)'
    BY DEF SnapshotHistoric
  <2>1. op # NoSnapshot /\ op.walLen \in Nat
    BY DEF FaultInv, SnapshotHistoric
  <2> QED
    BY <1>1, <2>1 DEF FaultInv, SnapshotHistoric, DiskIn, LogIn, History, Reaches
<1>4. SnapshotsNested'
  BY DEF FaultInv, SnapshotsNested
<1> QED
  BY <1>2, <1>3, <1>4

\* Outside of calls there is no snapshot.
LEMMA NoSnapshots ==
  ASSUME FaultInv, pc # "ready"
  PROVE  txn = NoSnapshot /\ op = NoSnapshot
  BY DEF FaultInv, SnapshotHistoric

-----------------------------------------------------------------------------
(* The steps. *)

\* A call writes a page.
LEMMA WriteKeeps ==
  ASSUME FaultInv, Idle, NEW p \in Pages, NEW v \in Values, LogPage(p, v), Written(p, v),
         p <= count, count' \in {count, count + 1}, count' = count \/ count' = p + 1,
         UNCHANGED <<main, txn, op, pc, todo, caller>>
  PROVE  FaultInv'
<1>1. /\ main \in [Pages -> Contents] /\ count \in 0 .. MaxPage + 1 /\ pc = "ready"
      /\ TailTorn(wal) /\ walLen = ValidLen(wal) /\ offsets = LoadIndex(wal)
      /\ Versions /\ History(legit) /\ Reaches(legit, count)
  BY DEF FaultInv, FaultTypes, Versions, IndexLoaded, Historic, Idle, Opened
<1> DEFINE n == ValidLen(wal)
           e == LogEntry(p, v)
<1>2. e \in GoodEntries /\ e.page = p /\ e.data = v
  BY DEF LogEntry, GoodEntries
<1>3. wal' = WriteAt(wal, n, e) /\ n \in 0 .. Len(wal) /\ Len(wal) \in Nat
  BY <1>1, ValidLenTorn DEF LogPage
<1> HIDE DEF e
<1>4. /\ wal' \in Seq(GoodEntries) /\ Len(wal') = n + 1 /\ wal'[n + 1] = e
      /\ \A i \in 1 .. n : wal'[i] = wal[i]
  BY <1>1, <1>2, <1>3, WriteOverTorn
<1>5. TailTorn(wal') /\ ValidLen(wal') = n + 1
  BY <1>4, GoodLog
<1>6. Versions' /\ walDisk' = walDisk \cup {wal'} /\ mainDisk' = mainDisk
  BY <1>1, <1>5, UnsyncedAdds, UnsyncedMain DEF Written
<1>7. offsets' = LoadIndex(wal') /\ walLen' = ValidLen(wal')
  <2>1. LoadIndex(wal') = [LoadIndex(wal) EXCEPT ![p] = n + 1]
    BY <1>1, <1>3, WrittenIndex DEF e
  <2> QED
    BY <1>1, <1>5, <2>1 DEF LogPage
<1>8. offsets' \in [Pages -> Nat] /\ walLen' \in Nat
  BY <1>3, <1>5, <1>7, IndexTyped
<1>9. count' \in 0 .. MaxPage + 1
  BY <1>1, MaxPageAssumption DEF Pages
<1>10. FaultTypes'
  BY <1>1, <1>8, <1>9 DEF FaultInv, FaultTypes, Dense
<1>11. IndexLoaded' /\ MainOnDisk'
  BY <1>1, <1>7 DEF IndexLoaded, MainOnDisk
<1>12. /\ History(legit') /\ Reaches(legit', count')
       /\ v \in legit'[p] /\ \A q \in Pages : legit[q] \subseteq legit'[q]
  <2>1. legit' = Grown(legit, p, v)
    BY DEF Written, Grown
  <2>2. count' = count \/ count' = p + 1
    OBVIOUS
  <2>3. History(legit) /\ count \in 0 .. MaxPage + 1 /\ Reaches(legit, count)
    BY <1>1
  <2> QED
    BY ONLY <2>1, <2>2, <2>3, p \in Pages, p <= count, v \in Values, count' \in {count, count + 1},
            HistoryGrows
<1>13. Historic'
  <2>1. DiskIn(legit)'
    BY <1>6, <1>12 DEF FaultInv, Historic, DiskIn
  <2>2. ASSUME NEW w \in walDisk PROVE LogIn(legit', w, Len(w))
    <3>1. LogIn(legit, w, Len(w)) /\ TailTorn(w)
      BY DEF FaultInv, Historic, Versions
    <3>2. \A i \in 1 .. Len(w) : w[i] # Torn => w[i].page \in Pages
      BY <3>1, ElementOfSeq DEF TailTorn, GoodEntries
    <3> QED
      BY <1>12, <3>1, <3>2 DEF LogIn
  <2>3. LogIn(legit', wal', Len(wal'))
    <3>1. LogIn(legit', wal, Len(wal))
      BY <1>1, <2>2 DEF Versions
    <3> SUFFICES ASSUME NEW i \in 1 .. Len(wal'), wal'[i] # Torn
                 PROVE  wal'[i].data \in legit'[wal'[i].page]
      BY DEF LogIn
    <3>2. CASE i = n + 1
      BY <1>2, <1>4, <1>12, <3>2
    <3>3. CASE i \in 1 .. n
      BY <1>3, <1>4, <3>1, <3>3 DEF LogIn
    <3> QED
      BY <1>3, <1>4, <3>2, <3>3
  <2>4. \A w \in walDisk' : LogIn(legit', w, Len(w))
    BY <1>6, <2>2, <2>3
  <2> QED
    BY <1>12, <2>1, <2>4 DEF Historic
<1>14. SnapshotHistoric(txn, legitTxn)' /\ SnapshotHistoric(op, legitOp)' /\ SnapshotsNested'
  <2>1. txn # NoSnapshot => txn.walLen \in 0 .. n
    BY DEF FaultInv, SnapshotHistoric
  <2>2. op # NoSnapshot => op.walLen \in 0 .. n
    BY DEF FaultInv, SnapshotHistoric
  <2>3. UNCHANGED <<legitTxn, legitOp>>
    BY DEF Written
  <2> HIDE DEF n
  <2> QED
    BY <1>3, <1>4, <1>5, <1>6, <2>1, <2>2, <2>3, SnapshotsStay
<1> QED
  BY <1>6, <1>10, <1>11, <1>13, <1>14 DEF FaultInv

\* A snapshot is restored.
LEMMA RestoreKeeps ==
  ASSUME FaultInv, Idle, NEW s, NEW l, s # NoSnapshot, SnapshotHistoric(s, l),
         Restore(s), WalSynced, legit' = l, UNCHANGED <<main, todo, caller>>,
         pc' \in {"ready", "closing"}, op' = NoSnapshot,
         txn' = NoSnapshot \/ /\ UNCHANGED <<txn, legitTxn, pc>>
                              /\ txn # NoSnapshot => txn.walLen <= s.walLen
  PROVE  FaultInv'
<1>1. /\ main \in [Pages -> Contents] /\ pc = "ready" /\ TailTorn(wal) /\ Versions
      /\ s.walLen \in 0 .. ValidLen(wal) /\ s.count \in 0 .. MaxPage + 1
      /\ History(l) /\ DiskIn(l) /\ LogIn(l, wal, s.walLen) /\ Reaches(l, s.count)
      /\ ValidLen(wal) \in Nat
  BY ValidLenTorn DEF FaultInv, FaultTypes, Versions, SnapshotHistoric
<1>2. /\ wal' \in Seq(GoodEntries) /\ Len(wal') = s.walLen
      /\ \A i \in 1 .. s.walLen : wal'[i] = wal[i]
  BY <1>1, CutTorn DEF Restore
<1>3. TailTorn(wal') /\ ValidLen(wal') = s.walLen
  BY <1>2, GoodLog
<1>4. /\ walDisk' = {wal'} /\ mainDisk' = mainDisk /\ walSafe' = Len(wal')
      /\ offsets' = LoadIndex(wal') /\ walLen' = ValidLen(wal') /\ count' = s.count
  BY DEF WalSynced, Restore
<1>5. offsets' \in [Pages -> Nat] /\ walLen' \in Nat
  BY <1>1, <1>3, <1>4, IndexTyped
<1>6. FaultTypes'
  BY <1>1, <1>4, <1>5 DEF FaultInv, FaultTypes, Dense, PCs
<1>7. Versions'
  BY <1>1, <1>2, <1>3, <1>4 DEF Versions
<1>8. IndexLoaded' /\ MainOnDisk'
  BY <1>4 DEF IndexLoaded, MainOnDisk
<1>9. Historic'
  <2>1. LogIn(l, wal', Len(wal'))
    BY <1>1, <1>2 DEF LogIn
  <2> QED
    BY <1>1, <1>4, <2>1 DEF Historic, DiskIn
<1>10. SnapshotHistoric(txn, legitTxn)' /\ SnapshotHistoric(op, legitOp)' /\ SnapshotsNested'
  <2>1. txn # NoSnapshot => txn.walLen \in Nat
    BY DEF FaultInv, SnapshotHistoric
  <2> QED
    BY <1>1, <1>2, <1>3, <1>4, <2>1, SnapshotsStay
<1> QED
  BY <1>6, <1>7, <1>8, <1>9, <1>10 DEF FaultInv

\* A step that writes nothing to the files.
LEMMA QuietKeeps ==
  ASSUME FaultInv, Unsynced, UNCHANGED <<main, wal, legit>>,
         FaultTypes', IndexLoaded', Opened' => Reaches(legit, count'),
         pc' \in {"synced", "truncated"} => FALSE,
         pc' = "copy" /\ caller' # "open" => \A p \in Pages : p < count' => main[p] # Absent,
         \/ SnapshotHistoric(txn, legitTxn)' /\ SnapshotHistoric(op, legitOp)' /\ SnapshotsNested'
         \/ /\ txn' = NoSnapshot \/ UNCHANGED <<txn, legitTxn, pc>>
            /\ op' = NoSnapshot \/ UNCHANGED <<op, legitOp, pc>>
  PROVE  FaultInv'
<1>1. main \in [Pages -> Contents] /\ TailTorn(wal) /\ Versions
  BY DEF FaultInv, FaultTypes, Versions
<1>2. Versions' /\ walDisk' = walDisk /\ mainDisk' = mainDisk
  BY <1>1, UnsyncedKeeps
<1>3. Historic'
  BY <1>2 DEF FaultInv, Historic, DiskIn
<1>4. MainOnDisk'
  BY DEF MainOnDisk
<1>5. SnapshotHistoric(txn, legitTxn)' /\ SnapshotHistoric(op, legitOp)' /\ SnapshotsNested'
  <2>1. txn # NoSnapshot => txn.walLen \in 0 .. ValidLen(wal)
    BY DEF FaultInv, SnapshotHistoric
  <2>2. op # NoSnapshot => op.walLen \in 0 .. ValidLen(wal)
    BY DEF FaultInv, SnapshotHistoric
  <2>3. ValidLen(wal') = ValidLen(wal) /\ TailTorn(wal')
    BY <1>1
  <2>4. CASE SnapshotHistoric(txn, legitTxn)' /\ SnapshotHistoric(op, legitOp)' /\ SnapshotsNested'
    BY <2>4
  <2>5. CASE /\ txn' = NoSnapshot \/ UNCHANGED <<txn, legitTxn, pc>>
             /\ op' = NoSnapshot \/ UNCHANGED <<op, legitOp, pc>>
    BY <1>2, <2>1, <2>2, <2>3, <2>5, SnapshotsStay
  <2> QED
    BY <2>4, <2>5
<1> QED
  BY <1>2, <1>3, <1>4, <1>5 DEF FaultInv

\* A page is written to the main file: with its entry of the log, or with zeros behind the last.
LEMMA MainKeeps ==
  ASSUME FaultInv, pc \in {"prealloc", "copy"}, Unsynced, NEW p \in Pages, NEW v \in Values \cup {Zero},
         v \in legit[p], main' = WriteMain(main, p, v), todo' \subseteq todo,
         UNCHANGED <<wal, legit, offsets, walLen, count, txn, op, pc, caller>>
  PROVE  FaultInv'
<1>1. /\ main \in [Pages -> Contents] /\ TailTorn(wal) /\ Versions
      /\ History(legit) /\ DiskIn(legit) /\ \A q \in Pages : main[q] \in mainDisk[q]
  BY DEF FaultInv, FaultTypes, Versions, Historic
<1>2. PICK n \in 0 .. MaxPage + 1 : Dense(main, n)
  BY DEF FaultInv, FaultTypes
<1>3. /\ main' \in [Pages -> Contents] /\ \E k \in 0 .. MaxPage + 1 : Dense(main', k)
      /\ main'[p] = v /\ \A q \in Pages : main[q] # Absent => main'[q] # Absent
      /\ \A q \in Pages : q # p => main'[q] = main[q] \/ (q < p /\ main[q] = Absent /\ main'[q] = Zero)
  BY <1>1, <1>2, MainWritten
<1>4. v # Absent
  BY SentinelsDiffer
<1>5. Versions' /\ walDisk' = walDisk \cup {wal} /\ \A q \in Pages : mainDisk'[q] = mainDisk[q] \cup {main'[q]}
  BY <1>1, <1>3, UnsyncedAdds
<1>6. ASSUME NEW q \in Pages PROVE main'[q] \in legit[q]
  <2>1. main[q] \in legit[q]
    BY <1>1 DEF DiskIn
  <2>2. CASE q < p /\ main[q] = Absent /\ main'[q] = Zero
    <3>1. legit[p] # {Absent} /\ q <= p
      BY <1>4, <2>2 DEF Pages
    <3> QED
      BY <1>1, <2>1, <2>2, <3>1, GapInHistory
  <2> QED
    BY <1>3, <2>1, <2>2
<1>7. DiskIn(legit)'
  BY <1>1, <1>5, <1>6 DEF DiskIn
<1>8. Historic'
  <2>1. walDisk' = walDisk
    BY <1>5 DEF FaultInv, Versions
  <2> QED
    BY <1>7, <2>1 DEF FaultInv, Historic, Opened
<1>9. FaultTypes'
  BY <1>3 DEF FaultInv, FaultTypes
<1>10. IndexLoaded'
  BY DEF FaultInv, IndexLoaded, Logged
<1>11. MainOnDisk'
  BY <1>3 DEF FaultInv, MainOnDisk
<1>12. SnapshotHistoric(txn, legitTxn)' /\ SnapshotHistoric(op, legitOp)' /\ SnapshotsNested'
  <2>1. txn' = NoSnapshot /\ op' = NoSnapshot
    BY NoSnapshots
  <2> QED
    BY <2>1 DEF SnapshotHistoric, SnapshotsNested
<1> QED
  BY <1>5, <1>8, <1>9, <1>10, <1>11, <1>12 DEF FaultInv

\* The checkpoint extends the main file with a page of zeros.
LEMMA PreallocateKeeps ==
  ASSUME FaultInv, Preallocate, Unsynced, UNCHANGED ghosts
  PROVE  FaultInv'
<1>1. pc = "prealloc" /\ main \in [Pages -> Contents] /\ count \in 0 .. MaxPage + 1
  BY DEF Preallocate, FaultInv, FaultTypes
<1>2. PICK n \in 0 .. MaxPage + 1 : Dense(main, n)
  BY DEF FaultInv, FaultTypes
<1>3. MainLen(main) = n
  BY <1>2, MainLenExact
<1>4. CASE n < count
  <2>1. n \in Pages /\ main[n] = Absent
    <3>1. n \in Pages
      BY <1>1, <1>4, MaxPageAssumption DEF Pages
    <3> QED
      BY <1>2, <3>1 DEF Dense
  <2>2. Absent \in legit[n] /\ History(legit) /\ legit[n] # {Absent}
    BY <1>1, <1>4, <2>1 DEF FaultInv, Versions, Historic, DiskIn, Reaches, Opened
  <2>3. Zero \in legit[n]
    BY <2>1, <2>2 DEF History
  <2>4. main' = WriteMain(main, n, Zero) /\ todo' \subseteq todo
        /\ UNCHANGED <<wal, legit, offsets, walLen, count, txn, op, pc, caller>>
    BY <1>3, <1>4 DEF Preallocate, ghosts, memory
  <2> QED
    BY <1>1, <2>1, <2>3, <2>4, MainKeeps
<1>5. CASE ~ (n < count)
  <2>1. pc' = "copy" /\ UNCHANGED <<main, wal, offsets, walLen, count, txn, op, todo, caller, legit, legitTxn, legitOp>>
    BY <1>3, <1>5 DEF Preallocate, ghosts, memory
  <2>2. \A p \in Pages : p < count => main[p] # Absent
    BY <1>1, <1>2, <1>5 DEF Dense, Pages
  <2>3. FaultTypes'
    BY <2>1 DEF FaultInv, FaultTypes, PCs, Dense
  <2>4. IndexLoaded'
    BY <1>1, <2>1 DEF FaultInv, IndexLoaded, Logged
  <2>5. Reaches(legit, count')
    BY <1>1, <2>1 DEF FaultInv, Historic, Opened
  <2>6. txn' = NoSnapshot /\ op' = NoSnapshot
    BY <1>1, <2>1, NoSnapshots
  <2> QED
    BY <2>1, <2>2, <2>3, <2>4, <2>5, <2>6, QuietKeeps
<1> QED
  BY <1>4, <1>5

\* The checkpoint copies the latest entry of a page.
LEMMA CopyKeeps ==
  ASSUME FaultInv, NEW p \in Pages, CopyPage(p), Unsynced, UNCHANGED ghosts
  PROVE  FaultInv'
<1>1. /\ pc = "copy" /\ TailTorn(wal) /\ wal \in walDisk /\ LogIn(legit, wal, Len(wal))
      /\ offsets = LoadIndex(wal) /\ offsets[p] # 0
  BY DEF CopyPage, FaultInv, IndexLoaded, Versions, Historic, Logged
<1>2. /\ offsets[p] \in 1 .. ValidLen(wal) /\ wal[offsets[p]].page = p
      /\ ValidLen(wal) \in 0 .. Len(wal) /\ Len(wal) \in Nat
      /\ wal[offsets[p]] # Torn /\ wal[offsets[p]] \in GoodEntries
  <2>1. ValidLen(wal) \in 0 .. Len(wal) /\ Len(wal) \in Nat
    BY <1>1, ValidLenTorn
  <2>2. offsets[p] \in 0 .. ValidLen(wal) /\ wal[offsets[p]].page = p
    BY <1>1, IndexTyped
  <2>3. offsets[p] \in 1 .. ValidLen(wal)
    BY <1>1, <2>1, <2>2
  <2> QED
    BY <1>1, <2>1, <2>2, <2>3, ValidLenTorn
<1>3. wal[offsets[p]].data \in legit[p] /\ wal[offsets[p]].data \in Values
  BY <1>1, <1>2 DEF LogIn, GoodEntries
<1>4. main' = WriteMain(main, p, wal[offsets[p]].data) /\ todo' \subseteq todo
      /\ UNCHANGED <<wal, legit, offsets, walLen, count, txn, op, pc, caller>>
  BY DEF CopyPage, ghosts, memory
<1> QED
  BY <1>1, <1>3, <1>4, MainKeeps

\* The main file is synced.
LEMMA SyncKeeps ==
  ASSUME FaultInv, SyncMain, MainSynced, UNCHANGED ghosts
  PROVE  FaultInv'
<1>1. /\ pc = "copy" /\ pc' = "synced" /\ main \in [Pages -> Contents]
      /\ UNCHANGED <<main, wal, offsets, walLen, count, txn, op, todo, caller, legit, walDisk, walSafe>>
      /\ mainDisk' = [p \in Pages |-> {main[p]}]
      /\ txn = NoSnapshot /\ op = NoSnapshot
  BY NoSnapshots DEF SyncMain, MainSynced, files, memory, ghosts, FaultInv, FaultTypes
<1>2. FaultTypes'
  BY <1>1 DEF FaultInv, FaultTypes, PCs, Dense
<1>3. Versions'
  BY <1>1 DEF FaultInv, Versions
<1>4. IndexLoaded'
  BY <1>1 DEF FaultInv, IndexLoaded
<1>5. MainOnDisk'
  BY <1>1 DEF FaultInv, MainOnDisk
<1>6. Historic'
  <2>1. DiskIn(legit)'
    BY <1>1 DEF FaultInv, Historic, DiskIn, Versions
  <2> QED
    BY <1>1, <2>1 DEF FaultInv, Historic, Opened
<1> QED
  BY <1>1, <1>2, <1>3, <1>4, <1>5, <1>6 DEF FaultInv, SnapshotHistoric, SnapshotsNested

\* The log is cut; the disk may still hold any of its versions.
LEMMA TruncateKeeps ==
  ASSUME FaultInv, TruncateWal, Unsynced, UNCHANGED ghosts
  PROVE  FaultInv'
<1>1. /\ pc = "synced" /\ pc' = "truncated" /\ main \in [Pages -> Contents] /\ Versions
      /\ UNCHANGED <<main, offsets, walLen, count, txn, op, todo, caller, legit>>
      /\ txn = NoSnapshot /\ op = NoSnapshot
  BY NoSnapshots DEF TruncateWal, memory, ghosts, FaultInv, FaultTypes
<1>2. wal' = <<>> /\ wal' \in Seq(GoodEntries) /\ Len(wal') = 0
  BY <1>1, EmptySeq DEF TruncateWal, SetLen
<1>3. TailTorn(wal')
  BY <1>2, GoodLog
<1>4. Versions' /\ walDisk' = walDisk \cup {wal'} /\ mainDisk' = mainDisk
  BY <1>1, <1>3, UnsyncedAdds, UnsyncedMain
<1>5. FaultTypes'
  BY <1>1 DEF FaultInv, FaultTypes, PCs, Dense
<1>6. IndexLoaded' /\ MainOnDisk'
  BY <1>1, <1>2, <1>4 DEF FaultInv, IndexLoaded, MainOnDisk
<1>7. Historic'
  <2>1. LogIn(legit, wal', Len(wal'))
    BY <1>2 DEF LogIn
  <2>2. \A w \in walDisk' : LogIn(legit, w, Len(w))
    BY <1>4, <2>1 DEF FaultInv, Historic
  <2> QED
    BY <1>1, <1>4, <2>2 DEF FaultInv, Historic, Opened, DiskIn
<1> QED
  BY <1>1, <1>4, <1>5, <1>6, <1>7 DEF FaultInv, SnapshotHistoric, SnapshotsNested

\* The process forgets everything: what the disk may hold stays.
LEMMA ForgetKeeps ==
  ASSUME FaultInv, Forget, Unsynced, UNCHANGED <<main, wal, legit>>
  PROVE  FaultInv'
<1>1. /\ count' = 0 /\ offsets' = EmptyIndex /\ walLen' = 0 /\ pc' = "down" /\ todo' = {}
      /\ txn' = NoSnapshot /\ op' = NoSnapshot
  BY DEF Forget
<1>2. FaultTypes'
  BY <1>1, MaxPageAssumption DEF FaultInv, FaultTypes, PCs, EmptyIndex, Dense
<1>3. IndexLoaded'
  BY <1>1 DEF IndexLoaded
<1>4. ~ Opened'
  BY <1>1 DEF Opened
<1> QED
  BY <1>1, <1>2, <1>3, <1>4, QuietKeeps

\* The log is synced: from here on the main file is the history.
LEMMA FinishKeeps ==
  ASSUME FaultInv, FinishCheckpoint, WalSynced, legit' = LegitNow
  PROVE  FaultInv'
<1>1. /\ pc = "truncated" /\ wal = <<>> /\ main \in [Pages -> Contents]
      /\ txn = NoSnapshot /\ op = NoSnapshot /\ UNCHANGED <<main, wal>>
      /\ mainDisk' = mainDisk /\ mainDisk \in [Pages -> SUBSET Contents]
      /\ \A p \in Pages : mainDisk[p] = {main[p]}
      /\ walDisk' = {wal} /\ walSafe' = Len(wal)
  BY NoSnapshots DEF FinishCheckpoint, WalSynced, files, FaultInv, FaultTypes, IndexLoaded, MainOnDisk, Versions
<1>2. wal \in Seq(GoodEntries) /\ Len(wal) = 0
  BY <1>1, EmptySeq
<1>3. TailTorn(wal) /\ ValidLen(wal) = 0
  BY <1>2, GoodLog
<1>4. LegitNow = [p \in Pages |-> {main[p]}]
  <2>1. Recovered = main
    BY <1>1, <1>3, ViewEmpty DEF Recovered
  <2> QED
    BY <2>1 DEF LegitNow
<1>5. LoadIndex(wal) = EmptyIndex
  <2>1. \A p \in Pages : LoadIndex(wal)[p] = 0
    BY <1>3, IndexTyped
  <2>2. LoadIndex(wal) = [p \in Pages |-> LoadIndex(wal)[p]]
    BY DEF LoadIndex
  <2> QED
    BY <2>1, <2>2 DEF EmptyIndex
<1>6. /\ txn' = NoSnapshot /\ op' = NoSnapshot /\ offsets' = EmptyIndex /\ walLen' = 0
      /\ todo' \subseteq Pages
      /\ \/ pc' = "down" /\ count' = 0
         \/ pc' = "loaded" /\ count' = count
         \/ pc' = "ready" /\ count' = count /\ caller # "open"
  BY <1>1 DEF FinishCheckpoint, Forget, FaultInv, FaultTypes
<1>7. FaultTypes'
  <2>1. count' \in 0 .. MaxPage + 1
    BY <1>6, MaxPageAssumption DEF FaultInv, FaultTypes
  <2> QED
    BY <1>1, <1>6, <2>1 DEF FaultInv, FaultTypes, PCs, EmptyIndex, Dense
<1>8. Versions'
  BY <1>1, <1>2, <1>3 DEF Versions
<1>9. IndexLoaded' /\ MainOnDisk'
  BY <1>1, <1>3, <1>5, <1>6 DEF IndexLoaded, MainOnDisk
<1>10. Historic'
  <2>1. History(legit')
    <3>1. PICK n \in 0 .. MaxPage + 1 : Dense(main, n)
      BY DEF FaultInv, FaultTypes
    <3>2. \A p, q \in Pages : p < q /\ main[p] = Absent => main[q] = Absent
      BY <3>1 DEF Dense, Pages
    <3>3. legit' \in [Pages -> SUBSET Contents] /\ \A p \in Pages : legit'[p] = {main[p]}
      BY <1>1, <1>4
    <3> QED
      BY <3>2, <3>3 DEF History
  <2>2. DiskIn(legit)'
    BY <1>1, <1>4 DEF DiskIn
  <2>3. \A w \in walDisk' : LogIn(legit', w, Len(w))
    BY <1>1, <1>2 DEF LogIn
  <2>4. Opened' => Reaches(legit', count')
    <3>1. Opened' => pc' = "ready"
      BY <1>6 DEF Opened
    <3>2. pc' = "ready" => count' = count /\ \A p \in Pages : p < count => main[p] # Absent
      BY <1>1, <1>6 DEF FaultInv, MainOnDisk
    <3> QED
      BY <1>4, <3>1, <3>2 DEF Reaches
  <2> QED
    BY <2>1, <2>2, <2>3, <2>4 DEF Historic
<1> QED
  BY <1>6, <1>7, <1>8, <1>9, <1>10 DEF FaultInv, SnapshotHistoric, SnapshotsNested

\* An open finds the log as far as it is good.
LEMMA OpenKeeps ==
  ASSUME FaultInv, Open, Unsynced, UNCHANGED ghosts
  PROVE  FaultInv'
<1>1. /\ pc = "down" /\ TailTorn(wal) /\ walLen' = ValidLen(wal) /\ offsets' = LoadIndex(wal)
      /\ UNCHANGED <<main, wal, count, txn, op, legit>>
      /\ txn = NoSnapshot /\ op = NoSnapshot /\ main \in [Pages -> Contents]
  BY NoSnapshots DEF Open, files, ghosts, FaultInv, FaultTypes, Versions
<1>2. /\ offsets' \in [Pages -> Nat] /\ walLen' \in Nat
  BY <1>1, IndexTyped, ValidLenTorn
<1>3. /\ todo' \subseteq Pages
      /\ \/ pc' = "loaded"
         \/ pc' = "copy" /\ caller' = "open" /\ todo' = Logged'
  BY DEF Open, Logged, FaultInv, FaultTypes
<1>4. FaultTypes'
  BY <1>1, <1>2, <1>3 DEF FaultInv, FaultTypes, PCs, Dense
<1>5. IndexLoaded'
  BY <1>1, <1>3 DEF IndexLoaded
<1>6. ~ Opened'
  BY <1>3 DEF Opened
<1> QED
  BY <1>1, <1>3, <1>4, <1>5, <1>6, QuietKeeps

\* The header is read and the pages of the main file counted.
LEMMA ReadHeaderKeeps ==
  ASSUME FaultInv, ReadHeader, Unsynced, UNCHANGED ghosts
  PROVE  FaultInv'
<1>1. /\ pc = "loaded" /\ pc' = "ready" /\ count' = MainLen(main)
      /\ UNCHANGED <<main, wal, offsets, walLen, txn, op, todo, caller, legit>>
      /\ txn = NoSnapshot /\ op = NoSnapshot
  BY NoSnapshots DEF ReadHeader, files, ghosts
<1>2. PICK n \in 0 .. MaxPage + 1 : Dense(main, n)
  BY DEF FaultInv, FaultTypes
<1>3. count' = n
  BY <1>1, <1>2, MainLenExact
<1>4. FaultTypes'
  BY <1>1, <1>2, <1>3 DEF FaultInv, FaultTypes, PCs, Dense
<1>5. IndexLoaded'
  BY <1>1 DEF FaultInv, IndexLoaded
<1>6. Reaches(legit, count')
  BY <1>2, <1>3 DEF FaultInv, Historic, DiskIn, Versions, Reaches, Dense
<1> QED
  BY <1>1, <1>4, <1>5, <1>6, QuietKeeps

\* A snapshot is taken, with the history it goes back to.
LEMMA BeginKeeps ==
  ASSUME FaultInv, Unsynced,
         \/ BeginTransaction /\ legitTxn' = legit /\ UNCHANGED <<legit, legitOp>>
         \/ BeginOperation /\ legitOp' = legit /\ UNCHANGED <<legit, legitTxn>>
  PROVE  FaultInv'
<1>1. /\ pc = "ready" /\ pc' = "ready" /\ TailTorn(wal) /\ walLen = ValidLen(wal) /\ Versions
      /\ UNCHANGED <<main, wal, offsets, walLen, count, todo, caller, legit>>
      /\ main \in [Pages -> Contents] /\ count \in 0 .. MaxPage + 1
  BY DEF BeginTransaction, BeginOperation, Idle, files, memory, FaultInv, FaultTypes, Versions, IndexLoaded
<1>2. ValidLen(wal) \in Nat /\ mainDisk' = mainDisk
  BY <1>1, ValidLenTorn, UnsyncedKeeps
<1>3. FaultTypes'
  BY <1>1 DEF FaultInv, FaultTypes, Dense
<1>4. IndexLoaded'
  BY <1>1 DEF FaultInv, IndexLoaded
<1>5. Reaches(legit, count')
  BY <1>1 DEF FaultInv, Historic, Opened
<1>6. Snapshot.walLen = ValidLen(wal) /\ Snapshot.count = count
  BY <1>1 DEF Snapshot
<1>7. /\ Snapshot.walLen \in 0 .. ValidLen(wal) /\ Snapshot.count \in 0 .. MaxPage + 1
      /\ History(legit) /\ DiskIn(legit) /\ LogIn(legit, wal, Snapshot.walLen)
      /\ Reaches(legit, Snapshot.count)
  <2>1. LogIn(legit, wal, Len(wal)) /\ ValidLen(wal) \in 0 .. Len(wal) /\ Len(wal) \in Nat
    BY <1>1, ValidLenTorn DEF FaultInv, Historic, Versions
  <2>2. LogIn(legit, wal, ValidLen(wal))
    BY <2>1 DEF LogIn
  <2> QED
    BY <1>1, <1>2, <1>5, <1>6, <2>2 DEF FaultInv, Historic
<1>8. CASE BeginTransaction /\ legitTxn' = legit /\ UNCHANGED <<legit, legitOp>>
  <2>1. txn' = Snapshot /\ op' = NoSnapshot
    BY <1>8 DEF BeginTransaction
  <2>2. SnapshotHistoric(txn, legitTxn)'
    BY <1>1, <1>2, <1>7, <1>8, <2>1 DEF SnapshotHistoric, DiskIn, LogIn
  <2>3. SnapshotHistoric(op, legitOp)' /\ SnapshotsNested'
    BY <2>1 DEF SnapshotHistoric, SnapshotsNested
  <2> QED
    BY <1>1, <1>3, <1>4, <1>5, <2>2, <2>3, QuietKeeps
<1>9. CASE BeginOperation /\ legitOp' = legit /\ UNCHANGED <<legit, legitTxn>>
  <2>1. op' = Snapshot /\ UNCHANGED <<txn, legitTxn>>
    BY <1>9 DEF BeginOperation
  <2>2. SnapshotHistoric(op, legitOp)'
    BY <1>1, <1>2, <1>7, <1>9, <2>1 DEF SnapshotHistoric, DiskIn, LogIn
  <2>3. SnapshotHistoric(txn, legitTxn)'
    BY <1>1, <1>2, <2>1 DEF FaultInv, SnapshotHistoric, DiskIn, LogIn
  <2>4. SnapshotsNested'
    BY <1>1, <1>6, <2>1 DEF FaultInv, SnapshotHistoric, SnapshotsNested
  <2> QED
    BY <1>1, <1>3, <1>4, <1>5, <2>2, <2>3, <2>4, QuietKeeps
<1> QED
  BY <1>8, <1>9

\* The power is lost: any version of the log, torn at most at its end, and of each page.
LEMMA PowerLossKeeps ==
  ASSUME Damage \subseteq {"tail"}, FaultInv, PowerLoss
  PROVE  FaultInv'
<1>1. /\ Versions /\ History(legit) /\ DiskIn(legit) /\ \A w \in walDisk : LogIn(legit, w, Len(w))
      /\ mainDisk \in [Pages -> SUBSET Contents] /\ UNCHANGED legit
      /\ walDisk' = {wal'} /\ walSafe' = Len(wal') /\ mainDisk' = [p \in Pages |-> {main'[p]}]
      /\ Forget
  BY DEF FaultInv, Versions, Historic, PowerLoss
<1>2. PICK w \in walDisk : wal' \in Damaged(w)
  BY DEF PowerLoss
<1>3. TailTorn(w) /\ LogIn(legit, w, Len(w)) /\ Len(w) \in Nat /\ walSafe \in Nat
      /\ w \in [1 .. Len(w) -> GoodEntries \cup {Torn}]
  BY <1>1, LenProperties DEF Versions, TailTorn
<1>4. TailTorn(wal') /\ LogIn(legit, wal', Len(wal')) /\ Len(wal') \in Nat
  <2>1. CASE wal' = w
    BY <1>3, <2>1
  <2>2. CASE wal' # w
    <3> DEFINE x == [i \in DOMAIN w |-> IF i \in {Len(w)} THEN Torn ELSE w[i]]
    <3>1. wal' = x
      BY <1>2, <2>2 DEF Damaged
    <3>2. x \in [1 .. Len(w) -> GoodEntries \cup {Torn}]
      BY <1>3
    <3>3. x \in Seq(GoodEntries \cup {Torn})
      BY <1>3, <3>2, SeqDef
    <3>4. Len(x) = Len(w)
      BY <1>3, <3>2, <3>3, LenProperties
    <3>5. \A i \in 1 .. Len(w) : x[i] = IF i = Len(w) THEN Torn ELSE w[i]
      BY <1>3
    <3> HIDE DEF x
    <3> QED
      BY <1>3, <3>1, <3>3, <3>4, <3>5 DEF TailTorn, LogIn
  <2> QED
    BY <2>1, <2>2
<1>5. PICK m \in [Pages -> UNION {mainDisk[p] : p \in Pages}] :
          /\ \A p \in Pages : m[p] \in mainDisk[p]
          /\ main' = FillHoles(m)
  BY DEF PowerLoss
<1>6. m \in [Pages -> Contents]
  BY <1>1, <1>5
<1>7. /\ main' \in [Pages -> Contents] /\ \E n \in 0 .. MaxPage + 1 : Dense(main', n)
      /\ \A p \in Pages : \/ main'[p] = m[p]
                          \/ /\ m[p] = Absent /\ main'[p] = Zero
                             /\ \E q \in Pages : q > p /\ m[q] # Absent
  BY <1>5, <1>6, HolesFilled
<1>8. ASSUME NEW p \in Pages PROVE main'[p] \in legit[p]
  <2>1. \A q \in Pages : m[q] \in legit[q]
    BY <1>1, <1>5 DEF DiskIn
  <2>2. CASE m[p] = Absent /\ main'[p] = Zero /\ \E q \in Pages : q > p /\ m[q] # Absent
    <3>1. PICK q \in Pages : q > p /\ m[q] # Absent
      BY <2>2
    <3>2. p <= q /\ legit[q] # {Absent} /\ Absent \in legit[p]
      BY <2>1, <2>2, <3>1 DEF Pages
    <3> QED
      BY <1>1, <2>2, <3>2, GapInHistory
  <2> QED
    BY <1>7, <2>1, <2>2
<1>9. /\ count' = 0 /\ offsets' = EmptyIndex /\ walLen' = 0 /\ pc' = "down" /\ todo' = {}
      /\ txn' = NoSnapshot /\ op' = NoSnapshot
  BY <1>1 DEF Forget
<1>10. FaultTypes'
  BY <1>7, <1>9, MaxPageAssumption DEF FaultTypes, PCs, EmptyIndex
<1>11. Versions'
  BY <1>1, <1>4, <1>7 DEF Versions
<1>12. IndexLoaded' /\ MainOnDisk'
  BY <1>9 DEF IndexLoaded, MainOnDisk
<1>13. Historic'
  BY <1>1, <1>4, <1>8, <1>9 DEF Historic, DiskIn, Opened
<1> QED
  BY <1>9, <1>10, <1>11, <1>12, <1>13 DEF FaultInv, SnapshotHistoric, SnapshotsNested

-----------------------------------------------------------------------------
(* The theorem. *)

\* A new file on a disk that has just been synced.
LEMMA FaultStart == FaultInit => FaultInv
<1> SUFFICES ASSUME FaultInit PROVE FaultInv
  OBVIOUS
<1>1. /\ main = [p \in Pages |-> IF p = 0 THEN InitHeader ELSE Absent]
      /\ wal = <<>> /\ offsets = EmptyIndex /\ walLen = 0 /\ count = 1
      /\ txn = NoSnapshot /\ op = NoSnapshot /\ pc = "ready" /\ todo = {} /\ caller = "none"
      /\ walDisk = {wal} /\ walSafe = 0
      /\ mainDisk = [p \in Pages |-> {main[p]}] /\ legit = [p \in Pages |-> {main[p]}]
  BY DEF FaultInit, Init
<1>2. wal \in Seq(GoodEntries) /\ Len(wal) = 0
  BY <1>1, EmptySeq
<1>3. TailTorn(wal) /\ ValidLen(wal) = 0
  BY <1>2, GoodLog
<1>4. main \in [Pages -> Contents] /\ main[0] # Absent /\ 1 \in 0 .. MaxPage + 1
      /\ 0 \in Pages /\ Dense(main, 1)
  <2>1. InitHeader \in Contents /\ Absent \in Contents /\ InitHeader # Absent
    BY SentinelsDiffer DEF Contents
  <2>2. \A p \in Pages : p < 1 <=> p = 0
    BY DEF Pages
  <2> QED
    BY <1>1, <2>1, <2>2, MaxPageAssumption DEF Dense, Pages
<1>5. FaultTypes
  BY <1>1, <1>4 DEF FaultTypes, PCs, EmptyIndex
<1>6. Versions
  BY <1>1, <1>3, <1>4 DEF Versions
<1>7. LoadIndex(wal) = EmptyIndex
  <2>1. \A p \in Pages : LoadIndex(wal)[p] = 0
    BY <1>3, IndexTyped
  <2>2. LoadIndex(wal) = [p \in Pages |-> LoadIndex(wal)[p]]
    BY DEF LoadIndex
  <2> QED
    BY <2>1, <2>2 DEF EmptyIndex
<1>8. IndexLoaded /\ MainOnDisk
  BY <1>1, <1>3, <1>7 DEF IndexLoaded, MainOnDisk
<1>9. Historic
  <2>1. \A p, q \in Pages : p < q /\ main[p] = Absent => main[q] = Absent
    BY <1>4 DEF Dense, Pages
  <2>2. History(legit)
    BY <1>1, <1>4, <2>1 DEF History
  <2>3. Reaches(legit, count)
    BY <1>1, <1>4 DEF Reaches, Dense
  <2>4. DiskIn(legit) /\ \A w \in walDisk : LogIn(legit, w, Len(w))
    BY <1>1, <1>2 DEF DiskIn, LogIn
  <2> QED
    BY <2>2, <2>3, <2>4 DEF Historic
<1> QED
  BY <1>1, <1>5, <1>6, <1>8, <1>9 DEF FaultInv, SnapshotHistoric, SnapshotsNested

\* Steps that move only the running call and drop snapshots.
LEMMA ControlKeeps ==
  ASSUME FaultInv, Unsynced, UNCHANGED <<main, wal, offsets, walLen, count, legit>>,
         pc' \in {"ready", "closing"} \/ (pc' = "prealloc" /\ todo' = Logged), todo' \subseteq Pages,
         pc \in {"ready", "closing", "prealloc"} \/ (pc = "copy" /\ caller # "open"),
         txn' = NoSnapshot \/ UNCHANGED <<txn, legitTxn, pc>>,
         op' = NoSnapshot \/ UNCHANGED <<op, legitOp, pc>>
  PROVE  FaultInv'
<1>1. FaultTypes'
  BY DEF FaultInv, FaultTypes, PCs, Dense
<1>2. IndexLoaded'
  BY DEF FaultInv, IndexLoaded, Logged
<1>3. Reaches(legit, count')
  BY DEF FaultInv, Historic, Opened
<1>4. pc' \notin {"synced", "truncated", "copy"}
  OBVIOUS
<1> QED
  BY <1>1, <1>2, <1>3, <1>4, QuietKeeps

LEMMA FaultlessKeeps ==
  ASSUME FaultInv, FaultlessNext
  PROVE  FaultInv'
<1> USE DEF ghosts
<1>1. ASSUME NEW p \in Pages, NEW v \in Values, WritePage(p, v), Written(p, v) PROVE FaultInv'
  <2>1. count \in Nat /\ p \in Nat
    BY DEF FaultInv, FaultTypes, Pages
  <2> QED
    BY <1>1, <2>1, WriteKeeps DEF WritePage
<1>2. ASSUME NEW v \in Values, WriteHeader(v), Written(0, v) PROVE FaultInv'
  <2>1. 0 \in Pages /\ count \in Nat
    BY MaxPageAssumption DEF FaultInv, FaultTypes, Pages
  <2> QED
    BY <1>2, <2>1, WriteKeeps DEF WriteHeader
<1>3. ASSUME NEW v \in Values, AppendPage(v), Written(count, v) PROVE FaultInv'
  <2>1. count \in Pages /\ count \in Nat
    BY <1>3, MaxPageAssumption DEF AppendPage, FaultInv, FaultTypes, Pages
  <2> QED
    BY <1>3, <2>1, WriteKeeps DEF AppendPage
<1>4. CASE \/ BeginTransaction /\ Unsynced /\ legitTxn' = legit /\ UNCHANGED <<legit, legitOp>>
           \/ BeginOperation /\ Unsynced /\ legitOp' = legit /\ UNCHANGED <<legit, legitTxn>>
  BY <1>4, BeginKeeps
<1>5. CASE \/ CommitTransaction /\ Unsynced /\ UNCHANGED legit /\ NoTxn
           \/ FinishOperation /\ Unsynced /\ UNCHANGED legit /\ NoOp
           \/ Close /\ txn = NoSnapshot /\ Unsynced /\ UNCHANGED ghosts
           \/ (Flush \/ FlushError) /\ Unsynced /\ UNCHANGED ghosts
  <2>1. todo \subseteq Pages /\ Logged \subseteq Pages
    BY DEF FaultInv, FaultTypes, Logged
  <2>2. UNCHANGED <<main, wal, offsets, walLen, count, legit>> /\ Unsynced /\ todo' \subseteq Pages
    BY <1>5, <2>1 DEF CommitTransaction, FinishOperation, Close, Flush, FlushError, StartFlush, NoTxn, NoOp, files, memory
  <2>3. /\ pc' \in {"ready", "closing"} \/ (pc' = "prealloc" /\ todo' = Logged)
        /\ pc \in {"ready", "closing", "prealloc"} \/ (pc = "copy" /\ caller # "open")
    BY <1>5 DEF CommitTransaction, FinishOperation, Close, Flush, FlushError, StartFlush, Idle
  <2>4. txn' = NoSnapshot \/ UNCHANGED <<txn, legitTxn, pc>>
    BY <1>5, NoSnapshots DEF CommitTransaction, FinishOperation, Close, Flush, FlushError, StartFlush, NoTxn, NoOp, Idle
  <2>5. op' = NoSnapshot \/ UNCHANGED <<op, legitOp, pc>>
    BY <1>5, NoSnapshots DEF CommitTransaction, FinishOperation, Close, Flush, FlushError, StartFlush, NoTxn, NoOp, Idle
  <2> QED
    BY <2>2, <2>3, <2>4, <2>5, ControlKeeps
<1>6. CASE RollbackTransaction /\ WalSynced /\ legit' = legitTxn /\ NoTxn
  BY <1>6, RestoreKeeps DEF RollbackTransaction, Idle, FaultInv
<1>7. CASE AbandonOperation /\ WalSynced /\ legit' = legitOp /\ NoOp
  <2>1. UNCHANGED <<txn, legitTxn, pc>> /\ (txn # NoSnapshot => txn.walLen <= op.walLen)
    BY <1>7 DEF AbandonOperation, NoOp, FaultInv, SnapshotsNested
  <2> QED
    BY <1>7, <2>1, RestoreKeeps DEF AbandonOperation, Idle, FaultInv
<1>8. CASE Close /\ txn # NoSnapshot /\ WalSynced /\ legit' = legitTxn /\ NoTxn
  BY <1>8, RestoreKeeps DEF Close, Idle, FaultInv
<1>9. CASE SyncMain /\ MainSynced /\ UNCHANGED ghosts
  BY <1>9, SyncKeeps
<1>10. CASE FinishCheckpoint /\ WalSynced /\ legit' = LegitNow /\ UNCHANGED <<legitTxn, legitOp>>
  BY <1>10, FinishKeeps
<1>11. ASSUME NEW p \in Pages, ReadPage(p), Unsynced, UNCHANGED ghosts PROVE FaultInv'
  BY <1>11, ControlKeeps DEF ReadPage, Idle, FaultInv, FaultTypes
<1>12. ASSUME NEW p \in Pages, CopyPage(p), Unsynced, UNCHANGED ghosts PROVE FaultInv'
  BY <1>12, CopyKeeps
<1>13. CASE FlushOnClose /\ Unsynced /\ UNCHANGED ghosts
  <2>1. CASE Logged = {}
    BY <1>13, <2>1, ForgetKeeps DEF FlushOnClose, files
  <2>2. CASE Logged # {}
    <3>1. txn' = NoSnapshot /\ op' = NoSnapshot
      BY <1>13, <2>2, NoSnapshots DEF FlushOnClose
    <3>2. Logged \subseteq Pages
      BY DEF Logged
    <3> QED
      BY <1>13, <2>2, <3>1, <3>2, ControlKeeps DEF FlushOnClose, StartFlush, files, memory
  <2> QED
    BY <2>1, <2>2
<1>14. CASE Preallocate /\ Unsynced /\ UNCHANGED ghosts
  BY <1>14, PreallocateKeeps
<1>15. CASE TruncateWal /\ Unsynced /\ UNCHANGED ghosts
  BY <1>15, TruncateKeeps
<1>16. CASE Open /\ Unsynced /\ UNCHANGED ghosts
  BY <1>16, OpenKeeps
<1>17. CASE ReadHeader /\ Unsynced /\ UNCHANGED ghosts
  BY <1>17, ReadHeaderKeeps
<1> QED
  BY <1>1, <1>2, <1>3, <1>4, <1>5, <1>6, <1>7, <1>8, <1>9, <1>10, <1>11, <1>12, <1>13, <1>14, <1>15,
     <1>16, <1>17 DEF FaultlessNext

LEMMA FaultNext ==
  ASSUME Damage \subseteq {"tail"}, FaultInv, [PowerNext]_allVars
  PROVE  FaultInv'
<1>1. CASE FaultlessNext
  BY <1>1, FaultlessKeeps
<1>2. CASE ProcessDeath
  BY <1>2, ForgetKeeps DEF ProcessDeath, Crash, files
<1>3. CASE PowerLoss
  BY <1>3, PowerLossKeeps
<1>4. CASE UNCHANGED allVars
  <2>1. UNCHANGED <<main, wal, offsets, walLen, count, txn, op, pc, todo, caller>>
        /\ UNCHANGED <<walDisk, walSafe, mainDisk, legit, legitTxn, legitOp>>
    BY <1>4 DEF allVars, vars, disk, ghosts
  <2>2. FaultTypes' /\ Versions'
    BY <2>1 DEF FaultInv, FaultTypes, Versions, Dense
  <2>3. IndexLoaded' /\ MainOnDisk'
    BY <2>1 DEF FaultInv, IndexLoaded, MainOnDisk, Logged
  <2>4. Historic'
    BY <2>1 DEF FaultInv, Historic, DiskIn, Opened
  <2>5. SnapshotHistoric(txn, legitTxn)' /\ SnapshotHistoric(op, legitOp)' /\ SnapshotsNested'
    BY <2>1 DEF FaultInv, SnapshotHistoric, SnapshotsNested, DiskIn
  <2> QED
    BY <2>2, <2>3, <2>4, <2>5 DEF FaultInv
<1> QED
  BY <1>1, <1>2, <1>3, <1>4 DEF PowerNext

\* After any number of power losses and process deaths, each of which may leave any version of the
\* log since its last sync, torn at its end, and any version of each page of the main file since
\* its last sync, a recovery finds in each page a value written since the last checkpoint that
\* ended, or the one it had then, and never one that was rolled back (checkpoint, truncate_to).
THEOREM RecoversWritten ==
  ASSUME Damage \subseteq {"tail"}
  PROVE  PowerSpec => []RecoversWrittenValues
<1>1. FaultInit => FaultInv
  BY FaultStart
<1>2. FaultInv /\ [PowerNext]_allVars => FaultInv'
  BY FaultNext
<1>3. FaultInv => RecoversWrittenValues
  <2> SUFFICES ASSUME FaultInv PROVE RecoversWrittenValues
    OBVIOUS
  <2>1. TailTorn(wal) /\ LogIn(legit, wal, Len(wal)) /\ \A p \in Pages : main[p] \in legit[p]
    BY DEF FaultInv, Versions, Historic, DiskIn
  <2> QED
    BY <2>1, RecoveredIn DEF RecoversWrittenValues, Recovered
<1> QED
  BY <1>1, <1>2, <1>3, PTL DEF PowerSpec
===============================================================================
