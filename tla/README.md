# TLA+ specifications of chiffondb

chiffondb is an embedded graph database: typed nodes and edges with properties, in one file with
a write-ahead log beside it, with a traversal engine, pathfinding and a Cypher dialect on top. This
directory models its storage engine, its database calls, its query engines and the life of its files
in TLA+, checks the models with TLC on small instances, and proves the main results for every value
of the constants with the TLA+ proof system.

All paths below are relative to `src/chiffondb-core/src/` unless they begin with another directory.

1. [The system](#1-the-system)
2. [Modules](#2-modules)
3. [How the modules correspond to the code](#3-how-the-modules-correspond-to-the-code)
4. [Runs](#4-runs)
5. [Fairness](#5-fairness)
6. [What is proved](#6-what-is-proved)
7. [Where the code and its documentation disagree](#7-where-the-code-and-its-documentation-disagree)
8. [What is not modelled](#8-what-is-not-modelled)
9. [Plan](#9-plan)
10. [Running the checks](#10-running-the-checks)

## 1. The system

A handle owns a database file, guarded by an advisory lock on a file beside it and by a registry of
open paths inside the process; calls on a handle run one after the other. What makes the code hard is
what may end a call in the middle (process death, power loss, errors), the number of on-disk
structures that have to agree after every call, the orders in which legal calls may come, and, around
one file, the processes that open it while another rebuilds it.

    command line    FFI     other processes on the same file
          \          |         |
         Connection (api): lock, registry, transactions, vacuum_file
             |
             |     Traversal   Cypher   Pathfinding      (read a graph view)
             |          \        |        /
              Database (db.rs): calls on nodes, edges, labels, schemas; vacuum; verify
               |            |            |              |            |
         TopologyStore  PropertyStore  LabelIndex  PropertyIndex  SchemaStore
               \            |            |              |            /
                DatabaseFile: pages, header, page directories, snapshots
                        |             |               |
                    main file     WalFile (log)   PageCache

| Component | State it keeps | Operations | What is hard | What makes it correct |
|---|---|---|---|---|
| File backend and write-ahead log (`storage/file.rs`, `storage/wal.rs`) | pages of the main file; entries of the log; an index from pages to log entries; header and page count in memory | read, write and append a page; write the header; snapshot and restore; flush (checkpoint); open; close | a checkpoint of many steps that may be cut anywhere; a log replayed at open; snapshots nested in snapshots; writes that reach the disk in any order | it behaves as an array of pages with exact snapshots; after a power loss nothing older than the last checkpoint comes back |
| Page cache (`storage/buffer.rs`) | frames, a recency list in a vector of links | get, update, insert, replace, remove, clear | a linked list kept by hand | it is a list of at most its capacity, by last use |
| Transactions (`api/mod.rs`) | one pending snapshot | begin, commit, rollback, close | commit gives up the snapshot before it flushes; schema calls take a snapshot inside a transaction; a panic poisons the handle | rollback restores every page and the header, and takes nothing that had settled |
| Page directory (`storage/page_directory.rs`) | arrays of physical page numbers on chained pages | resolve, append | an allocation is four writes, each of which may fail | logical numbers map one to one to physical pages, and stay |
| Topology store (`storage/topology.rs`, `page.rs`, `record.rs`) | slot bitmaps, a hint per kind, node and edge records with linked lists | allocate, free, append to a list, unlink, walk, verify | records of freed slots stay readable; hints; lists of self-loops | a walk from a node finds its edges and ends |
| Property store (`storage/property.rs`, `value.rs`, parts of `file.rs`) | slotted pages, page chains, a free list, a hint | write, read, free | nothing on a page says what kind it is | every record reads back; no page is lost or given out twice |
| Label index (`storage/label_index.rs`) | for each type a chain of pages: head, spares, full pages | add, add_new, remove, get, count | relinking three pages at a time; hints in empty pages | a chain is the set of nodes of the type |
| Property index (`storage/property_index.rs`, `index.rs`) | hash buckets of (type, field, value, node) | add, remove, candidates | hashes collide; entries must follow values through updates, renames, conversions | a lookup finds what a scan finds |
| Database calls (`db.rs`) | a cache of declared fields | insert, update, patch, delete with cascade, labels, schema calls, vacuum, verify | one call changes four structures | the four agree after every call |
| Schema store and migration (`schema/store.rs`, `migration.rs`, `registry.rs`) | the schema and the type ids on pages | save, load, register a type, migrate | ids must stay with their names through rollbacks and rebuilds; u16 ids | a record never changes its type; the cache is never stale |
| Schema language (`schema/parser.rs`, `unparse.rs`, `validator.rs`, `ast.rs`) | none | parse, print, validate | names that look like keywords or types | printing and parsing are inverse |
| Value validation and conversion (`schema/validate_value.rs`, `convert.rs`) | none | validate, convert | conversions that merge values | conversions are exact or fail |
| Pathfinding (`pathfinding/mod.rs`) | visited set, levels and queue of a search | shortest path, connecting subgraph | depth bounds, directions, edges met twice | paths are paths, and shortest |
| Traversal engine (`traversal/`) | cursor of a query | steps, filters, Repeat, OrderBy, aggregation | a comparison that is no order; repeats over cycles | results agree with a definition over the graph |
| Cypher (`cypher/`) | rows and bindings of a query | MATCH, CREATE, MERGE, SET, REMOVE, DELETE, RETURN | updates row by row from rows read before | a query changes what its rows say |
| Command line (`src/chiffondb`) | none | import, export, queries | an import row by row without a transaction; CSV has no kinds | what is exported is restored |
| Foreign function interfaces (`src/chiffondb-ffi`, `src/chiffondb-uniffi`) | a mutex around one Connection | wrappers | poisoning | |

The hazards, each at its line and with the properties that cover it, are listed in `PROJECT.json`; section 7
ends with those that no property covers.

## 2. Modules

| Module | Kind | What it is |
|---|---|---|
| `PageStore` | abstract | what storage promises: an array of pages, a transaction snapshot and a snapshot of a schema call inside it |
| `WalStore` | detailed | the file backend: log, index, cache, header, snapshots, checkpoint step by step, death and reopening. Implements `PageStore` |
| `WalFaults` | extends `WalStore` | the same on a machine that loses power: what each file may hold after it |
| `Multigraph` | abstract | what topology promises: a directed multigraph with self-loops |
| `Topology` | detailed | slots, bitmaps, hints, records, linked lists, the cascade edge by edge, `verify`. Implements `Multigraph` |
| `TopologyCrash` | extends `Topology` | a call is a sequence of page writes, and a death drops those left |
| `LruCache` | abstract | what the page cache promises: pages by last use |
| `PageCache` | detailed | the vector of linked frames. Implements `LruCache` |
| `PageDirectory` | detailed | logical to physical pages; an allocation write by write |
| `PropertyPages` | detailed | the property store at the level of half-words of a page |
| `LabelIndex` | detailed | the chain of pages of a type |
| `PropertyBuckets` | detailed | the buckets of the property index and their chains |
| `SchemaStore` | detailed | stored schema, type ids, the cache of declared fields |
| `Graph` | composition | the calls of `db.rs` over records, values, label index and property index, each at the level its own module promises |
| `Scans` | base | the order in which records are visited |
| `GraphView` | base | what the query engines read of a database |
| `Traversal`, `Pathfinding` | extend `GraphView` | commands of the traversal engine; breadth-first search step by step |
| `Cypher` | detailed | a query: matching, then its clauses row by row and item by item |
| `SchemaText` | detailed | parser, printer, validator, migration rules and the calls that take or give schema text |
| `Transfer` | detailed | export to CSV and JSON, import row by row |
| `Connection` | detailed | processes, locks, registry, logs and the steps of `vacuum_file` |
| `*_proofs` | proofs | `Topology`, `Graph`, `PropertyPages`; `Connection_proofs` is about `Connection` and `SchemaStore`, `Wal_proofs` is about `WalStore` and `WalFaults`, `Pages_proofs` is about `PageCache`, `PageDirectory`, `PropertyBuckets` and `LabelIndex`, `Queries_proofs` about `Transfer` and `Pathfinding` |
| `SetInduction` | proofs | induction over numbers, with the property given as a set |
| `MC...` | TLC | constants of the runs; `MCStores`, `MCPages` and `MCDatabase` put modules that share no state side by side in one run |

The layers compose by their promises. `WalStore` shows that pages behave as `PageStore` says, so
the modules above take pages for granted; `PageDirectory` shows that logical pages keep their place.
`Topology`, `PropertyPages`, `LabelIndex` and `PropertyBuckets` justify how `Graph` sees them: records
at ids, a bag of contents with one cell for each reference, how often a node is listed, a set of index
entries. `GraphView` takes the order of adjacency lists from `Topology` (newest first), and `Cypher` the
effect of its updates from `Graph`. `Connection` takes a log and its replay from `WalStore`.

## 3. How the modules correspond to the code

### WalStore

`main` and `wal` are the two files; `offsets` and `walLen` are `WalFile::index` and its length;
`cache`, `header`, `count` are the page cache, the header in memory and the logical page count;
`txn` is `Connection::pending_snapshot` and `op` the snapshot that `apply_schema`, `rename_field`
and `change_field_type` hold while they run. `pc`, `todo` and `caller` are the place in a
checkpoint, in a close or in an open.

A page access is one step (`ReadPage`, `WritePage`, `AppendPage`, `WriteHeader`): the log write
comes before the cache and no other code runs between them. A checkpoint is many steps, as the
process may die between any two of them: `Preallocate` (zero pages up to the page count),
`CopyPage` for each page of the index in any order (it is a hash map), `SyncMain`, `TruncateWal`,
`FinishCheckpoint`. `FlushError` ends one with an error before its sync. `Open` loads the index and, if there
is a log, goes through the same steps before `ReadHeader`. `Crash` may come at any moment. Which
page the cache evicts is left open: any.

Contents are a few values. A log entry is its page and its value, or `Torn` for one whose
checksum does not match. `Zero` is a page of zeros and `Absent` a page that does not exist.

### WalFaults

The operating system keeps the versions of each page of the main file and of the log since the
last sync of that file (`mainDisk`, `walDisk`, `walSafe`); `PowerLoss` takes any combination, and
`Damage` says what becomes of log entries that were never synced. The ghost `legit` holds for each
page its value at the end of the last checkpoint and those written since and not rolled back.

### Topology and TopologyCrash

`topo` is what the pages hold: for both kinds the number of pages, the hint, the used slots, and
all records, also those of freed slots (`free_node` clears a bit and leaves the record; `read_slot`
does not ask the bitmap). `cascade` is a running `delete_node`. `AllocPage` is the scan from the
hint; `TakeSlot` and `Free` move the hint as the code does; `AppendEdge` and `Unlink` are the list
operations, in the order of their reads and writes; `Verify` is `Database::verify`. The fields of records
that refer to properties and labels belong to `Graph`.

In `TopologyCrash` each call is the sequence of the states its page writes lead to, as the log
keeps every page write and has no commit boundary.

### The structures on pages

`PageCache`: `slab`, `slotOf`, `vacant`, `ends` are the fields of the pool; a frame carries its links. `Unlink`,
`PushMru` and `Touch` are the helpers of the same names. The `dirty` flag and the page it gives back on
eviction are modelled as the pool has them, although today's backend always puts clean pages.

`PageDirectory`: `file` are the pages, `header` the roots and lengths in memory and `logged` those on the header page.
An allocation is the steps `AppendData`, `AppendRoot` (the first page of a directory is made on demand), `FollowLink`,
`AppendDirPage`, `LinkDirPage`, `MapPage`, `StoreDirectory`; `AllocFails` ends it with an error and leaves what it wrote,
`Reopen` brings the header back from its page.

`PropertyPages`: a page is `W` half-words. The formats of a slotted page, of a page in a chain and of a free page
overlap in them as in the code, so that `IsValid` may take one for another. `Write` and `Free` are
whole calls with their scans, the use of the free list, the relinking of chains and the hint.
A size for which no page has room, though it counts as small, makes `Write` end in `"NoRoom"` (section 7). `ClearLinks` keeps writes from linking
a chain to a page whose number, in the place where other pages have their slot count, would be 0, 1 or the marker (`LinksClear`); the run `blob_overwrite` lifts it.
Half-words have 15 bits instead of 16, because TLC's integers end below 2^31. Values are
half-words above 16384 and below the marker, that no slot directory contains: the encoding (MessagePack maps with text keys) makes
that true of property maps.

`LabelIndex`: `index` is the head of each type and the pages. Every operation of the code that relinks pages is
an operator of that name (`PromoteSpare`, `PromoteFirstNonEmpty`, `FillHole`), built from single
writes. `add` and `add_new` are both behind `Add`, which looks first; the
precondition of `add_new`, that the node is not listed, is a matter of `Graph`.

`PropertyBuckets`: a key stands for the hashes of type, path and value; `BucketOf` makes two of them collide.
`AddFails` leaves an appended page behind. The 256 buckets of the code fit one page of its bucket directory.

### SchemaStore

`file` has the length of the file, the root and version of the schema, the schema with its ids and counters, and the records as
uses of ids; a rewritten schema is a new chain at the end of the file, so after a rollback the same root page may
come back with the same version. `ApplySchema`, `RegisterName` and `InsertDynamic` give ids; `ApplyFails` is an apply
that takes its snapshot back; `ReadDeclared` fills the cache when its key does not match; `TakeSnapshot`,
`RestoreSnapshot`, `Vacuum`, `Reopen` and `Die` are what happens around them.

### Graph

`schema` maps defined types to their fields (type and mark). `used` are the record ids in use,
`records` the record of every id with its properties and labels in place of the references,
`cells` the contents of the property store with the number of cells that hold each,
`labelIndex[n][t]` how often node n is listed under t, `propIndex` the entries of the property
index. Every action is a whole call with all it changes:

| Action | Calls |
|---|---|
| `InsertNode`, `InsertEdge` | `insert_node`, `insert_edge`, and their forms by name and with labels |
| `UpdateProperties`, `PatchProperties` | `update_*_properties`, `patch_*_properties` |
| `DeleteNode`, `DeleteEdge` | `delete_node` with its cascade, `delete_edge` |
| `SetNodeLabels`, `RemoveNodeLabel`, `SetEdgeLabels`, `RemoveEdgeLabel` | the label calls; adding a label is `SetNodeLabels` or `SetEdgeLabels` of one more |
| `ApplySchema` | `apply_schema`: migration check, plan and execution of the purges |
| `RenameField`, `ChangeFieldType` | `rename_*_field`, `change_*_field_type` with both modes of failure |
| `Vacuum` | `vacuum`: every live record copied into an empty database under a new id |

A failing call changes nothing (it checks first, or restores a snapshot, which `PageStore`
covers), so it is a stuttering step. Inserts are not restricted to valid properties: the calls by
type id do not validate. Values are strings and numbers, with `IntOf` and `TextOf` for the
conversions: two strings read as the same number, as `"1"` and `"+1"` do, one reads as none.

### GraphView, Traversal, Pathfinding

`graph` is constant while a query runs. `GraphView` has the scans, the adjacency lists, the labels a node carries and the
resolution of nested property paths. In `Traversal` a command begins a cursor (`Begin`), applies its steps one by one (`ApplyStep`)
and collects (`Collect`); `Acted` has one case per action of `command.rs`, `Passes` one per filter, `Collected` one per result. A cursor is a sequence with duplicates,
so the order of rows is part of the model: `Ordered` is the insertion sort by the comparison of the code, which calls values of
different kinds equal.

In `Pathfinding` a step takes an entry off the queue (`Take`) or looks at one neighbour (`Look`). `GiveUp` is the empty queue.
A subgraph is a search for every two places of its list (`Absorb`, `NextNode`, `Finish`).

### Cypher

`db` is a database of nodes with labels and one value, and typed edges; `rows` and `bindings` are what MATCH leaves: rows are computed at
`StartQuery` with their WHERE, and bindings before it, as the code does. `EnterClause`, `NextRow` and one action per clause kind (`Update` through SET and REMOVE,
`DeleteItem`, `CreateNode`, `CreateEdge`, `Merge`) go through the items; `Fail` is an error in the middle, which leaves what was done. `EndQuery` sorts, skips,
limits and drops duplicates in the order of the code.

### SchemaText, Transfer, Connection

`SchemaText` works on tokens. `Parse` follows the grammar rule by rule, with its ordered choices and its one-token failures; `Unparse`
follows `unparse.rs`. `Apply`, `GetText` and `RenameFieldText` are the calls that take or give text. `Padded` are the names with spaces at their ends, each with what
`Trim` leaves of it: `is_bare_name` skips such spaces (`IsBareName`), so that the printer writes the name without backticks and the parser reads it without the spaces.

`Transfer` keeps a source, a file in one of the two formats, and a target. `ExportCsv` and `ExportJson` are the two exports, `ImportNode` and
`ImportEdge` one row each, `Refused`, `Killed` and `Flush` the ends of an import. A value is its kind and payload, `Infer` is what import
makes of a CSV cell.

In `Connection` a file is an inode with a layout; a path names one, and its lock file and its log go by the path's name. `Create`,
`Open`, `Write`, `Panic`, `BeginTransaction`, `Commit`, `CommitFails`, `Rollback`, `Close`, `Drop` and `Crash` are those of a process; `Vacuum...` are the
steps of `vacuum_file`, with its error paths in `VacuumFail`. A log replayed over a main file of another layout makes it unsound. The registry of a process
holds names of paths: `Name` is what `register_path` and `unregister_path` make of one, the canonical form if there is a file at the path, the path as
spelled otherwise. The processes in `Relative` spell paths unlike their canonical form.

## 4. Runs

`PROJECT.json` lists the runs with their properties and, for every property of a passing run, a
mutant of the code that violates it.

| Run | Module | Bounds | Distinct states (until the violation: with one worker) | What it shows |
|---|---|---|---|---|
| `stores` | `MCStores` | pages: 3 pages with 2 log entries or 2 pages with 3, cache of 1, 2 values; records: 2 node slots, 3 edge slots, one slot per page | 176,809 | reads are recoverable, header and pages in lockstep, `PageStore` is implemented, checkpoints end; hints, `verify`, `Multigraph` is implemented |
| `power_loss` | `MCWalFaults` | 2 pages, 2 log entries, 2 failures, torn last entry | 3,274,688 | recovery after power losses |
| `pages` | `MCPages` | below, per part | 506,415 | the structures on pages, each through every order of its calls |
| `graph` | `MCGraph` | 2 nodes, 1 edge, 2 types each, 2 fields, 4 schemas | 175,859 | the four structures agree, `@unique` holds, values survive schema changes |
| `database` | `MCDatabase` | below, per part | 956,703 | traversals, searches and Cypher, schema store, schema text, transfer, and two processes around one file |
| `stale_tail` | `MCWalFaults` | as `power_loss`, any entry torn | 1,769 | a violation, section 7 |
| `ghost_node` | `MCTopologyCrash` | 1 page of 2 slots of each kind, 1 death | 173 | a violation, section 7 |
| `blob_overwrite` | `PropertyPages` | 3 pages, 2 sizes, `ClearLinks = FALSE` | 7 | a violation, section 7 |
| `ghost_label` | `MCGraph` | as `graph`, `FreshIds = FALSE` | 426 | a violation, section 7 |
| `late_unique` | `MCGraph` | as `graph`, `SettledMarks = FALSE` | 439 | a violation, section 7 |
| `vacuum_race` | `Connection` | 2 processes, 2 writes, 2 files, `Alone = FALSE` | 764 | a violation, section 7 |
| `relative_path` | `Connection` | as `vacuum_race`, `Alone = TRUE`, both processes in `Relative` | 4 | a violation, section 7 |

`stores`, `pages` and `database` are sums: their parts share no variable and a behaviour moves one of them, so
that their states add up and do not multiply. Where one part stands on another, it takes what that part
promises as an operator (section 2), not its variables.

Why the bounds are enough:

- *WalStore.* A cache of one page evicts at every second access. Three pages let a checkpoint
  copy page 2 before page 1, so that the main file has a hole, and two entries let a page be
  logged twice or two pages once. A third entry makes the two snapshots and the writes before,
  between and after them distinct. `Small` in `MCStores` takes the three pages with logs of two entries and
  the logs of three with two pages. No constant is bounded in the proofs.
- *WalFaults.* Two failures: one to damage the files, one to recover from what the recovery made of
  them.
- *Topology.* Two nodes and three edges give lists of three with self-loops, parallel edges and
  an inner edge to unlink, and ids are used again. One slot per page makes every page full or
  empty; the proofs of types and hints are for any number of slots.
- *PropertyPages.* The store is empty at first. Seventeen half-words hold two small values of five; fourteen is the size at the border, which counts as small and finds
  no room on any page, so that its write fails in every state; seventeen takes a chain of two pages and twenty-seven one of three. Four pages leave
  room for such a chain beside a shared page, and chains take pages that others gave back. `ClearLinks` is the one restriction, and `blob_overwrite` shows
  what happens without it.
- *LabelIndex.* Six nodes on pages of two entries make chains of three full pages, so that the head,
  an inner page and the last page are all relinked, with a page to spare.
- *PageCache.* Three frames for four pages: a first, an inner and a last frame, and one page too many. Page 1 may be
  clean or changed.
- *PageDirectory.* Two entries per directory page in a file of eight pages: both kinds grow, and a directory gets its second page while the
  other one stands between.
- *PropertyBuckets.* Three keys, two of which collide, two nodes, two entries per page.
- *Graph.* Two nodes are what uniqueness is about, an edge is what the cascade is about; it may be
  a self-loop. One schema defines no type, three define a node type with fields coming and going,
  one an edge type. The bound `SettledMarks` keeps `@index` and `@unique` from fields that have
  values, and `FreshIds` keeps label calls from ids of deleted records; the runs `late_unique` and
  `ghost_label` lift them, one each.
- *Pathfinding.* All graphs of three nodes and three edges whose first edge leads from node 1 to node 2. A search has to go round a cycle, past a self-loop
  and past a parallel edge; limits of zero, one and two hops stop it before, at and behind its target. A subgraph asked for with one node twice searches for a path of no edges.
- *Traversal.* Seven graphs of three nodes and three edges: a triangle, with three assignments of values (numbers, mixed kinds, null),
  a shortcut, parallel edges and self-loops with one. Commands have up to three steps, of seventeen with and without filters, with a Repeat of
  depth two, which goes round a self-loop and meets a node twice.
- *Cypher.* One query each over eight databases, among them one of three nodes with two labels on one and a cycle of edges.
  The queries combine one or two pattern parts, with and without a hop and WHERE, with every updating clause; a later query begins from another database. RETURN comes
  without clauses or after SET, not after CREATE and MERGE. Rows that are alike are kept once. MERGE names labels that the schema knows, two in
  one query, and one that it does not, on databases with and without a node that fits.
- *SchemaStore.* Two kinds with two names each, three schemas that remove a type and bring it back, five ids, four pages, one record.
  Two names do not use up the ids; the refusal at `LastId` is in the guards and covered by the proofs, which have no bound.
- *SchemaText.* Fourteen texts whose names are what the grammar could stumble over: those of primitives and of keywords, with a space inside, with spaces at their ends
  so that two types, two fields or a type and a primitive are one without them. Three are refused by the parser or the validator; one has a field twice.
- *Transfer.* Four sources and two targets: ids of their own, an id twice, none, an empty one; cells that read as another kind;
  two imports, so that one that fails is repeated. `Readable` leaves out the cells that end the process (section 7).
- *Connection.* Two processes and three files of the database: one made, one by a vacuum, one by the next. Three writes are enough for one that settled, one
  pending in a transaction and one of the other process. `Alone` keeps a process from opening between the drop of the lock and the rename; `vacuum_race` lifts it. Process 2 spells
  paths in its own way, so that both forms of a name meet in the registries; in `relative_path` both do.

### Properties

- `ReadsAreRecoverable`: a read returns what a recovery would find if the process died now.
- `HeaderInLockstep`: header and page count in memory are those of the stored pages.
- `ImplementsPageStore`: every step is one of `PageStore`, or changes nothing it sees. The abstract
  pages are what a recovery from the files would find, so that a `Crash` at any moment loses no
  write, and a rollback puts back exactly the pages of the snapshot.
- `CheckpointsEnd`: a checkpoint, a close or an open that has started ends, or the process dies.
- `RecoversWrittenValues`: after power losses no page is older than the last checkpoint that ended,
  and none has a value that was rolled back.
- `HintExact`: pages below a hint are full, so a freed slot is found again.
- `VerifySilent`: `verify` has nothing to report after any calls, and between the steps of a cascade: no
  edge has lost a node and no list is a cycle.
- `ImplementsMultigraph`: walks find the edges of a node and no other; a reused id inherits nothing;
  the cascade leaves no edge behind.
- `ReadsBack`, `FreeListExact`: every value reads back, no call reports corruption where there is none, and a write that fails at the border changes nothing; a page is in use or
  on the free list, never both or neither. (`ChainsNotShared`, that no write touches the chain of another record,
  is what `blob_overwrite` refutes and section 6 proves of clear links.)
- `PagesInOneChain`, `CallsChangeOneNode`: every page of the label index is in one chain, once, and a call adds or removes the node it is given, through every relinking.
- `ImplementsLru`, `PlacesKept`: the linked frames are the sequence `LruCache` promises, and no frame is lost or in two places.
- `PagesStayMapped`: whatever write of an allocation fails, a logical page keeps its page and no two have the same one.
- `BucketsExact`: the candidates of a key are the nodes added under it and not removed, each listed once.
- `CellsExact`, `LabelIndexExact`, `PropIndexExact`: each structure holds what the records say, exactly,
  after every call; a leak, a double free, a lost or a left-over entry breaks one of them.
- `UniqueHolds`: no two nodes of a type share a value of a `@unique` field.
- `SchemaKeepsValues`: `apply_schema` shows of a record the values of the fields declared before and
  after, and no other.
- `RepeatReaches`: Repeat reaches the nodes within its depth and no other, each once, the nearer first.
- `OrderedStably`: OrderBy is a permutation and stable; neighbours are never the wrong way round, and where all values compare, no two records are.
- `Levels`, `ShortestFound`, `SubgraphConnects`: the levels of a search are distances; a path that is found is a path and none is shorter, one that is not does not exist
  within the depth; a subgraph joins every two nodes that one search would join.
- `SearchEnds`: every search returns, whatever cycles the graph has.
- `DeleteExact`, `SetFromRows`, `MergeOnce`, `NoStaleTarget`, `PagesExact`: a query deletes exactly the records of its rows with their edges, however often a row names one; values of SET come
  from what MATCH read; MERGE makes a node for a pattern only if nothing is like it, never two that are alike, and changes none that was there (of a label the schema does not know, every node is); a variable never stands for a record that took the id of another; pages of a RETURN are
  cut from one order.
- `TypesKeepNames`, `CacheFresh`: a record is read under the name it was inserted with; a cache of declared fields that would be used says what the stored schema says.
- `TextReadsBack`: the text of the stored schema always parses, validates and is written the same again. It says exactly what is stored, if and only if no name of
  it is an identifier with spaces at its ends; then `apply_schema` takes it, if no definition has two fields of one name.
- `EdgesJoinNamed`, `ImportRestores`: an imported edge joins nodes with the ids its row names, also in a database with nodes of its own and after an import that failed; a first import into an empty database restores what the file can carry.
- `SettledStays`, `OneHolder`, `RegistryNamesOpen`: what was committed is in the database whoever opens it next, through deaths and vacuums of any process; two handles never
  work on one file or log; the registry of a process has a name of each path it has open, its canonical names are of no other path, and what else stays in it
  are names as spelled, in processes that spell paths in their own way. That there are none of these either is what the documentation says, and the run `relative_path` refutes.

## 5. Fairness

Two properties need fairness.

`CheckpointsEnd`: `MCSpec` of `MCStores` has weak fairness of `Progress`, the steps of a
running checkpoint, close or open. These are consecutive statements of one thread that wait for
nothing, so a step that can be taken is taken unless the process dies; `Crash` and `FlushError` are
not fair, and neither is the start of any call.

`SearchEnds`: `MCSpec` of `MCDatabase` has weak fairness of `SearchStep`, the iterations of the loops of one
search. They are steps of one call that nothing interrupts; asking is not fair.

## 6. What is proved

Seven modules hold theorems about the components, from the assumptions on constants that the models name (sentinels differ from values;
at least one slot, at least one page; a cache of at least one page; what is put in the cache is a page and whether it is dirty; finitely many names).
No theorem bounds the number of pages, nodes, names, files or processes. A theorem that needs more says so in its ASSUME.

`SetInduction` states induction over the natural numbers for a *set* of numbers instead of a predicate, and proves it from the well-foundedness of <.
In this form it can be applied: the proofs define the set of the numbers for which a claim holds. It serves where a walk has a
description that does not mention the walk, such as a chain of frames or of directory pages: one proves by induction that after k steps the walk is at the k-th
of the chain, and then reasons about the chain.

### Wal_proofs

*Deaths of the process.* `IInv` is inductive (`InitInv`, one lemma for each group of actions, `Invariance`). Its parts, and why each is
needed:

- `Types` is stronger than `TypeOK`: the log holds no torn entry, and no page of zeros is ever logged. Process
  death alone leaves the log whole; without this, `LoadIndex` could stop early.
- `IndexExact`: the index is what `load_index` would compute now, except between the cut of the log and the
  clearing of the index.
- `CacheExact`: a cached page is what a recovery would find. With `IndexExact` this gives
  `ReadsAreRecoverable`.
- `PagesExact`: the pages of a recovery, and those of the main file, are numbered without gaps. The second is
  what makes zero pages appear only where the log has a page to put over them.
- `HeaderExact`: while the handle is open the header is that of the pages; it gives `HeaderInLockstep`.
- `SnapshotExact`, `SnapshotsNested`: the log up to the length in a snapshot still gives the snapshot's
  header and page count, and the snapshot of a schema call is not shorter than that of its transaction. The
  second is needed because restoring the inner one cuts the log, which must not cut into the outer one.
- `CheckpointExact`: the pages that a checkpoint has copied are already those of the log, so that
  cutting the log changes no page.

From it: `TypeCorrect`, `ReadsRecoverable`, `HeaderLockstep`, and `Refinement`, the theorem that `Spec` implements
`PageStore` under the mapping `pages <- Recovered`. Its steps are grouped by what they do to a recovery: writes
and appends change one page, a restore gives the pages of the snapshot, all steps of checkpoints and opens
are stuttering steps, death forgets the snapshots.

*Power loss.* `FaultInv` is inductive for `Damage \subseteq {"tail"}`, power losses that leave the log whole or with a torn last entry. With other damage `RecoversWritten` is
not claimed: `stale_tail` shows what happens. `IInv` of `WalStore` is of no use here, because a power loss gives back old versions of both files, each for itself; what replaces it is
about every version the disk may still hold:

- `FaultTypes`, `Versions`: every version of the log is entries and at most one torn one at the end; the files in memory are among the versions.
- `IndexLoaded`: the index is that of the log in memory, as in `IndexExact`.
- `MainOnDisk`: between the sync of the main file and the cut of the log there is one version of the main file. This is what
  `sync_all` is for in a checkpoint: the log may be lost only when what it said is safe.
- `Historic`: every page of every version of the main file, and every entry of every version of the log, is in the history of the page.
- `SnapshotHistoric`, `SnapshotsNested`: the same for what a rollback would go back to.

From it: `RecoversWritten`, that a recovery finds in a page what was there at the end of the last checkpoint or was written since, and never what was rolled back.

### Topology_proofs

*The slots.* `IInv` says that the store is sound (`Sound`: records of the right shape, used slots on mapped pages), that pages
below the hints are full (`Hinted`), and what a cascade is. It is proved operator by operator, each lemma about
states of the store rather than steps: allocation, freeing, writing of records, list operations, then calls.
From it: `TypeCorrect` and `HintIsExact`, for any number of pages and of slots per page.

*The lists.* The lists of one direction are three functions: `head`, the first edge of each node, `next`, the edge behind each edge, and `at`, the node in
whose list an edge is. `Lists` says of them, without speaking of walks:

- `Pointers`: they refer to edges in use, or to none; a list stays at its node.
- `Hung`: every edge in use has a node or an edge that points to it. This is what makes walks complete.
- `Single`: nothing points where another points. `remove_from_out_list` relies on it, as it relinks one place only.
- `Ranked`: the edges have ranks that fall along a list. It excludes circles, and an edge put in front gets a rank of its own.

A walk finds exactly the edges that hang at its node: of those it missed, one would have the highest rank, and what points to it would be higher.
`Intact` says that both directions are `Lists` and that records carry their own id, `Cascading` that a running cascade has in hand the edges that its node still has;
`LInv`, with `IInv`, is inductive. A self-loop is in both lists of one node and is taken out of each in turn, so that between the two `delete_edge` leaves a store that is
not `Intact`: the lemmas speak of one direction at a time. From it: `NothingToReport`, that `verify` never has anything to report, and `Refinement`: the store implements `Multigraph`,
with the edges in use for the abstract ones and each walk for the set of edges at a node.

### Graph_proofs

All theorems assume `FreshIds`; `PropIndexAgrees`, `UniqueValues` and `InsertsRespectUnique` assume `SettledMarks` as well. Without them the properties are false, which the runs `ghost_label` and
`late_unique` show. The argument has four floors, each with one lemma per call:

- `Labels` is inductive alone: records in use are well formed, a free node id has no record and is listed nowhere, the label index lists a used node once
  under each of its types. `FreshIds` is what makes a free id empty, and so what lets `add_new` go without a look. It gives `LabelIndexAgrees`.
- The property index is the set `Held` of what the records in use hold under the marks of the schema. A call takes the entries of the records it changes out and puts new ones in;
  `IndexMoves` says that this keeps the index the set, if the old entries of the changed records are all there and the
  marks do not move below the others. `SettledMarks` is used for `apply_schema` only. It gives `PropIndexAgrees`.
- `Apart`, that two nodes in use of one type differ in its unique fields, needs the index to be exact: `check_unique` reads
  the index and not the records. A conversion that merges two values is where it could fail, and where the code looks first. It gives `UniqueValues` and `InsertsRespectUnique`.
- `Accounted` stands on `Labels` and is about the cells of the property store: a content has as many cells as records in use refer to it. Every call takes the references of
  the records that it changes out and puts the new ones in, and stores and frees cells; the lemmas count both sides by the cardinality of the set of references.
  It gives `CellsAgree`; with the rules of migration it gives `ValuesKept`, that a schema change keeps the values of the fields it keeps.

### Connection_proofs

*Connections.*

- `Locked`: a lock is with the process that has a handle, the path of a handle names its file, and logs and snapshots fit. `LockedInvariant` and `HoldersApart` need no bound,
  not even `Alone`: two handles never meet, also in the race of section 7.
- `Preserved`, under `Alone`: one process at a time is at work (`Single`), logs have the layout of the file they lie beside and no file is damaged (`Whole`), the database
  and what a rollback would leave of it hold what settled (`Kept`), and while a vacuum runs nobody writes and its copy has all there is (`Copying`), so that the rename exchanges like for like. It gives `SettledWritesStay`.
- `Tracked`: a process with a handle on a path has a name of it in its registry; the canonical name is there only while it has one, the name as spelled only if the process is in `Relative`. A
  handle is given back under the name of a file that is there (`HeldIsThere`), which is the canonical one. It gives `RegistryFollows`, for processes that spell paths in any way.

*Schemas.* `SoundFile`: ids come from below their counter, no two names of a kind share one, every record has the id of its name, and a file without
a stored schema has no records. It holds of the file and of the snapshot, because a rollback makes the one of the other. For the cache it is
needed besides that its version is not above that of the file and that one of the present version has the present fields: after a rollback the next write
gives the same version again, and it is `restore`, which empties the cache, that keeps this true. From it: `SchemaInvariant`, `TypesKeepTheirNames`, `CacheNeverStale`.

### PropertyPages_proofs

Nothing on a page says whether it is a slotted page, a page of a chain or free. `PInv` says that the store is never mistaken: no call has failed but writes for which no page has room, and there are shelves (small values by page and slot),
chains (the pages of each large value, by the first of them) and the words of the large values such that

- `Layout`: the slots of a shelf lead to the words of its values, or are empty, and the number of values is the one on the page (`Shelf`); each chain has the words of its value cut over its pages,
  each page naming the next (`Strand`), by a link that is clear (`Cleared`); no page is on two of them; and the pages that are on none are the free list, each once (`Pool`, `FreeLinks`).
- `Records`: the values on the pages are those of the records that the callers hold, one each.

What makes `Layout` inductive is that a page of a chain is never valid as a slotted page (`ChainPageSpoiled`): read as such, its link would be the number of slots and its first word of data the offset
of slot 1, which is beyond the page; there is a slot 1 when the link is at least 2 and below the marker, and the end of a chain has the marker there, which no slotted page has. A link to page 0 or 1, or to one whose number ends in the marker, is the case that this leaves out, and what the run `blob_overwrite` shows.
Hence `ClearLinks`, the one assumption of the theorems, by which no such link is made. The store begins empty, any record may be freed, and values of the size at the border are among those written: their
writes fail and change nothing. Half-words per page, threshold, sizes, tags and the number of pages are any.

The lemmas go up from words to pages, to the free list, to chains, to calls. Scans for a page with room, the relinking of a chain and the walks that read and free it are loops in the model as in the
code; `SetInduction` gives what each has done after k rounds. From it: `StoreLaidOut`, `RecordsReadBack`, `FreePagesExact`, and `ChainsApart`: as long as links are clear, no write
touches the pages of another record's chain.

### Pages_proofs

*The cache.* `CacheInv` says that there is a sequence of frames, the least recent first, for which the lists are `Sound`: each frame is linked to its
neighbours in it and the two ends are its ends (`Chained`), the index leads to exactly its frames, and every other frame is vacant, once. Lemmas give the order after `Unlink`, `PushMru` and `Touch`, also where the frame is the first, the last or the only one. By `SetInduction`
the walk along the links lists that sequence. From it: `CacheInvariant`, `NoPlaceLost` (no frame is lost between chain and vacant list), and `CacheRefinement`: `PageCache` implements `LruCache`.

*The directory.* `Consistent` says that headers are well formed (`Headers`) and that there are chains of directory pages, one for each kind of data, that `Fits`:

- `LaidOut`: the chains begin at the roots and have no page in common; every entry below the length names a page of its kind,
  and no two entries name the same page.
- `GivenFits`: what was given out at a logical number is what the entry says. The length that counts is that of the header in memory: a call that has
  made the directory longer has not yet told the header. That is why a header may be `Older` than the directory of the call, and the logged one older than that in memory.
- `PhysicalFits`, `WalkFits`: the page of the running call is of its kind and in no entry yet, and the call is at that page of the chain that its walk has reached.

Appending a page, linking it and storing the entry are separate writes, and each may fail and leave its page behind; each has its lemma. From it: `MappedForGood`, that a page once given out at a logical number
stays there, whatever fails.

*The buckets.* `Indexed` says that there are chains of pages, one for each bucket, on which the buckets lie (`Shelved`) and in which the entries are `Filed`: an entry is at some place of
its bucket if and only if it was added and not removed, and at one place only. That the i-th page of a chain is at least the i-th of the file, because pages are linked behind older ones, is what makes the
walk of `PagesFrom`, which takes as many steps as there are pages, come to the end of the chain. Additions and removals are described by what they do to the places: one comes, or one goes
and the last entry of the page moves into it. From it: `CandidatesExact`.

*The label index.* `Labelled` says that there are chains of pages, one for each type, on which the index is `Strung`:

- The links follow the chain from the head (`TypeLinks`), the chains are apart, and every page is in one.
- Behind the head come the spares, up to some page of the chain, and then pages with entries (`Sorted`). What a page records of the end of the
  run of spares is right wherever it is, and the first spare has it. This has to be part of the invariant because a promotion does not walk
  the run: it relinks at the page that the record names, and a stale record would cut the chain.
- A node lies at one place of its type (`OneEach`).

The two promotions are reorderings of the chain: the head goes behind the run of spares (`HeadTo`), or a page comes to the front (`FrontFrom`). What a call does to the
entries is, as for the buckets, that one comes (`Gains`) or that one goes and the last of the head moves into its place (`Moves`). Pages of at least
two entries and a `NoPage` that is no page number are all that is assumed. From it: `LabelPagesInOneChain` and `LabelCallsChangeOneNode`.

### Queries_proofs

The lemmas at the beginning are about sequences and scans: a scan visits a set once and in order, whatever the set (`ScanVisits`).

*Transfer.* `Joined`: the ids that an import knows lead to nodes with these ids, and each edge made joins the ends its row names. A node keeps its id for good, since
an import only adds nodes; that is what keeps earlier edges right when a later node has the same id. It gives `EdgesOfRows`.
`Restoring` adds where the rows come from (`FromSource`) and how far the import is (`Progress`): the rows left are the last of the file, and the target has one node or edge for each before them, with the
values of its row. What a row says is what the scan of the source says, cell by cell. `TransferAssumption` has what this needs of values: a number or boolean reads back from its text, while
strings may read as anything, which is why `ImportRestores` speaks of plain cells. It gives `FilesRestore`.

*Pathfinding.* `Search` is inductive within a search:

- `Tree`: every node met but the origin was reached along an edge from a node met one level up.
- `Line`, `Frontier`: the queue has each node once, by level, and spans no more than the level of the current node and the next.
- `Scanned`: what is left to look at are neighbours of the current node, and a node above the limit that is neither in the queue nor current is `Done`: its neighbours were all met, at most one level below.

So the nodes within c hops of the origin were all met when all nodes above level c are done (`BallMet`, by induction over hops). At the moment a target is met, those above the
level of the current node are done, and the target was not met, so it is farther than that level; the path `reconstruct_path` reads off the tree has one edge more. When the queue is empty all nodes above the limit are done.
`Progressing` says it for each phase of a call and gives `LevelsHold` and `PathsAreShortest`. `Gathered` is about the searches for a subgraph: each pair that was searched for and lies within the limit is joined by
a way along the edges gathered, of no more edges than there are nodes (`LevelsFit`: a tree has at least as many nodes as levels), and edges gathered have their ends among the nodes. It gives `SubgraphsConnect`.

### Only model-checked

- Liveness (`CheckpointsEnd`, `SearchEnds`): the prover handles neither fairness nor ENABLED.
- `OrderedStably` and `RepeatReaches`, the properties of Cypher and `TextReadsBack`: the results of traversals, Cypher and schema text are defined
  by recursion over sequences and syntax, and by sorting and selecting from sequences, of which the prover knows nothing.

## 7. Where the code and its documentation disagree

Each is the counterexample of a run.

- `stale_tail` (`storage/wal.rs:187`). `load_index` stops at the first bad checksum and leaves the entries
  behind it in the file. When a power loss tears an entry in the middle, the next write goes over the torn
  entry, and after the next death `load_index` reads on into old entries.
- `ghost_node` (`storage/topology.rs:129`). The bitmap is written before the record. A death in between leaves
  a used slot of zero bytes, which decodes to node (0, 0); an edge inserted at it rewrites the
  list of node (0, 0).
- `blob_overwrite` (`storage/property.rs:84`). A page of a chain whose link is logical page 0 or 1 passes for a
  slotted page; the next small value is written into it.
- `ghost_label` (`db.rs:1793`). Label calls do not look whether the record is in use; one that names a deleted
  node lists a free id in the label index.
- `late_unique` (`db.rs:1207`). A mark that comes to a field with values is not filled in: lookups miss the
  nodes that exist, and inserts repeat their values.
- `vacuum_race` (`db.rs:2197`). `vacuum_file` drops its handle, and with it the lock, before the rename. A process that opens
  in between works on a file that is about to be replaced.
- `relative_path` (`storage/file.rs:51`). A path is registered in its canonical form if there is a file, and as it is spelled if `create` is about to make one; it is taken
  out by the canonical form. Under a relative path the spelled name stays: a second `create` there, and so a second `vacuum_file`, which makes its temporary file anew, fails in
  this process with "already open in this process".

The models were written from the code line by line, and the following was met on the way. It has no run of
its own.

*Storage.* Values of 4089 and 4090 bytes fail to be written (`storage/value.rs:209` counts 6 bytes of overhead, the page takes 8), which run `pages` has as `"NoRoom"`. A log
entry of zeros has a valid checksum (`storage/wal.rs:30`). A sync that fails after the log was cut leaves an index of offsets that are gone (`storage/wal.rs:138`),
and a rollback whose truncation fails goes on as if it had not (`storage/file.rs:893`). A death inside a call leaves the part it had written (`storage/topology.rs:264`). `verify` leaves the property index out, as if there were none (`db.rs:2551`). Three branches are modelled without
a property of their own: the hint backs off to a page that was reused (`storage/value.rs:254`), a second free of a chain is harmless (`:316`), spare pages of the label index are used
before the file grows (`storage/label_index.rs:303`).

*Schema.* The ids of types of one schema are counted in a u16 without a check (`schema/store.rs:396`), and ids begin again at 1 when the previous schema cannot be read (`schema/store.rs:245`).
A change of the bound of a generic end passes the migration check, although the end type changes with it (`schema/migration.rs:52`). Definitions that occur twice: the
migration check looks at the last, everything else at the first. A name in backticks with spaces at its ends
counts as bare (`schema/parser.rs:35`, whose implicit whitespace skips them) and is printed without them, although `schema/unparse.rs:12` has the name "parse back to the same string": the text that `get_schema_text` gives says another
schema, which `apply_schema` may refuse, and later renames fail. The run `database` has such names, and `TextReadsBack` says exactly when it happens. A name with a comment in it, such as ``a //b``, is bare as well and takes the rest of its line along, which is not modelled.
`Vector<n>` beyond u32 ends the process (`schema/parser.rs:211`). `schema apply` of the command line saves a schema without the purge of dropped fields.

*Queries.* A listing by an unknown type name returns every node (`db.rs:541`), so MATCH with a misspelt type matches all, and MERGE of one takes any node that fits the rest of its pattern instead of failing (run `database`). WHERE over two pattern parts drops the rows of the part without its
variable; bindings are taken before WHERE, so that CREATE may use a node that WHERE rejected; an undirected hop follows outgoing edges only; DISTINCT comes after LIMIT; RETURN after SET shows old values.
GroupBy puts `"1"` and 1, and null and a missing value, in one group; Path yields one-node paths; `OutNodes` compares the primary label where `HasLabel` looks at all.

*Files.* JSON export loses additional labels. A CSV header comes from the first record: keys that it lacks are dropped, missing values come back as `""`, and cells that look like numbers, dates or booleans change
their kind (`src/chiffondb/src/commands/import.rs:150`). A long cell with a multi-byte character across a cut ends the import (`src/chiffondb/src/commands/import.rs:180`). A failed import keeps its rows, and a second one inserts the nodes again. A `create` that dies before its header leaves a file that
does not open; a vacuum that dies leaves its copy, and every later one fails on it.

## 8. What is not modelled

- Bytes of pages other than those that tell formats apart; the encoding of values and of label lists. A label
  list is stored like a value, and `PropertyPages` assumes of it what it assumes of a property map.
- The in-memory backend (it is `PageStore` itself); the dormant label indexes of older versions.
- Errors of single reads and writes outside a checkpoint and a page allocation, and a sync that fails after the cut of the log.
- A death inside the calls that `PropertyPages`, `LabelIndex` and `Graph` take as one step. ARCHITECTURE.md renounces
  atomicity there ("Crash atomicity is not guaranteed at the API-call level").
- Types of fields other than String and Int in `Graph`; conversions between Int and Float.
- The transaction guard at the end of `api/mod.rs`, which is compiled for tests only.
- The Cypher parser (a library's), aggregation and string functions in RETURN, and arithmetic beyond the computed values of SET.
- Characters inside the tokens of schema text; the layout of CSV and JSON files.
- The commands of the command line other than import and export, and the generated bindings: they parse arguments, make one call and
  print its result.

## 9. Plan

The modules were written in this order: the file backend with its refinement and proofs; power loss; topology with its
refinement and proofs; the property store; the label index; the calls of `db.rs`; page cache, page directory and property
buckets; schema store; pathfinding and traversals; Cypher; connections and vacuum; schema text; transfer; then the proofs of `Graph`,
`SchemaStore` and `Connection`; then those of `WalFaults`, the page cache, the page directory, the property buckets, the label
index and the cells of `Graph`; then those of the lists of `Topology`, of `Transfer`, of `Pathfinding` and of the property store.

What would come next, the most important first:

1. A failing sync in the checkpoint and a failing truncation in a restore as actions of `WalFaults`.
2. `NoStaleTarget` and `DeleteExact` of `Cypher`, with matching described without recursion.
3. A death inside a call of `Graph`, with what `verify` finds afterwards.
4. Conversions between Int and Float at the ends of their ranges; aggregation in Cypher.

## 10. Running the checks

    tlc -workers 2 -config graph.cfg MCGraph       # a run of section 4: its cfg and its module
    tlapm Wal_proofs.tla                           # the proofs of a module

`PROJECT.json` holds the inventory of components, the runs, the mutants (each an operator of the module, named in
its comment as a mutant, that takes the place of the definition below it), the lines of source behind every
definition, the hazards and the theorems.
