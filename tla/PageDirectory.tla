---------------------------- MODULE PageDirectory ----------------------------
(***************************************************************************)
(* The page directories (storage/page_directory.rs): each kind of data has *)
(* its logical pages, mapped to pages of the file by a chain of directory  *)
(* pages.  Root and length of a directory are in the file's header; every  *)
(* use builds the directory from there and an allocation stores it back    *)
(* (storage/file.rs, alloc_property_page and alloc_topology_page).         *)
(*                                                                         *)
(* The writes of an allocation are steps: each may fail, and what it wrote *)
(* until then stays.  Pages are named by their number in the file.         *)
(***************************************************************************)
EXTENDS Naturals, Sequences, FiniteSets

CONSTANTS
    DataKinds,       \* "node", "edge", "property"
    PerPage,         \* entries of a directory page (1023 in the code)
    MaxFilePages     \* bound: pages of the file

ASSUME PerPageAssumption == PerPage \in Nat \ {0}

VARIABLES
    file,            \* the pages: contents of some kind, or a directory page
    header,          \* the header in memory: root and length of each directory
    logged,          \* the header as it was last written
    call,            \* the allocation that runs
    given            \* ghost: kind -> the pages its callers were given, by logical number

dirVars == <<file, header, logged, call, given>>

UNMAPPED == 0
NoDirectory == [root |-> UNMAPPED, len |-> 0]
NoCall == [at |-> "idle"]
BlankDir == [link |-> UNMAPPED, entries |-> [k \in 0..(PerPage - 1) |-> UNMAPPED]]

\* dir_page_pid: the directory page of a place in the chain, or UNMAPPED.
DirPage(dir, place) ==
    LET walk[k \in 0..place] ==
            IF k = 0 THEN dir.root
            ELSE IF walk[k - 1] = UNMAPPED THEN UNMAPPED ELSE file[walk[k - 1]].link
    IN  walk[place]

\* Mutant: the place in the page is mistaken for the place of the page.
EntryOfMutant(logical) == logical \div PerPage

EntryOf(logical) == logical % PerPage

Resolve(dir, logical) ==
    IF logical >= dir.len \/ DirPage(dir, logical \div PerPage) = UNMAPPED THEN UNMAPPED
    ELSE file[DirPage(dir, logical \div PerPage)].entries[EntryOf(logical)]

\* Bound: room in the file.
HasPages == Len(file) < MaxFilePages
NewPid == Len(file) + 1

-----------------------------------------------------------------------------
\* An allocation: append the page, extend the chain, map the page, store the directory.

AppendData(kind) ==
    /\ call = NoCall /\ HasPages
    /\ file' = Append(file, [data |-> kind])
    /\ call' = [at |-> "ensure", kind |-> kind, physical |-> NewPid, dir |-> header[kind],
                pid |-> header[kind].root, left |-> header[kind].len \div PerPage]
    /\ UNCHANGED <<header, logged, given>>

\* ensure_dir_page: the first directory page.
AppendRoot ==
    /\ call.at = "ensure" /\ call.dir.root = UNMAPPED /\ HasPages
    /\ file' = Append(file, BlankDir)
    /\ call' = [call EXCEPT !.dir.root = NewPid, !.pid = NewPid]
    /\ UNCHANGED <<header, logged, given>>

FollowLink ==
    /\ call.at = "ensure" /\ call.pid # UNMAPPED /\ call.left > 0
    /\ file[call.pid].link # UNMAPPED
    /\ call' = [call EXCEPT !.pid = file[call.pid].link, !.left = @ - 1]
    /\ UNCHANGED <<file, header, logged, given>>

AppendDirPage ==
    /\ call.at = "ensure" /\ call.pid # UNMAPPED /\ call.left > 0
    /\ file[call.pid].link = UNMAPPED /\ HasPages
    /\ file' = Append(file, BlankDir)
    /\ call' = [call EXCEPT !.at = "link"]
    /\ UNCHANGED <<header, logged, given>>

LinkedTo(page, pid) == [page EXCEPT !.link = pid]

\* The page behind is the one that was appended last.
LinkDirPage ==
    /\ call.at = "link"
    /\ file' = [file EXCEPT ![call.pid] = LinkedTo(@, Len(file))]
    /\ call' = [call EXCEPT !.at = "ensure", !.pid = Len(file), !.left = @ - 1]
    /\ UNCHANGED <<header, logged, given>>

MapPage ==
    /\ call.at = "ensure" /\ call.pid # UNMAPPED /\ call.left = 0
    /\ file' = [file EXCEPT ![call.pid].entries[EntryOf(call.dir.len)] = call.physical]
    /\ call' = [call EXCEPT !.at = "store", !.dir.len = @ + 1]
    /\ UNCHANGED <<header, logged, given>>

\* The header changes in memory first; its write may fail.
StoreDirectory ==
    /\ call.at = "store"
    /\ header' = [header EXCEPT ![call.kind] = call.dir]
    /\ \/ /\ logged' = header'
          /\ given' = [given EXCEPT ![call.kind] = Append(@, call.physical)]
       \/ \* Err: the caller was given nothing, and the page stays mapped.
          /\ given' = [given EXCEPT ![call.kind] = Append(@, UNMAPPED)]
          /\ UNCHANGED logged
    /\ call' = NoCall
    /\ UNCHANGED file

\* A write failed: the directory in the hands of the call is dropped.
AllocFails ==
    /\ call # NoCall /\ call.at # "store"
    /\ call' = NoCall
    /\ UNCHANGED <<file, header, logged, given>>

\* The process ends and the file is opened again: every write was logged.  A page that no
\* caller was given for lack of the header is not mapped any more.
Reopen ==
    /\ header' = logged /\ call' = NoCall
    /\ given' = [kind \in DataKinds |-> SubSeq(given[kind], 1, logged[kind].len)]
    /\ UNCHANGED <<file, logged>>

DirectoryInit ==
    /\ file = <<>> /\ call = NoCall
    /\ header = [kind \in DataKinds |-> NoDirectory] /\ logged = header
    /\ given = [kind \in DataKinds |-> <<>>]

DirectoryNext ==
    \/ \E kind \in DataKinds : AppendData(kind)
    \/ AppendRoot \/ FollowLink \/ AppendDirPage \/ LinkDirPage
    \/ MapPage \/ StoreDirectory \/ AllocFails
    \/ Reopen

DirectorySpec == DirectoryInit /\ [][DirectoryNext]_dirVars

-----------------------------------------------------------------------------
\* Properties.

\* Whatever fails or dies between the writes of an allocation, and however the directories
\* grow into each other: a logical page that a caller was given keeps its page, every logical
\* page below the length is mapped to a page of its kind, and no two to the same one
\* (alloc_property_page, alloc_topology_page, push, resolve).
PagesStayMapped ==
    LET mapped(kind) == {Resolve(header[kind], l) : l \in 0..(header[kind].len - 1)}
    IN  \A kind \in DataKinds :
            /\ Len(given[kind]) = header[kind].len
            /\ \A l \in 1..Len(given[kind]) : given[kind][l] \in {UNMAPPED, Resolve(header[kind], l - 1)}
            /\ \A p \in mapped(kind) : p # UNMAPPED /\ file[p] = [data |-> kind]
            /\ Cardinality(mapped(kind)) = header[kind].len
==============================================================================
