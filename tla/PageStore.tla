------------------------------ MODULE PageStore ------------------------------
(***************************************************************************)
(* What the storage layer of chiffondb promises to the layers above it: an *)
(* array of pages that grows at its end, with a transaction snapshot (api/ *)
(* mod.rs, Connection::pending_snapshot) and, inside it, the snapshot a    *)
(* schema operation takes for itself (db.rs, apply_schema, rename_field,   *)
(* change_field_type).  Restoring a snapshot puts back every page exactly. *)
(* The death of the process forgets the snapshots and loses no write.      *)
(*                                                                         *)
(* The in-memory backend is this specification: a vector of pages, and a   *)
(* copy of it as the snapshot.  WalStore shows that the file backend, with *)
(* its log, cache and checkpoints, implements it.                          *)
(***************************************************************************)
EXTENDS Naturals

CONSTANTS
    MaxPage,      \* highest page number a behaviour uses
    Values,       \* page contents the upper layers write
    InitHeader,   \* contents of the header page of a fresh database
    Zero,         \* a page of zero bytes
    Absent,       \* "there is no such page"
    NoSnapshot

Pages    == 0 .. MaxPage
Contents == Values \cup {Zero, Absent}

VARIABLES
    pages,        \* what a read of each page returns
    txn,          \* the pages when the open transaction began
    op            \* the pages when the running schema operation began

vars == <<pages, txn, op>>

FreshDatabase == [p \in Pages |-> IF p = 0 THEN InitHeader ELSE Absent]

Init ==
    /\ pages = FreshDatabase
    /\ txn = NoSnapshot
    /\ op  = NoSnapshot

WritePage(p, v) ==
    /\ pages[p] # Absent
    /\ pages' = [pages EXCEPT ![p] = v]
    /\ UNCHANGED <<txn, op>>

AppendPage(p, v) ==
    /\ \A q \in Pages : pages[q] = Absent <=> q >= p
    /\ pages' = [pages EXCEPT ![p] = v]
    /\ UNCHANGED <<txn, op>>

BeginTransaction ==
    /\ txn = NoSnapshot /\ op = NoSnapshot
    /\ txn' = pages
    /\ UNCHANGED <<pages, op>>

CommitTransaction ==
    /\ txn # NoSnapshot /\ op = NoSnapshot
    /\ txn' = NoSnapshot
    /\ UNCHANGED <<pages, op>>

RollbackTransaction ==
    /\ txn # NoSnapshot /\ op = NoSnapshot
    /\ pages' = txn
    /\ txn' = NoSnapshot
    /\ UNCHANGED op

BeginOperation ==
    /\ op = NoSnapshot
    /\ op' = pages
    /\ UNCHANGED <<pages, txn>>

FinishOperation ==
    /\ op # NoSnapshot
    /\ op' = NoSnapshot
    /\ UNCHANGED <<pages, txn>>

AbandonOperation ==
    /\ op # NoSnapshot
    /\ pages' = op
    /\ op' = NoSnapshot
    /\ UNCHANGED txn

Crash ==
    /\ txn' = NoSnapshot
    /\ op'  = NoSnapshot
    /\ UNCHANGED pages

Next ==
    \/ \E p \in Pages, v \in Values : WritePage(p, v) \/ AppendPage(p, v)
    \/ BeginTransaction \/ CommitTransaction \/ RollbackTransaction
    \/ BeginOperation \/ FinishOperation \/ AbandonOperation
    \/ Crash

Spec == Init /\ [][Next]_vars
==============================================================================
