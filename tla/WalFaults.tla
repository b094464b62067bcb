------------------------------ MODULE WalFaults ------------------------------
(***************************************************************************)
(* WalStore on a machine that loses power.  The operating system keeps     *)
(* writes to itself until a file is synced: after a power loss each page   *)
(* of the main file, and the log, may be any of the versions written since *)
(* the last sync of that file.  The code syncs the main file and the log   *)
(* in WalFile::checkpoint and the log in WalFile::truncate_to, and nowhere *)
(* else.                                                                   *)
(*                                                                         *)
(* "legit" records what each page may be after a recovery: its value when  *)
(* the last checkpoint ended, or one written since and not rolled back.    *)
(***************************************************************************)
EXTENDS WalStore

CONSTANTS
    MaxFailures,  \* bound: process deaths and power losses in a behaviour
    Damage        \* what a power loss does to entries that were never synced:
                  \* "tail" tears the last, "any" tears any

ASSUME MaxFailuresAssumption == MaxFailures \in Nat
ASSUME DamageAssumption == Damage \subseteq {"tail", "any"}

VARIABLES
    walDisk,      \* versions of the log the disk may hold
    walSafe,      \* leading entries of the log that are synced
    mainDisk,     \* for each page of the main file, versions the disk may hold
    legit,        \* values a recovery may find in each page
    legitTxn,     \* legit when the open transaction began
    legitOp,      \* legit when the schema operation began
    failures      \* process deaths and power losses so far

disk   == <<walDisk, walSafe, mainDisk>>
ghosts == <<legit, legitTxn, legitOp>>
allVars == <<vars, disk, ghosts, failures>>

LegitNow == [p \in Pages |-> {Recovered[p]}]

\* The step leaves its writes with the operating system.
Unsynced ==
    /\ walDisk' = walDisk \cup {wal'}
    /\ walSafe' = IF Len(wal') < walSafe THEN Len(wal') ELSE walSafe
    /\ mainDisk' = [p \in Pages |-> mainDisk[p] \cup {main'[p]}]

\* The step ends with a sync of the log.
WalSynced ==
    /\ walDisk' = {wal'} /\ walSafe' = Len(wal')
    /\ UNCHANGED mainDisk

\* Mutant of MainSynced: the main file is never synced.
MainNotSynced == Unsynced

MainSynced ==
    /\ mainDisk' = [p \in Pages |-> {main'[p]}]
    /\ UNCHANGED <<walDisk, walSafe>>

\* A call that writes v to page p.
Written(p, v) ==
    /\ Unsynced
    /\ legit' = [legit EXCEPT ![p] = @ \cup IF @ = {Absent} THEN {v, Zero} ELSE {v}]
    /\ UNCHANGED <<legitTxn, legitOp>>

\* Legit values go with the snapshot they were recorded for.
NoTxn == legitTxn' = NoSnapshot /\ UNCHANGED legitOp
NoOp  == legitOp' = NoSnapshot /\ UNCHANGED legitTxn

FaultlessNext ==
    /\ \/ \E p \in Pages, v \in Values : WritePage(p, v) /\ Written(p, v)
       \/ \E v \in Values : \/ WriteHeader(v) /\ Written(0, v)
                            \/ AppendPage(v) /\ Written(count, v)
       \/ BeginTransaction /\ Unsynced /\ legitTxn' = legit /\ UNCHANGED <<legit, legitOp>>
       \/ BeginOperation /\ Unsynced /\ legitOp' = legit /\ UNCHANGED <<legit, legitTxn>>
       \/ CommitTransaction /\ Unsynced /\ UNCHANGED legit /\ NoTxn
       \/ FinishOperation /\ Unsynced /\ UNCHANGED legit /\ NoOp
       \/ RollbackTransaction /\ WalSynced /\ legit' = legitTxn /\ NoTxn
       \/ AbandonOperation /\ WalSynced /\ legit' = legitOp /\ NoOp
       \/ Close /\ txn = NoSnapshot /\ Unsynced /\ UNCHANGED ghosts
       \/ Close /\ txn # NoSnapshot /\ WalSynced /\ legit' = legitTxn /\ NoTxn
       \/ SyncMain /\ MainSynced /\ UNCHANGED ghosts
       \/ FinishCheckpoint /\ WalSynced /\ legit' = LegitNow /\ UNCHANGED <<legitTxn, legitOp>>
       \/ /\ \/ \E p \in Pages : ReadPage(p) \/ CopyPage(p)
             \/ Flush \/ FlushOnClose \/ Preallocate \/ TruncateWal \/ FlushError
             \/ Open \/ ReadHeader
          /\ Unsynced /\ UNCHANGED ghosts
    /\ UNCHANGED failures

\* The process dies: its writes stay with the operating system.
ProcessDeath ==
    /\ failures < MaxFailures
    /\ failures' = failures + 1
    /\ Crash /\ Unsynced
    /\ legitTxn' = NoSnapshot /\ legitOp' = NoSnapshot /\ UNCHANGED legit

-----------------------------------------------------------------------------
(* Power loss. *)

\* What becomes of one version of the log on its way to the disk.
Damaged(w) ==
    LET unsafe == (walSafe + 1) .. Len(w)
        Tear(T) == [i \in DOMAIN w |-> IF i \in T THEN Torn ELSE w[i]]
    IN  {w}
        \cup (IF "tail" \in Damage /\ unsafe # {} THEN {Tear({Len(w)})} ELSE {})
        \cup (IF "any" \in Damage THEN {Tear(T) : T \in SUBSET unsafe} ELSE {})

\* A page that did not reach the disk while a later one did reads as zeros.
FillHoles(m) ==
    [p \in Pages |-> IF m[p] = Absent /\ \E q \in Pages : q > p /\ m[q] # Absent
                     THEN Zero ELSE m[p]]

PowerLoss ==
    /\ failures < MaxFailures
    /\ failures' = failures + 1
    /\ \E w \in walDisk : wal' \in Damaged(w)
    /\ \E m \in [Pages -> UNION {mainDisk[p] : p \in Pages}] :
        /\ \A p \in Pages : m[p] \in mainDisk[p]
        /\ main' = FillHoles(m)
    /\ Forget
    /\ walDisk' = {wal'} /\ walSafe' = Len(wal')
    /\ mainDisk' = [p \in Pages |-> {main'[p]}]
    /\ legitTxn' = NoSnapshot /\ legitOp' = NoSnapshot /\ UNCHANGED legit

-----------------------------------------------------------------------------
FaultInit ==
    /\ Init
    /\ walDisk = {wal} /\ walSafe = 0
    /\ mainDisk = [p \in Pages |-> {main[p]}]
    /\ legit = [p \in Pages |-> {main[p]}]
    /\ legitTxn = NoSnapshot /\ legitOp = NoSnapshot
    /\ failures = 0

PowerNext == FaultlessNext \/ ProcessDeath \/ PowerLoss
PowerSpec == FaultInit /\ [][PowerNext]_allVars

-----------------------------------------------------------------------------
(* Properties. *)

\* After a power loss at any moment, and however often, no page is older than the
\* last checkpoint that ended, and none has a value that was rolled back: the
\* order of the syncs in checkpoint, and the one in truncate_to, are what it takes
\* ("flushed state, plus a best-effort tail", ARCHITECTURE.md).
RecoversWrittenValues == \A p \in Pages : Recovered[p] \in legit[p]
==============================================================================
