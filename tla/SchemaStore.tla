------------------------------ MODULE SchemaStore ------------------------------
(***************************************************************************)
(* The stored schema (schema/store.rs): type ids given to names when a     *)
(* schema is applied or a name is registered, the ids that records carry,  *)
(* and the cache of declared fields (db.rs), through transactions, failed  *)
(* schema calls, vacuum and reopening.                                     *)
(*                                                                         *)
(* A schema says of every name of a kind which fields it declares, or that *)
(* it is not defined.  The order of its definitions is left open: new      *)
(* names may be numbered in any order.  A record is a use of a type id, as *)
(* type or as label, with the name it was asked for by.                    *)
(***************************************************************************)
EXTENDS Integers, FiniteSets

CONSTANTS
    Kinds,            \* node types and edge types
    Names,            \* names of types
    FieldSets,        \* what a type may declare
    Undefined,        \* one of them: the type is not defined
    Schemas,          \* schemas that may be applied, all of them allowed by migration.rs
    LastId,           \* ids end here: 2^16 - 1 in the code
    MaxLength,        \* bound: pages of the file
    MaxStored        \* bound: records in it

ASSUME SchemaAssumption ==
    /\ IsFiniteSet(Names)
    /\ Undefined \in FieldSets
    /\ Schemas \subseteq [Kinds -> [Names -> FieldSets]]
    /\ LastId \in Nat /\ MaxLength \in Nat /\ MaxStored \in Nat

VARIABLES
    file,       \* length, root and version of the schema, the schema and its ids, the records
    cache,      \* declared_fields: the key and the fields per type id
    snapshot    \* the file when the transaction began

svars == <<file, cache, snapshot>>

NoId    == 0
NoRoot  == 0
NoCache == [version |-> -1, root |-> NoRoot, fields |-> {}]

\* The SchemaDto: definitions, assignments (a name without one has NoId) and counters.
Dtos == [defs : [Kinds -> [Names -> FieldSets]], ids : [Kinds -> [Names -> Nat]], next : [Kinds -> Nat]]
Empty == [defs |-> [k \in Kinds |-> [n \in Names |-> Undefined]],
          ids  |-> [k \in Kinds |-> [n \in Names |-> NoId]],
          next |-> [k \in Kinds |-> 1]]

Records == [kind : Kinds, id : Nat, name : Names]
Files   == [length : Nat, root : Nat, version : Nat, schema : Dtos, records : SUBSET Records]
NoSnapshot  == [length |-> 0]

NewFile == [length |-> 1, root |-> NoRoot, version |-> 0, schema |-> Empty, records |-> {}]
DtoStored == file.root # NoRoot

\* SchemaRegistry: the names that a type id stands for.
NamesOf(dto, k, id) == {n \in Names : dto.ids[k][n] = id}

------------------------------------------------------------------------------
\* Writing schemas.

\* write_schema_dto: a new chain at the end of the file.
Written(f, dto) ==
    [f EXCEPT !.schema = dto, !.root = f.length, !.version = @ + 1, !.length = @ + 1]

Injective(f) == \A x, y \in DOMAIN f : f[x] = f[y] => x = y

\* Ids for the new names: one after another from the counter.
Numberings(new, first) ==
    {f \in [new -> first..(first + Cardinality(new) - 1)] : Injective(f)}

NewNames(ast, dto, k) == {n \in Names : ast[k][n] # Undefined /\ dto.ids[k][n] = NoId}

\* Mutant: the ids of names that are not defined any more are dropped.
AssignedMutant(ast, dto, number) ==
    [defs |-> ast,
     ids  |-> [k \in Kinds |-> [n \in Names |->
                  IF n \in NewNames(ast, dto, k) THEN number[k][n]
                  ELSE IF ast[k][n] = Undefined THEN NoId ELSE dto.ids[k][n]]],
     next |-> [k \in Kinds |-> dto.next[k] + Cardinality(NewNames(ast, dto, k))]]

\* assign_type_ids: names keep their ids, those without a definition too.
Assigned(ast, dto, number) ==
    [defs |-> ast,
     ids  |-> [k \in Kinds |-> [n \in Names |->
                  IF n \in NewNames(ast, dto, k) THEN number[k][n] ELSE dto.ids[k][n]]],
     next |-> [k \in Kinds |-> dto.next[k] + Cardinality(NewNames(ast, dto, k))]]

\* Bounds: the file has room, and ids are left (apply_schema does not look: its counter wraps).
HasRoom(f) == f.length < MaxLength
IdsLeft(ast, k) == file.schema.next[k] + Cardinality(NewNames(ast, file.schema, k)) <= LastId

Saved(ast, f) ==
    \E number \in [Kinds -> UNION {Numberings(NewNames(ast, file.schema, k), file.schema.next[k]) : k \in Kinds}] :
        /\ \A k \in Kinds : number[k] \in Numberings(NewNames(ast, file.schema, k), file.schema.next[k])
        /\ f = Written(file, Assigned(ast, file.schema, number))

\* apply_schema, save_schema
ApplySchema(ast) ==
    /\ HasRoom(file) /\ \A k \in Kinds : IdsLeft(ast, k)
    /\ Saved(ast, file')
    /\ UNCHANGED <<cache, snapshot>>

\* An apply_schema that fails while it removes the values of dropped fields: its own snapshot
\* is restored, and the cache cleared.
ApplyFails ==
    /\ DtoStored /\ cache' = NoCache
    /\ UNCHANGED <<file, snapshot>>

\* register_dynamic_type: an id only for a name that has none, and only if another one is left
\* for the counter.
Registered(k, n) ==
    [file.schema EXCEPT !.ids[k][n] = file.schema.next[k], !.next[k] = @ + 1]
MayRegister(k, n) ==
    /\ DtoStored /\ HasRoom(file)
    /\ file.schema.ids[k][n] = NoId /\ file.schema.next[k] < LastId

\* A dynamic label call whose own write fails: the name stays.
RegisterName(k, n) ==
    /\ MayRegister(k, n)
    /\ file' = Written(file, Registered(k, n))
    /\ UNCHANGED <<cache, snapshot>>

------------------------------------------------------------------------------
\* Records, reads, transactions.

Record(k, id, n) == [kind |-> k, id |-> id, name |-> n]

\* Bound
HasRecordsLeft == Cardinality(file.records) < MaxStored

\* A call that gives a record a type or a label by name; the file may grow by a page.
InsertRecord(k, n) ==
    /\ DtoStored /\ file.schema.ids[k][n] # NoId /\ HasRecordsLeft
    /\ \E length \in {file.length, file.length + 1} :
        /\ length <= MaxLength
        /\ file' = [file EXCEPT !.records = @ \cup {Record(k, file.schema.ids[k][n], n)},
                                !.length = length]
    /\ UNCHANGED <<cache, snapshot>>

\* insert_node_with_dynamic_labels, add_node_label_dynamic, add_edge_label_dynamic
InsertDynamic(k, n) ==
    /\ MayRegister(k, n) /\ HasRecordsLeft
    /\ file' = [Written(file, Registered(k, n))
                   EXCEPT !.records = @ \cup {Record(k, file.schema.next[k], n)}]
    /\ UNCHANGED <<cache, snapshot>>

Delete(r) ==
    /\ r \in file.records
    /\ file' = [file EXCEPT !.records = @ \ {r}]
    /\ UNCHANGED <<cache, snapshot>>

\* The fields of every defined type, by its id.
DeclaredFields(dto) ==
    {<<d[1], dto.ids[d[1]][d[2]], dto.defs[d[1]][d[2]]>> :
        d \in {x \in Kinds \X Names : dto.defs[x[1]][x[2]] # Undefined}}

CacheMatches == cache.version = file.version /\ cache.root = file.root

\* declared_fields, by get_node_properties and get_edge_properties
ReadDeclared ==
    /\ DtoStored /\ ~ CacheMatches
    /\ cache' = [version |-> file.version, root |-> file.root, fields |-> DeclaredFields(file.schema)]
    /\ UNCHANGED <<file, snapshot>>

\* begin_transaction, commit_transaction
TakeSnapshot ==
    /\ snapshot = NoSnapshot /\ snapshot' = file
    /\ UNCHANGED <<file, cache>>

DropSnapshot ==
    /\ snapshot # NoSnapshot /\ snapshot' = NoSnapshot
    /\ UNCHANGED <<file, cache>>

\* Mutant: a rollback keeps the cache.
CacheRestoredMutant == cache
\* A schema written later can have the version and the root of one that was rolled back.
CacheRestored == NoCache

\* rollback_transaction: restore_snapshot
RestoreSnapshot ==
    /\ snapshot # NoSnapshot /\ snapshot' = NoSnapshot
    /\ file' = snapshot /\ cache' = CacheRestored

\* Mutant: the definitions are saved anew, which numbers the types from 1.
CopiedMutant(dto) ==
    Assigned(dto.defs, Empty,
             [k \in Kinds |-> CHOOSE f \in Numberings(NewNames(dto.defs, Empty, k), 1) : TRUE])
\* copy_schema: as it is stored.
Copied(dto) == dto

\* vacuum: a new file with the schema, and the records under the ids they had.
Vacuum ==
    /\ file' = [(IF DtoStored THEN Written(NewFile, Copied(file.schema)) ELSE NewFile)
                   EXCEPT !.records = file.records]
    /\ cache' = NoCache
    /\ UNCHANGED snapshot

\* close and open
Reopen ==
    /\ file' = IF snapshot = NoSnapshot THEN file ELSE snapshot
    /\ cache' = NoCache /\ snapshot' = NoSnapshot

\* The process dies in a transaction: what it had written stays.
Die ==
    /\ snapshot # NoSnapshot
    /\ cache' = NoCache /\ snapshot' = NoSnapshot
    /\ UNCHANGED file

SchemaInit == file = NewFile /\ cache = NoCache /\ snapshot = NoSnapshot

SchemaNext ==
    \/ \E ast \in Schemas : ApplySchema(ast)
    \/ ApplyFails
    \/ \E k \in Kinds, n \in Names : RegisterName(k, n) \/ InsertRecord(k, n) \/ InsertDynamic(k, n)
    \/ \E r \in file.records : Delete(r)
    \/ ReadDeclared
    \/ TakeSnapshot \/ DropSnapshot \/ RestoreSnapshot
    \/ Vacuum \/ Reopen \/ Die

SchemaSpec == SchemaInit /\ [][SchemaNext]_svars

------------------------------------------------------------------------------
\* Properties.

\* A record is read under the name it was inserted with and under no other, whatever schemas
\* were applied, names registered or transactions rolled back since: an id never moves to
\* another type, not even after its type was removed or the file rebuilt.
TypesKeepNames ==
    \A r \in file.records : DtoStored /\ NamesOf(file.schema, r.kind, r.id) = {r.name}

\* A cache that the next read would take holds what the stored schema says.
CacheFresh == DtoStored /\ CacheMatches => cache.fields = DeclaredFields(file.schema)
=============================================================================
