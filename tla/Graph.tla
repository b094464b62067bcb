-------------------------------- MODULE Graph --------------------------------
(***************************************************************************)
(* The calls of Database (db.rs) on nodes, edges and schemas, each a whole *)
(* call.  Four structures have to agree after every one of them: the       *)
(* records, the property store with its values and label lists, the label  *)
(* index and the property index.                                           *)
(*                                                                         *)
(* These are taken at the level of what their own modules promise: Topology*)
(* for records, PropertyPages for values, LabelIndex for the label index.  *)
(* A failed call leaves the state alone: it checks before it writes, or    *)
(* puts a snapshot back (PageStore).  A type stands for its id; an absent  *)
(* schema is one that defines no type.                                     *)
(***************************************************************************)
EXTENDS Integers, FiniteSets, Functions

CONSTANTS
    Nodes, Edges,             \* record ids
    NodeTypes, EdgeTypes,     \* registered type ids
    Fields,                   \* field names
    Strings, Numbers, Null,   \* JSON values of properties
    IntOf, TextOf,            \* the number a string reads as, the text of a number
    NoValue,                  \* what a failed conversion returns
    NodeInputs, EdgeInputs,   \* property maps handed to the calls
    Schemas,                  \* schemas handed to apply_schema
    SettledMarks,             \* bound: no @index or @unique comes to a field with values
    FreshIds                  \* bound: no label call names a deleted record

\* FieldDef: a type and a mark; a unique field is indexed as well.
FieldDefs == [type : {"String", "Int"}, mark : {"plain", "index", "unique"}]

\* Properties of a record, and the fields of a type.
PropMaps  == UNION {[F -> Strings \cup Numbers \cup {Null}] : F \in SUBSET Fields}
FieldMaps == UNION {[F -> FieldDefs] : F \in SUBSET Fields}

ASSUME GraphAssumption ==
    /\ Nodes \cap Edges = {} /\ NodeTypes \cap EdgeTypes = {}
    /\ Strings \cap Numbers = {} /\ {Null, NoValue} \cap (Strings \cup Numbers) = {}
    /\ IntOf \in [Strings -> Numbers \cup {NoValue}] /\ TextOf \in [Numbers -> Strings]
    /\ SettledMarks \in BOOLEAN /\ FreshIds \in BOOLEAN
    /\ NodeInputs \cup EdgeInputs \subseteq PropMaps
    /\ \A new \in Schemas : DOMAIN new \subseteq NodeTypes \cup EdgeTypes /\ \A t \in DOMAIN new : new[t] \in FieldMaps

VARIABLES
    schema,       \* the defined types: field -> its type and its mark
    used,         \* the record ids in use
    records,      \* the record of each id
    cells,        \* how often each value and label list lies in the property store
    labelIndex,   \* how often each node is listed under each type
    propIndex     \* entries <<type, field, value, node>>

vars == <<schema, used, records, cells, labelIndex, propIndex>>

Types == NodeTypes \cup EdgeTypes
Ids   == Nodes \cup Edges

NoRecord == [type |-> NoValue, props |-> <<>>, labels |-> {}, ends |-> <<>>]

------------------------------------------------------------------------------
\* The schema.

Declared(t) == IF t \in DOMAIN schema THEN DOMAIN schema[t] ELSE {}

\* indexed_paths_for_type: only node types have them.
Indexed(t) == {f \in Declared(t) : t \in NodeTypes /\ schema[t][f].mark # "plain"}
Unique(t)  == {f \in Indexed(t) : schema[t][f].mark = "unique"}

\* value_matches_type
Matches(v, type) == v = Null \/ v \in (IF type = "Int" THEN Numbers ELSE Strings)

\* validate_properties, called for types with a definition only.
Valid(t, props) ==
    t \in DOMAIN schema =>
        \A f \in DOMAIN props : f \in Declared(t) /\ Matches(props[f], schema[t][f].type)

\* convert_value: NoValue for a value without an exact counterpart.
Converted(v, type) ==
    IF Matches(v, type) THEN v ELSE IF v \in Strings THEN IntOf[v] ELSE TextOf[v]

------------------------------------------------------------------------------
\* Reading.

\* get_node_properties, get_edge_properties: values of undeclared fields are hidden.
Visible(r) ==
    LET rec == records[r]
    IN  IF rec.type \in DOMAIN schema
        THEN Restrict(rec.props, DOMAIN rec.props \cap Declared(rec.type))
        ELSE rec.props

Holds(r, f, v) == f \in DOMAIN records[r].props /\ records[r].props[f] = v

\* The topology scan of storage/index.rs, by primary type.
Scanned(t, f, v) == {n \in Nodes \cap used : records[n].type = t /\ Holds(n, f, v)}

\* find_all_nodes: candidates of the index, confirmed by their stored value, or
\* a scan of the nodes in use.
FindAll(t, f, v) ==
    IF f \in Indexed(t)
    THEN {n \in Nodes : <<t, f, v, n>> \in propIndex /\ Holds(n, f, v)}
    ELSE Scanned(t, f, v)

\* Mutant: only inserts are checked.
TakenOnInsert(t, props, exclude) ==
    \E f \in Unique(t) \cap DOMAIN props :
        exclude = {} /\ props[f] # Null /\ FindAll(t, f, props[f]) # {}

\* check_unique fails: another node holds a value of a unique field.
Taken(t, props, exclude) ==
    \E f \in Unique(t) \cap DOMAIN props :
        props[f] # Null /\ FindAll(t, f, props[f]) \ exclude # {}

\* get_node_type_ids, get_edge_type_ids
TypeIds(r) == {records[r].type} \cup records[r].labels

------------------------------------------------------------------------------
\* Writing.

\* References of the records S to their values and to their label lists, as
\* <<record, kind, content>>.
PropRefs(recs, S)  == {<<r, "props", recs[r].props>> : r \in {q \in S : recs[q].props # <<>>}}
LabelRefs(recs, S) == {<<r, "labels", recs[r].labels>> : r \in {q \in S : recs[q].labels # {}}}

\* The cells that references point to, counted.
Count(refs) ==
    [c \in {<<x[2], x[3]>> : x \in refs} |-> Cardinality({x \in refs : <<x[2], x[3]>> = c})]

\* PropertyStore::write for each of the written references and PropertyStore::free
\* for each of the freed ones.
Stored(written, freed) ==
    LET new == Count(written)
        old == Count(freed)
        at(f, c) == IF c \in DOMAIN f THEN f[c] ELSE 0
        now(c) == at(cells, c) + at(new, c) - at(old, c)
    IN  [c \in {d \in DOMAIN cells \cup DOMAIN new \cup DOMAIN old : now(d) # 0} |-> now(c)]

\* LabelIndex::add_new, which does not look for the node, and LabelIndex::remove,
\* which takes out one entry if there is one.
Listed(idx, n, types)   == [idx EXCEPT ![n] = [t \in NodeTypes |-> IF t \in types THEN @[t] + 1 ELSE @[t]]]
Unlisted(idx, n, types) == [idx EXCEPT ![n] = [t \in NodeTypes |-> IF t \in types /\ @[t] > 0 THEN @[t] - 1 ELSE @[t]]]

\* The entries of maintain_property_index and remove_index_entries.
Entries(t, n, props, fields) ==
    {<<t, f, props[f], n>> : f \in {g \in fields \cap DOMAIN props : props[g] # Null}}

\* set_additional_labels, set_edge_additional_labels: the list as it is stored.
Normalized(t, labels) == labels \ {t}

\* A freed slot keeps its record; the record matters to label calls only, which
\* do not look whether the slot is in use.
Freed(S) == IF FreshIds THEN [r \in Ids |-> IF r \in S THEN NoRecord ELSE records[r]]
            ELSE records

------------------------------------------------------------------------------
\* Nodes and edges.

\* insert_node, insert_node_with_labels; insert_node_by_name checks Valid first.
InsertNode(n, t, props, labels) ==
    LET rec == [type |-> t, props |-> props, labels |-> Normalized(t, labels), ends |-> <<>>]
    IN  /\ n \notin used /\ ~Taken(t, props, {})
        /\ used' = used \cup {n}
        /\ records' = [records EXCEPT ![n] = rec]
        /\ cells' = Stored(PropRefs(records', {n}) \cup LabelRefs(records', {n}), {})
        /\ labelIndex' = Listed(labelIndex, n, {t} \cup rec.labels)
        /\ propIndex' = propIndex \cup Entries(t, n, props, Indexed(t))
        /\ UNCHANGED schema

\* insert_edge, insert_edge_with_labels; insert_edge_by_name checks Valid first.
InsertEdge(e, t, from, to, props, labels) ==
    /\ e \notin used /\ from \in used /\ to \in used
    /\ used' = used \cup {e}
    /\ records' = [records EXCEPT ![e] = [type |-> t, props |-> props,
                       labels |-> Normalized(t, labels), ends |-> <<from, to>>]]
    /\ cells' = Stored(PropRefs(records', {e}) \cup LabelRefs(records', {e}), {})
    /\ UNCHANGED <<schema, labelIndex, propIndex>>

\* update_node_properties, update_edge_properties
UpdateProperties(r, props) ==
    LET t == records[r].type
        old == records[r].props
    IN  /\ r \in used /\ Valid(t, props)
        /\ r \in Nodes => ~Taken(t, props, {r})
        /\ records' = [records EXCEPT ![r].props = props]
        /\ cells' = Stored(PropRefs(records', {r}), PropRefs(records, {r}))
        /\ propIndex' = IF r \in Nodes
                        THEN (propIndex \ Entries(t, r, old, Indexed(t)))
                                 \cup Entries(t, r, props, Indexed(t))
                        ELSE propIndex
        /\ UNCHANGED <<schema, used, labelIndex>>

\* patch_node_properties, patch_edge_properties: the patch over what is visible.
Patched(patch, props) ==
    [f \in DOMAIN patch \cup DOMAIN props |-> IF f \in DOMAIN patch THEN patch[f] ELSE props[f]]

PatchProperties(r, patch) == UpdateProperties(r, Patched(patch, Visible(r)))

\* delete_edge
DeleteEdge(e) ==
    /\ e \in used
    /\ used' = used \ {e}
    /\ records' = Freed({e})
    /\ cells' = Stored({}, PropRefs(records, {e}) \cup LabelRefs(records, {e}))
    /\ UNCHANGED <<schema, labelIndex, propIndex>>

Incident(n) == {e \in Edges \cap used : n \in {records[e].ends[1], records[e].ends[2]}}

\* Mutant: the cascade frees the slots of the edges and not their values.
DeleteNodeLeaks(n) ==
    LET gone == {n} \cup Incident(n)
        rec  == records[n]
    IN  /\ n \in used
        /\ used' = used \ gone
        /\ records' = Freed(gone)
        /\ cells' = Stored({}, PropRefs(records, {n}) \cup LabelRefs(records, {n}))
        /\ labelIndex' = Unlisted(labelIndex, n, TypeIds(n))
        /\ propIndex' = propIndex \ Entries(rec.type, n, rec.props, Indexed(rec.type))
        /\ UNCHANGED schema

\* delete_node with its cascade
DeleteNode(n) ==
    LET gone == {n} \cup Incident(n)
        rec  == records[n]
    IN  /\ n \in used
        /\ used' = used \ gone
        /\ records' = Freed(gone)
        /\ cells' = Stored({}, PropRefs(records, gone) \cup LabelRefs(records, gone))
        /\ labelIndex' = Unlisted(labelIndex, n, TypeIds(n))
        /\ propIndex' = propIndex \ Entries(rec.type, n, rec.props, Indexed(rec.type))
        /\ UNCHANGED schema

------------------------------------------------------------------------------
\* Labels.

\* A label call reads the record of whatever id it is given.  The model follows
\* it to freed records without a label list: what the reference to a freed list
\* reads is up to PropertyPages.
Labelled(r) == r \in used \/ (~FreshIds /\ records[r] # NoRecord /\ records[r].labels = {})

\* Mutant: a label taken away stays in the index.
SetNodeLabelsOnlyLists(n, labels) ==
    LET rec == records[n]
        new == Normalized(rec.type, labels)
    IN  /\ Labelled(n)
        /\ records' = [records EXCEPT ![n].labels = new]
        /\ cells' = Stored(LabelRefs(records', {n}), LabelRefs(records, {n}))
        /\ labelIndex' = Listed(labelIndex, n, new \ rec.labels)
        /\ UNCHANGED <<schema, used, propIndex>>

\* set_additional_labels
SetNodeLabels(n, labels) ==
    LET rec == records[n]
        new == Normalized(rec.type, labels)
    IN  /\ Labelled(n)
        /\ records' = [records EXCEPT ![n].labels = new]
        /\ cells' = Stored(LabelRefs(records', {n}), LabelRefs(records, {n}))
        /\ labelIndex' = Listed(Unlisted(labelIndex, n, rec.labels \ new), n, new \ rec.labels)
        /\ UNCHANGED <<schema, used, propIndex>>

AddNodeLabel(n, t)    == t \notin records[n].labels /\ SetNodeLabels(n, records[n].labels \cup {t})
RemoveNodeLabel(n, t) == SetNodeLabels(n, records[n].labels \ {t})

\* set_edge_additional_labels: the label index knows nodes only.
SetEdgeLabels(e, labels) ==
    /\ Labelled(e)
    /\ records' = [records EXCEPT ![e].labels = Normalized(records[e].type, labels)]
    /\ cells' = Stored(LabelRefs(records', {e}), LabelRefs(records, {e}))
    /\ UNCHANGED <<schema, used, labelIndex, propIndex>>

AddEdgeLabel(e, t)    == t \notin records[e].labels /\ SetEdgeLabels(e, records[e].labels \cup {t})
RemoveEdgeLabel(e, t) == SetEdgeLabels(e, records[e].labels \ {t})

------------------------------------------------------------------------------
\* Schema calls.

\* rids_of_kind and the check of the primary type: the records of a type that
\* have values.
OfType(t) ==
    {r \in Ids : /\ IF t \in NodeTypes THEN r \in Nodes /\ labelIndex[r][t] > 0 ELSE r \in used
                 /\ records[r].type = t /\ records[r].props # <<>>}

\* validate_migration
Allowed(new) ==
    \A t \in DOMAIN schema \cap DOMAIN new : \A f \in Declared(t) \cap DOMAIN new[t] :
        new[t][f].type = schema[t][f].type

\* The bound SettledMarks: a mark comes and goes with its field, and a type is
\* given marked fields before it is given nodes.
Settled(new) ==
    /\ DOMAIN schema \subseteq DOMAIN new
    /\ \A t \in DOMAIN new : \A f \in DOMAIN new[t] :
           IF t \in DOMAIN schema
           THEN f \in Declared(t) => new[t][f].mark = schema[t][f].mark
           ELSE new[t][f].mark # "plain" => \A n \in Nodes \cap used : records[n].type # t

\* plan_field_purges: the types whose field names change, and what they keep.
Changing(new) == {t \in DOMAIN schema \cap DOMAIN new : DOMAIN new[t] # Declared(t)}
Keep(new, t)  == Declared(t) \cap DOMAIN new[t]

\* Mutant: records of types that lose a field are rewritten, of types that gain
\* one they are not, so that an undeclared value comes to show.
PurgedOnLossOnly(new) ==
    UNION {{r \in OfType(t) : ~(DOMAIN records[r].props \subseteq Keep(new, t))} :
              t \in {u \in Changing(new) : ~(Declared(u) \subseteq DOMAIN new[u])}}

\* purge_node_fields, purge_edge_fields: the records to rewrite.
Purged(new) ==
    UNION {{r \in OfType(t) : ~(DOMAIN records[r].props \subseteq Keep(new, t))} : t \in Changing(new)}

ApplySchema(new) ==
    LET kept(rec) == Restrict(rec.props, DOMAIN rec.props \cap Keep(new, rec.type))
        dropped(t) == Indexed(t) \ DOMAIN new[t]
        gone == Purged(new)
    IN  /\ Allowed(new)
        /\ SettledMarks => Settled(new)
        /\ schema' = new
        /\ records' = [r \in Ids |-> IF r \in gone THEN [records[r] EXCEPT !.props = kept(records[r])]
                                     ELSE records[r]]
        /\ cells' = Stored(PropRefs(records', gone), PropRefs(records, gone))
        /\ propIndex' = propIndex \ UNION {Entries(records[n].type, n, records[n].props,
                                               dropped(records[n].type)) : n \in gone \cap Nodes}
        /\ UNCHANGED <<used, labelIndex>>

\* The definition of type t with field f called g.
RenamedDef(t, f, g) == [h \in (Declared(t) \ {f}) \cup {g} |-> schema[t][IF h = g THEN f ELSE h]]

\* The properties with the value of f under g; a leftover under g is dropped.
RenamedProps(props, f, g) ==
    [h \in (DOMAIN props \ {f, g}) \cup (IF f \in DOMAIN props THEN {g} ELSE {}) |->
        props[IF h = g THEN f ELSE h]]

\* Mutant: a rename leaves the property index alone.
RenameFieldKeepsIndex(t, f, g) ==
    LET touched == {r \in OfType(t) : {f, g} \cap DOMAIN records[r].props # {}}
    IN  /\ f \in Declared(t) /\ g \notin Declared(t)
        /\ schema' = [schema EXCEPT ![t] = RenamedDef(t, f, g)]
        /\ records' = [r \in Ids |-> IF r \in touched
                           THEN [records[r] EXCEPT !.props = RenamedProps(@, f, g)] ELSE records[r]]
        /\ cells' = Stored(PropRefs(records', touched), PropRefs(records, touched))
        /\ UNCHANGED <<used, labelIndex, propIndex>>

\* rename_node_field, rename_edge_field
RenameField(t, f, g) ==
    LET touched == {r \in OfType(t) : {f, g} \cap DOMAIN records[r].props # {}}
        moved == IF f \in Indexed(t) THEN touched \cap Nodes ELSE {}
    IN  /\ f \in Declared(t) /\ g \notin Declared(t)
        /\ schema' = [schema EXCEPT ![t] = RenamedDef(t, f, g)]
        /\ records' = [r \in Ids |-> IF r \in touched
                           THEN [records[r] EXCEPT !.props = RenamedProps(@, f, g)] ELSE records[r]]
        /\ cells' = Stored(PropRefs(records', touched), PropRefs(records, touched))
        /\ propIndex' = (propIndex \ UNION {Entries(t, n, records[n].props, {f}) : n \in moved})
                            \cup UNION {Entries(t, n, RenamedProps(records[n].props, f, g), {g}) : n \in moved}
        /\ UNCHANGED <<used, labelIndex>>

\* The value that a change of type leaves in the place of v: null for one that
\* cannot be converted.
ValueAs(v, to) == IF Converted(v, to) = NoValue THEN Null ELSE Converted(v, to)

\* The records with a value in the field, and those among them whose value changes.
StoredIn(t, f)     == {r \in OfType(t) : f \in DOMAIN records[r].props /\ records[r].props[f] # Null}
Replaced(t, f, to) == {r \in StoredIn(t, f) : ValueAs(records[r].props[f], to) # records[r].props[f]}

PropsAs(r, f, to) == [records[r].props EXCEPT ![f] = ValueAs(@, to)]

\* A record that changes would come to the value that another keeps or comes to.
ClashAs(t, f, to) ==
    \E r \in Replaced(t, f, to) : \E o \in StoredIn(t, f) \ {r} :
        LET v == ValueAs(records[r].props[f], to)
        IN  /\ v # Null /\ ValueAs(records[o].props[f], to) = v
            /\ o \in Replaced(t, f, to) \/ <<t, f, v, o>> \in propIndex

\* change_node_field_type, change_edge_field_type.  With reject, a value that cannot
\* be converted lets the call change nothing; two nodes that come to the same value
\* of a unique field fail it as well.
ChangeFieldType(t, f, to, reject) ==
    LET changed == Replaced(t, f, to)
        moved   == IF f \in Indexed(t) THEN changed \cap Nodes ELSE {}
    IN  /\ f \in Declared(t) /\ schema[t][f].type # to
        /\ reject => \A r \in StoredIn(t, f) : Converted(records[r].props[f], to) # NoValue
        /\ f \in Unique(t) => ~ClashAs(t, f, to)
        /\ schema' = [schema EXCEPT ![t][f].type = to]
        /\ records' = [r \in Ids |-> IF r \in changed THEN [records[r] EXCEPT !.props = PropsAs(r, f, to)]
                                     ELSE records[r]]
        /\ cells' = Stored(PropRefs(records', changed), PropRefs(records, changed))
        /\ propIndex' = (propIndex \ UNION {Entries(t, n, records[n].props, {f}) : n \in moved})
                            \cup UNION {Entries(t, n, PropsAs(n, f, to), {f}) : n \in moved}
        /\ UNCHANGED <<used, labelIndex>>

------------------------------------------------------------------------------
\* Vacuum.

\* vacuum: every live record is inserted into an empty database with what its
\* reads return; ids[r] is the id it gets there.
Vacuum(ids) ==
    LET live(r) == CHOOSE q \in used : ids[q] = r
        copy(r) == [type |-> records[r].type, props |-> Visible(r), labels |-> records[r].labels,
                    ends |-> [i \in DOMAIN records[r].ends |-> ids[records[r].ends[i]]]]
        nodes == {ids[n] : n \in used \cap Nodes}
        clash == \E n \in used \cap Nodes : \E o \in (used \cap Nodes) \ {n} :
                     /\ records[n].type = records[o].type
                     /\ \E f \in Unique(records[n].type) \cap DOMAIN records[n].props :
                            records[n].props[f] # Null /\ Holds(o, f, records[n].props[f])
    IN  /\ ~clash
        /\ used' = {ids[r] : r \in used}
        /\ records' = [r \in Ids |-> IF r \in used' THEN copy(live(r)) ELSE NoRecord]
        /\ cells' = Count(PropRefs(records', used') \cup LabelRefs(records', used'))
        /\ labelIndex' = [n \in Nodes |-> [t \in NodeTypes |-> IF n \in nodes /\ t \in TypeIds(n)' THEN 1 ELSE 0]]
        /\ propIndex' = UNION {Entries(records'[n].type, n, records'[n].props,
                                       Indexed(records'[n].type)) : n \in nodes}
        /\ UNCHANGED schema

\* The ids vacuum may hand out: nodes to nodes and edges to edges, one to one.
Renumberings == {ids \in Injection(used, Ids) : \A r \in used : ids[r] \in Nodes <=> r \in Nodes}

------------------------------------------------------------------------------

Init ==
    /\ schema = <<>> /\ used = {} /\ records = [r \in Ids |-> NoRecord]
    /\ cells = <<>> /\ propIndex = {}
    /\ labelIndex = [n \in Nodes |-> [t \in NodeTypes |-> 0]]

NodeCalls ==
    \/ \E n \in Nodes, t \in NodeTypes, p \in NodeInputs, labels \in SUBSET NodeTypes :
           InsertNode(n, t, p, labels)
    \/ \E n \in Nodes : DeleteNode(n)
    \/ \E n \in Nodes, p \in NodeInputs : UpdateProperties(n, p) \/ PatchProperties(n, p)
    \/ \E n \in Nodes, t \in NodeTypes : AddNodeLabel(n, t) \/ RemoveNodeLabel(n, t)

EdgeCalls ==
    \/ \E e \in Edges, t \in EdgeTypes, from, to \in Nodes, p \in EdgeInputs, labels \in SUBSET EdgeTypes :
           InsertEdge(e, t, from, to, p, labels)
    \/ \E e \in Edges : DeleteEdge(e)
    \/ \E e \in Edges, p \in EdgeInputs : UpdateProperties(e, p) \/ PatchProperties(e, p)
    \/ \E e \in Edges, t \in EdgeTypes : AddEdgeLabel(e, t) \/ RemoveEdgeLabel(e, t)

SchemaCalls ==
    \/ \E new \in Schemas : ApplySchema(new)
    \/ \E t \in DOMAIN schema, f, g \in Fields : RenameField(t, f, g)
    \/ \E t \in DOMAIN schema, f \in Fields, to \in {"String", "Int"}, reject \in BOOLEAN :
           ChangeFieldType(t, f, to, reject)

Next == NodeCalls \/ EdgeCalls \/ SchemaCalls \/ \E ids \in Renumberings : Vacuum(ids)

Spec == Init /\ [][Next]_vars

------------------------------------------------------------------------------
\* Properties.

\* The property store holds one cell for each value and each label list of the
\* records in use and no other: no call leaks a cell, frees one twice or lets two
\* records share one, through updates, cascades, purges, renames and conversions.
CellsExact == cells = Count(PropRefs(records, used) \cup LabelRefs(records, used))

\* The label index lists every node in use once under its primary type and once
\* under each additional label, and nothing else, so that list_nodes and
\* count_nodes agree with a scan.
LabelIndexExact ==
    \A n \in Nodes, t \in NodeTypes :
        labelIndex[n][t] = IF n \in used /\ t \in TypeIds(n) THEN 1 ELSE 0

\* No free node id is listed under any type, so that an id just allocated cannot be
\* listed yet and add_new need not look (insert_node, db.rs:242-243).
FreeIdsUnlisted == \A n \in Nodes \ used, t \in NodeTypes : labelIndex[n][t] = 0

\* The property index has the entries of the nodes in use under the marks of the
\* present schema, so that find_all_nodes finds with the index what a scan finds.
PropIndexExact ==
    propIndex = UNION {Entries(records[n].type, n, records[n].props, Indexed(records[n].type))
                          : n \in Nodes \cap used}

\* No two nodes of a type hold the same value of a @unique field, also after
\* renames, conversions that merge values, and reuse of ids.
UniqueHolds ==
    \A t \in NodeTypes : \A f \in Unique(t) : \A v \in Strings \cup Numbers :
        \A n, o \in Scanned(t, f, v) : n = o

\* An insert never stores a value of a @unique field that another node of the type
\* holds ("insert / update check the index before writing", ARCHITECTURE.md:237).
InsertsKeepUnique ==
    [][\A n \in Nodes, t \in NodeTypes, p \in NodeInputs, labels \in SUBSET NodeTypes :
           InsertNode(n, t, p, labels) =>
               \A f \in Unique(t) \cap DOMAIN p : p[f] # Null =>
                   \A o \in Nodes \cap used : records[o].type = t => ~Holds(o, f, p[f])]_vars

\* apply_schema shows of each record exactly the values of the fields that its
\* type declares before and after: none is lost, and none that was removed, or
\* stored without being declared, comes back under a field of the same name.
SchemaKeepsValues ==
    [][schema' # schema => \A new \in Schemas : ApplySchema(new) =>
           \A r \in used : records[r].type \in DOMAIN schema \cap DOMAIN new =>
               Visible(r)' = Restrict(Visible(r), DOMAIN Visible(r) \cap DOMAIN new[records[r].type])]_vars
==============================================================================
