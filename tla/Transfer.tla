------------------------------- MODULE Transfer -------------------------------
(***************************************************************************)
(* Export and import of the command line (commands/export.rs, import.rs):  *)
(* a source database is written to a CSV or JSON file, and files are read  *)
(* into a target database row by row.  An import that stops on the way, by *)
(* an error or a death of the process, keeps the rows it has inserted: the *)
(* log replays them (WalStore).                                            *)
(*                                                                         *)
(* A database is a sequence of nodes and a sequence of edges, in the order *)
(* of their ids; an edge names its ends by their places.  A value is a     *)
(* pair of its kind and its payload.                                       *)
(***************************************************************************)
EXTENDS Sequences, SequencesExt, Functions, Scans

CONSTANTS
    Sources, Destinations,   \* databases to export from and to import into
    NodeFields,         \* node type -> field -> kinds of the values it takes
    EdgeFields,         \* the same of edge types
    EdgeEnds,           \* edge type -> <<type of from, type of to>> (resolve_endpoint_type)
    UniqueKeys,         \* fields with @unique
    TextOf,             \* value that is neither string nor null -> its text in a cell
    Inferred,           \* text that reads as another kind -> the value it reads as
    Wide,               \* texts of 19 bytes or more with a character across one of the cuts
    Places,             \* place of a node -> "page:slot"
    MaxImports          \* bound: imports of the file

\* The text of a number or a truth value reads as that value.
Readback(v) == v \in DOMAIN TextOf /\ TextOf[v] \in DOMAIN Inferred /\ Inferred[TextOf[v]] = v

\* A database: values are pairs, edges join nodes of it.
WellFormed(d) ==
    /\ DOMAIN d = {"nodes", "edges"}
    /\ d.nodes \in Seq(Range(d.nodes)) /\ d.edges \in Seq(Range(d.edges))
    /\ \A n \in Range(d.nodes) :
        /\ n.props = [key \in DOMAIN n.props |-> n.props[key]]
        /\ \A v \in Range(n.props) : v = <<v[1], v[2]>> /\ (v[1] \in {"string", "null", "object"} \/ Readback(v))
    /\ \A e \in Range(d.edges) :
        /\ e = [type |-> e.type, from |-> e.from, to |-> e.to, props |-> e.props]
        /\ {e.from, e.to} \subseteq DOMAIN d.nodes

Everything == ""      \* no --type

ASSUME TransferAssumption ==
    /\ DOMAIN EdgeEnds = DOMAIN EdgeFields
    /\ DOMAIN NodeFields \cap DOMAIN EdgeFields = {} /\ Everything \notin DOMAIN NodeFields
    /\ MaxImports \in Nat
    /\ \A d \in Sources \cup Destinations : WellFormed(d)

VARIABLES
    source,   \* the database that is exported
    items,    \* the file: its format and its rows
    target,   \* the database that is imported into
    job       \* the process: what it does, what it has left, the ids it knows

xferVars == <<source, items, target, job>>

Str(s) == <<"string", s>>
Nil    == <<"null", "">>
IdKey  == "id"

NoItems == [format |-> "none", filter |-> "", nodes |-> <<>>, edges |-> <<>>]
Resting(count) == [phase |-> "idle", imports |-> count, nodes |-> <<>>, edges |-> <<>>, known |-> <<>>, ends |-> <<>>]

------------------------------------------------------------------------------
\* Reading a database.

\* A string in the property id, as a sequence of it or of nothing.
IdOf(props) ==
    IF IdKey \in DOMAIN props /\ props[IdKey][1] = "string" THEN <<props[IdKey][2]>> ELSE <<>>

\* list_nodes: a name that is not a node type filters nothing.
ListNodes(d, filter) ==
    Scan({k \in DOMAIN d.nodes : filter \in DOMAIN NodeFields => d.nodes[k].type = filter})

\* list_edges: a name that is not an edge type leaves nothing.
ListEdges(d, filter) ==
    LET places == Scan({k \in DOMAIN d.edges : filter = Everything \/ d.edges[k].type = filter})
    IN  [k \in DOMAIN places |-> d.edges[places[k]]]

------------------------------------------------------------------------------
\* Export.

\* json_value_to_csv
CellOf(v) == IF v[1] \in {"string", "null"} THEN v[2] ELSE TextOf[v]

\* The row of a record under the keys of the header; what it lacks is an empty cell.
Cells(props, keys) == [key \in keys |-> IF key \in DOMAIN props THEN CellOf(props[key]) ELSE ""]

\* The header has the keys of the first record.
HeaderOf(records) == IF records = <<>> THEN {} ELSE DOMAIN records[1].props

EndOr(id, other) == IF id = <<>> THEN other ELSE id[1]

\* export_csv: nodes or edges of one type.
CsvNodes(d, type) ==
    LET records == [k \in DOMAIN ListNodes(d, type) |-> d.nodes[ListNodes(d, type)[k]]]
    IN  [k \in DOMAIN records |-> [type |-> type, cells |-> Cells(records[k].props, HeaderOf(records))]]

CsvEdges(d, type) ==
    LET records == ListEdges(d, type)
        end(place) == EndOr(IdOf(d.nodes[place].props), Places[place])
    IN  [k \in DOMAIN records |->
            [type |-> type, from |-> end(records[k].from), to |-> end(records[k].to),
             cells |-> Cells(records[k].props, HeaderOf(records))]]

\* export_json: an end that is not listed or has no id is written as "".
JsonNodes(d, filter) ==
    [k \in DOMAIN ListNodes(d, filter) |->
        [type |-> d.nodes[ListNodes(d, filter)[k]].type, props |-> d.nodes[ListNodes(d, filter)[k]].props]]

JsonEdges(d, filter) ==
    LET listed == ToSet(ListNodes(d, filter))
        end(place) == IF place \in listed THEN EndOr(IdOf(d.nodes[place].props), "") ELSE ""
    IN  [k \in DOMAIN ListEdges(d, filter) |->
            LET e == ListEdges(d, filter)[k]
            IN  [type |-> e.type, from |-> end(e.from), to |-> end(e.to), props |-> e.props]]

ExportCsv(type) ==
    items' = [format |-> "csv", filter |-> type,
              nodes |-> IF type \in DOMAIN NodeFields THEN CsvNodes(source, type) ELSE <<>>,
              edges |-> IF type \in DOMAIN NodeFields THEN <<>> ELSE CsvEdges(source, type)]

ExportJson(filter) ==
    items' = [format |-> "json", filter |-> filter,
              nodes |-> JsonNodes(source, filter), edges |-> JsonEdges(source, filter)]

Export ==
    /\ job = Resting(0) /\ items = NoItems
    /\ \/ \E type \in DOMAIN NodeFields \cup DOMAIN EdgeFields : ExportCsv(type)
       \/ \E filter \in {Everything} \cup DOMAIN NodeFields \cup DOMAIN EdgeFields : ExportJson(filter)
    /\ UNCHANGED <<source, target, job>>

------------------------------------------------------------------------------
\* Import.

\* Mutant: cells stay texts.
InferMutant(cell) == Str(cell)
\* infer_csv_value
Infer(cell) == IF cell \in DOMAIN Inferred THEN Inferred[cell] ELSE Str(cell)

RowProps(row) ==
    IF items.format = "json" THEN row.props ELSE [key \in DOMAIN row.cells |-> Infer(row.cells[key])]

\* parse_csv, parse_json
Row(row) == [type |-> row.type, props |-> RowProps(row)]
EdgeRow(row) == [type |-> row.type, from |-> row.from, to |-> row.to, props |-> RowProps(row)]

\* chrono_parse_iso8601 cuts a text that long at fixed bytes, and panics inside a character: the
\* file cannot be imported.
Readable == items.format = "csv" => \A row \in ToSet(items.nodes \o items.edges) : Range(row.cells) \cap Wide = {}

\* node_id_to_rid, as a function from ids; a later node takes an id over.
Knowing(known, id, place) ==
    [x \in DOMAIN known \cup ToSet(id) |-> IF x \in ToSet(id) THEN place ELSE known[x]]

\* The ids of the nodes in the database.
KnownIn(d) ==
    LET with(id) == {k \in DOMAIN d.nodes : IdOf(d.nodes[k].props) = <<id>>}
        ids == UNION {ToSet(IdOf(d.nodes[k].props)) : k \in DOMAIN d.nodes}
    IN  [id \in ids |-> CHOOSE k \in with(id) : \A j \in with(id) : j <= k]

StartImport ==
    /\ job.phase \in {"idle", "done"} /\ job.imports < MaxImports /\ items # NoItems /\ Readable
    /\ job' = [phase |-> "import", imports |-> job.imports + 1,
               nodes |-> [k \in DOMAIN items.nodes |-> Row(items.nodes[k])],
               edges |-> [k \in DOMAIN items.edges |-> EdgeRow(items.edges[k])],
               known |-> KnownIn(target), ends |-> <<>>]
    /\ UNCHANGED <<source, items, target>>

\* validate_properties: null is a value of every field.
Valid(fields, props) ==
    \A key \in DOMAIN props : key \in DOMAIN fields /\ (props[key] = Nil \/ props[key][1] \in fields[key])

\* check_unique
Taken(props) ==
    \E k \in DOMAIN target.nodes, key \in UniqueKeys \cap DOMAIN props :
        /\ key \in DOMAIN target.nodes[k].props
        /\ props[key] # Nil /\ target.nodes[k].props[key] = props[key]

\* insert_node_by_name
NodeFits(row) == row.type \in DOMAIN NodeFields /\ Valid(NodeFields[row.type], row.props) /\ ~ Taken(row.props)

KnownAfter(row, place) == Knowing(job.known, IdOf(row.props), place)

ImportNode ==
    LET row == Head(job.nodes)
    IN  /\ job.phase = "import" /\ job.nodes # <<>> /\ NodeFits(row)
        /\ target' = [target EXCEPT !.nodes = Append(@, [type |-> row.type, props |-> row.props, labels |-> {}])]
        /\ job' = [job EXCEPT !.nodes = Tail(@), !.known = KnownAfter(row, Len(target.nodes) + 1)]
        /\ UNCHANGED <<source, items>>

\* insert_edge_by_name: the ends are looked up by the ids of the row.
EdgeFits(row) ==
    /\ {row.from, row.to} \subseteq DOMAIN job.known
    /\ row.type \in DOMAIN EdgeFields /\ Valid(EdgeFields[row.type], row.props)
    /\ EdgeEnds[row.type] = <<target.nodes[job.known[row.from]].type, target.nodes[job.known[row.to]].type>>

\* Mutant: the ends swapped.
EdgeMadeMutant(row) ==
    [type |-> row.type, from |-> job.known[row.to], to |-> job.known[row.from], props |-> row.props]
EdgeMade(row) ==
    [type |-> row.type, from |-> job.known[row.from], to |-> job.known[row.to], props |-> row.props]

ImportEdge ==
    LET row == Head(job.edges)
    IN  /\ job.phase = "import" /\ job.nodes = <<>> /\ job.edges # <<>> /\ EdgeFits(row)
        /\ target' = [target EXCEPT !.edges = Append(@, EdgeMade(row))]
        /\ job' = [job EXCEPT !.edges = Tail(@), !.ends = Append(@, <<Len(target.edges) + 1, row.from, row.to>>)]
        /\ UNCHANGED <<source, items>>

\* bail: the rows before stay.
Refused ==
    /\ job.phase = "import"
    /\ IF job.nodes # <<>> THEN ~ NodeFits(Head(job.nodes)) ELSE job.edges # <<>> /\ ~ EdgeFits(Head(job.edges))
    /\ job' = Resting(job.imports)
    /\ UNCHANGED <<source, items, target>>

\* A death, or an error of the file, between two rows.
Killed ==
    /\ job.phase = "import"
    /\ job' = Resting(job.imports)
    /\ UNCHANGED <<source, items, target>>

\* flush
Flush ==
    /\ job.phase = "import" /\ job.nodes = <<>> /\ job.edges = <<>>
    /\ job' = [job EXCEPT !.phase = "done"]
    /\ UNCHANGED <<source, items, target>>

TransferInit == source \in Sources /\ items = NoItems /\ target \in Destinations /\ job = Resting(0)

TransferNext == Export \/ StartImport \/ ImportNode \/ ImportEdge \/ Refused \/ Killed \/ Flush

TransferSpec == TransferInit /\ [][TransferNext]_xferVars

------------------------------------------------------------------------------
\* Properties.

\* Every edge that an import inserts joins nodes that carry the ids its row names, in that order,
\* in a database that had nodes of its own, or parts of the same file from an import that failed,
\* and when ids occur twice.
EdgesJoinNamed ==
    \A k \in DOMAIN job.ends :
        LET e == target.edges[job.ends[k][1]]
        IN  /\ IdOf(target.nodes[e.from].props) = <<job.ends[k][2]>>
            /\ IdOf(target.nodes[e.to].props)   = <<job.ends[k][3]>>

\* The strings of a database that a cell does not change.
PlainCell(v) == v[1] # "string" \/ v[2] \notin DOMAIN Inferred

\* What a file keeps of the source: JSON without a filter everything, if every node has an id of
\* its own; CSV the nodes of a type, if they have the same keys, and values whose text reads
\* back as themselves.
KeepsAll(d, file) ==
    LET ids == [k \in DOMAIN d.nodes |-> IdOf(d.nodes[k].props)]
        records == {d.nodes[k] : k \in ToSet(ListNodes(d, file.filter))}
    IN  \/ /\ file.format = "json" /\ file.filter = Everything
           /\ \A j, k \in DOMAIN ids : ids[j] # <<>> /\ (j # k => ids[j] # ids[k])
        \/ /\ file.format = "csv" /\ file.filter \in DOMAIN NodeFields
           /\ \A r, s \in records : DOMAIN s.props = DOMAIN r.props
           /\ \A r \in records : \A key \in DOMAIN r.props :
                  PlainCell(r.props[key]) /\ r.props[key][1] \notin {"null", "object"}

Plain(nodes) == [k \in DOMAIN nodes |-> [type |-> nodes[k].type, props |-> nodes[k].props]]

\* A finished first import into an empty database has restored the records of such a file: the
\* nodes and edges with their types, values, ends and order.  Additional labels are lost.
ImportRestores ==
    (job.phase = "done" /\ job.imports = 1 /\ Len(target.nodes) = Len(items.nodes) /\ KeepsAll(source, items)) =>
        /\ Plain(target.nodes)
             = Plain([k \in DOMAIN ListNodes(source, items.filter) |-> source.nodes[ListNodes(source, items.filter)[k]]])
        /\ items.format = "json" => target.edges = source.edges
=============================================================================
