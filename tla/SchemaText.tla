------------------------------ MODULE SchemaText ------------------------------
(***************************************************************************)
(* The schema language: the parser (schema.pest, schema/parser.rs), its    *)
(* inverse (schema/unparse.rs), the validator (schema/validator.rs), the   *)
(* migration rules (schema/migration.rs) and the calls of Database that    *)
(* take or return schema text.                                             *)
(*                                                                         *)
(* A text is a sequence of tokens <<kind, content>>: words, names in       *)
(* backticks, integers and marks.  Characters appear only in what the      *)
(* grammar makes of a name: whether it can be written as a word, in        *)
(* backticks, or not at all.                                               *)
(***************************************************************************)
EXTENDS Integers, Sequences, SequencesExt

CONSTANTS
    BareNames,      \* identifiers, which are names that need no backticks (plain_ident)
    Padded,         \* names with spaces at their ends -> what is between these
    QuotableNames,  \* names without a line break, which fit between backticks
    SourceTexts,    \* texts handed to apply_schema
    FieldNames      \* names handed to rename_node_field and rename_edge_field

VARIABLES
    ast,    \* the stored schema, a sequence of definitions, or NoAst
    text    \* what get_schema_text returned last

xvars == <<ast, text>>

NoAst == <<[def |-> "none"]>>

Primitives == {"Int", "Float", "Boolean", "DateTime", "String", "Json", "Blob"}
Scalars    == {"Int", "Float", "Boolean", "DateTime", "String"}

------------------------------------------------------------------------------
\* Abstract syntax (schema/ast.rs).  A type expression begins with its variant.
Field(name, type, indexed, unique) == [name |-> name, type |-> type, indexed |-> indexed, unique |-> unique]
NodeDef(name, params, extends, fields) ==
    [def |-> "node", name |-> name, params |-> params, extends |-> extends, fields |-> fields]
EdgeDef(name, params, from, to, fields) ==
    [def |-> "edge", name |-> name, params |-> params, from |-> from, to |-> to, fields |-> fields]

\* An optional name: a sequence of one name or of none.
NoName == <<>>

------------------------------------------------------------------------------
\* Writing (unparse.rs).

Word(w)   == <<"word", w>>
Quoted(n) == <<"quoted", n>>
Mark(m)   == <<"mark", m>>

Trim(n) == IF n \in DOMAIN Padded THEN Padded[n] ELSE n

\* bare_name skips the spaces at both ends of an identifier, as every rule of the grammar does.
IsBareName(n) == Trim(n) \in BareNames

\* A name is written as it is, and the spaces of a bare one are then between the words.
UnparseName(n) == IF IsBareName(n) THEN Word(Trim(n)) ELSE Quoted(n)

\* Mutant: a type named like a primitive is written like any other.
UnparseTypeNameMutant(n) == UnparseName(n)
UnparseTypeName(n) == IF n \in Primitives THEN Quoted(n) ELSE UnparseName(n)

\* Tokens with commas between them.
Separated(parts) ==
    FoldLeft(LAMBDA done, part : IF done = <<>> THEN part ELSE done \o <<Mark(",")>> \o part, <<>>, parts)
Bracketed(parts) == <<Mark("<")>> \o Separated(parts) \o <<Mark(">")>>

RECURSIVE UnparseType(_)
UnparseType(t) ==
    CASE t[1] \in Primitives -> <<Word(t[1])>>
      [] t[1] = "Vector" -> <<Word("Vector")>> \o Bracketed(<< <<<<"integer", t[2]>>>> >>)
      [] t[1] \in {"List", "Map"} ->
            <<Word(t[1])>> \o Bracketed([k \in 1..(Len(t) - 1) |-> UnparseType(t[k + 1])])
      [] t[1] \in {"NodeRef", "EdgeRef"} -> <<Word(t[1])>> \o Bracketed(<< <<UnparseName(t[2])>> >>)
      [] t[1] = "Named"  -> <<UnparseTypeName(t[2])>>

UnparseFields(fields) ==
    FlattenSeq([k \in DOMAIN fields |->
        <<UnparseName(fields[k].name), Mark(":")>> \o UnparseType(fields[k].type)
          \o (IF fields[k].indexed THEN <<Mark("@"), Word("index")>> ELSE <<>>)
          \o (IF fields[k].unique THEN <<Mark("@"), Word("unique")>> ELSE <<>>)])

\* A parameter <<name, bound>>; those of a node have no bound.
UnparseParams(params) ==
    IF params = <<>> THEN <<>>
    ELSE Bracketed([k \in DOMAIN params |->
            <<UnparseName(params[k][1])>>
              \o (IF params[k][2] = NoName THEN <<>> ELSE <<Mark(":"), UnparseName(params[k][2][1])>>)])

UnparseNodeDef(d) ==
    <<Word("node"), UnparseName(d.name)>> \o UnparseParams(d.params)
      \o (IF d.extends = NoName THEN <<>> ELSE <<Word("extends"), UnparseName(d.extends[1])>>)
      \o <<Mark("{")>> \o UnparseFields(d.fields) \o <<Mark("}")>>

UnparseEdgeDef(d) ==
    <<Word("edge"), UnparseName(d.name)>> \o UnparseParams(d.params)
      \o <<Mark("{"), Word("from"), Mark(":")>> \o UnparseType(d.from)
      \o <<Word("to"), Mark(":")>> \o UnparseType(d.to)
      \o (IF d.fields = <<>> THEN <<>>
          ELSE <<Word("props"), Mark(":"), Mark("{")>> \o UnparseFields(d.fields) \o <<Mark("}")>>)
      \o <<Mark("}")>>

Unparse(defs) ==
    FlattenSeq([k \in DOMAIN defs |->
        IF defs[k].def = "node" THEN UnparseNodeDef(defs[k]) ELSE UnparseEdgeDef(defs[k])])

------------------------------------------------------------------------------
\* Reading (schema.pest).  A rule tried at position i of a text has failed, or has a value and
\* the position behind it.

Failed == [value |-> <<>>, next |-> 0]
Parsed(value, next) == [value |-> value, next |-> next]
Succeeds(r) == r.next # Failed.next

At(t, i, token) == i <= Len(t) /\ t[i] = token
IsKind(t, i, kinds) == i <= Len(t) /\ t[i][1] \in kinds

\* The tokens stand at i, one after another.
Stand(t, i, tokens) == \A k \in DOMAIN tokens : At(t, i + k - 1, tokens[k])

\* ident
IdentAt(t, i) ==
    IF IsKind(t, i, {"word"}) \/ (IsKind(t, i, {"quoted"}) /\ t[i][2] \in QuotableNames)
    THEN Parsed(t[i][2], i + 1) ELSE Failed

\* The rest after r stands if the tokens follow; the value stays.
Ending(t, r, tokens, value) ==
    IF Succeeds(r) /\ Stand(t, r.next, tokens) THEN Parsed(value, r.next + Len(tokens)) ELSE Failed

\* Sequence: what is tried behind the tokens, and behind a rule that has succeeded.
After(t, i, tokens, Continue(_)) == IF Stand(t, i, tokens) THEN Continue(i + Len(tokens)) ELSE Failed
Either(r, Continue(_), other) == IF Succeeds(r) THEN Continue(r) ELSE other
Then(r, Continue(_)) == Either(r, Continue, Failed)

\* Ordered choice.
FirstOf(rules) ==
    IF \E k \in DOMAIN rules : Succeeds(rules[k])
    THEN rules[CHOOSE k \in DOMAIN rules : Succeeds(rules[k]) /\ \A j \in 1..(k - 1) : ~ Succeeds(rules[j])]
    ELSE Failed

Begun(word) == <<Word(word), Mark("<")>>

VectorAt(t, i) ==
    After(t, i, Begun("Vector"), LAMBDA j :
        IF IsKind(t, j, {"integer"})
        THEN Ending(t, Parsed(<<>>, j + 1), <<Mark(">")>>, <<"Vector", t[j][2]>>) ELSE Failed)

RefAt(t, i, ref) ==
    After(t, i, Begun(ref), LAMBDA j :
    Then(IdentAt(t, j), LAMBDA name : Ending(t, name, <<Mark(">")>>, <<ref, name.value>>)))

\* primitive_type: a word; a name in backticks is none.
PrimitiveAt(t, i) ==
    IF IsKind(t, i, {"word"}) /\ t[i][2] \in Primitives THEN Parsed(<<t[i][2]>>, i + 1) ELSE Failed

NamedAt(t, i) ==
    Then(IdentAt(t, i), LAMBDA name : Parsed(<<"Named", name.value>>, name.next))

\* type_expr
RECURSIVE TypeAt(_, _)
TypeAt(t, i) ==
    LET ListAt ==
            After(t, i, Begun("List"), LAMBDA j :
            Then(TypeAt(t, j), LAMBDA elem : Ending(t, elem, <<Mark(">")>>, <<"List", elem.value>>)))
        MapAt ==
            After(t, i, Begun("Map"), LAMBDA j :
            Then(TypeAt(t, j), LAMBDA key :
            After(t, key.next, <<Mark(",")>>, LAMBDA k :
            Then(TypeAt(t, k), LAMBDA value :
            Ending(t, value, <<Mark(">")>>, <<"Map", key.value, value.value>>)))))
    IN  FirstOf(<<VectorAt(t, i), ListAt, MapAt, RefAt(t, i, "NodeRef"), RefAt(t, i, "EdgeRef"),
                  PrimitiveAt(t, i), NamedAt(t, i)>>)

\* annotation*: the words behind the marks.
RECURSIVE AnnotationsAt(_, _, _)
AnnotationsAt(t, i, words) ==
    IF At(t, i, Mark("@")) /\ IsKind(t, i + 1, {"word"})
    THEN AnnotationsAt(t, i + 2, words \cup {t[i + 1][2]})
    ELSE Parsed(words, i)

\* field_def; an annotation that is not known fails the whole text.
FieldAt(t, i) ==
    Then(IdentAt(t, i), LAMBDA name :
    After(t, name.next, <<Mark(":")>>, LAMBDA j :
    Then(TypeAt(t, j), LAMBDA type :
    Then(AnnotationsAt(t, type.next, {}), LAMBDA anns :
    IF anns.value \subseteq {"index", "unique"}
    THEN Parsed(Field(name.value, type.value, "index" \in anns.value, "unique" \in anns.value), anns.next)
    ELSE Failed))))

\* field_def*
RECURSIVE FieldsAt(_, _, _)
FieldsAt(t, i, fields) ==
    Either(FieldAt(t, i), LAMBDA f : FieldsAt(t, f.next, Append(fields, f.value)), Parsed(fields, i))

\* type_params, generic_params: those of an edge may have bounds.
ParamAt(t, i, bounded) ==
    Then(IdentAt(t, i), LAMBDA name :
    Either(IF bounded THEN After(t, name.next, <<Mark(":")>>, LAMBDA j : IdentAt(t, j)) ELSE Failed,
           LAMBDA bound : Parsed(<<name.value, <<bound.value>>>>, bound.next),
           Parsed(<<name.value, NoName>>, name.next)))

RECURSIVE ParamListAt(_, _, _, _)
ParamListAt(t, i, bounded, params) ==
    Then(ParamAt(t, i, bounded), LAMBDA p :
    IF At(t, p.next, Mark(",")) THEN ParamListAt(t, p.next + 1, bounded, Append(params, p.value))
    ELSE Ending(t, p, <<Mark(">")>>, Append(params, p.value)))

\* An optional part that fails is left out.
Optional(r, i) == IF Succeeds(r) THEN r ELSE Parsed(<<>>, i)

ParamsAt(t, i, bounded) ==
    Optional(After(t, i, <<Mark("<")>>, LAMBDA j : ParamListAt(t, j, bounded, <<>>)), i)

ExtendsAt(t, i) ==
    Optional(After(t, i, <<Word("extends")>>, LAMBDA j :
             Then(IdentAt(t, j), LAMBDA base : Parsed(<<base.value>>, base.next))), i)

\* node_def, parse_node_def
NodeDefAt(t, i) ==
    After(t, i, <<Word("node")>>, LAMBDA j :
    Then(IdentAt(t, j), LAMBDA name :
    Then(ParamsAt(t, name.next, FALSE), LAMBDA params :
    Then(ExtendsAt(t, params.next), LAMBDA extends :
    After(t, extends.next, <<Mark("{")>>, LAMBDA k :
    Then(FieldsAt(t, k, <<>>), LAMBDA fields :
    Ending(t, fields, <<Mark("}")>>, NodeDef(name.value, params.value, extends.value, fields.value))))))))

\* edge_from, edge_to
EndAt(t, i, side) == After(t, i, <<Word(side), Mark(":")>>, LAMBDA j : TypeAt(t, j))

\* props_block
PropsAt(t, i) ==
    Optional(After(t, i, <<Word("props"), Mark(":"), Mark("{")>>, LAMBDA j :
             Then(FieldsAt(t, j, <<>>), LAMBDA fields : Ending(t, fields, <<Mark("}")>>, fields.value))), i)

\* edge_def, parse_edge_def
EdgeDefAt(t, i) ==
    After(t, i, <<Word("edge")>>, LAMBDA j :
    Then(IdentAt(t, j), LAMBDA name :
    Then(ParamsAt(t, name.next, TRUE), LAMBDA params :
    After(t, params.next, <<Mark("{")>>, LAMBDA k :
    Then(EndAt(t, k, "from"), LAMBDA from :
    Then(EndAt(t, from.next, "to"), LAMBDA to :
    Then(PropsAt(t, to.next), LAMBDA props :
    Ending(t, props, <<Mark("}")>>, EdgeDef(name.value, params.value, from.value, to.value, props.value)))))))))

\* schema, parse: definitions up to the end of the text.
RECURSIVE DefsAt(_, _, _)
DefsAt(t, i, defs) ==
    IF i = Len(t) + 1 THEN Parsed(defs, i)
    ELSE Then(FirstOf(<<NodeDefAt(t, i), EdgeDefAt(t, i)>>), LAMBDA d : DefsAt(t, d.next, Append(defs, d.value)))

Parse(t) == DefsAt(t, 1, <<>>)

------------------------------------------------------------------------------
\* Rules for schemas.

DefsOf(defs, kind)    == {defs[k] : k \in {j \in DOMAIN defs : defs[j].def = kind}}
NodeNames(defs)   == {d.name : d \in DefsOf(defs, "node")}

\* validate_edge_endpoint: parameters may stand for types, but not inside NodeRef.
EndpointKnown(defs, d, type) ==
    CASE type[1] = "Named"   -> type[2] \in NodeNames(defs) \cup {d.params[k][1] : k \in DOMAIN d.params}
      [] type[1] = "NodeRef" -> type[2] \in NodeNames(defs)
      [] OTHER               -> TRUE

\* validate
Validates(defs) ==
    /\ \A d \in DefsOf(defs, "node") :
        /\ \A base \in ToSet(d.extends) : base \in NodeNames(defs)
        /\ \A f \in ToSet(d.fields) : f.indexed \/ f.unique => f.type[1] \in Scalars
    /\ \A d \in DefsOf(defs, "edge") :
        /\ \A p \in ToSet(d.params) : \A bound \in ToSet(p[2]) : bound \in NodeNames(defs)
        /\ EndpointKnown(defs, d, d.from) /\ EndpointKnown(defs, d, d.to)

\* The last definition of a name counts for migrations (node_map, edge_map), the first one for
\* everything else.
LastOf(defs, d) == LET ks == {k \in DOMAIN defs : defs[k].def = d.def /\ defs[k].name = d.name}
                   IN  defs[CHOOSE k \in ks : \A j \in ks : j <= k]

\* type_compatible: equal in every part.
Compatible(old, new) == old = new

FieldsCompatible(old, new) ==
    \A f \in ToSet(old), g \in ToSet(new) : f.name = g.name => Compatible(f.type, g.type)

\* validate_migration
MayMigrate(old, new) ==
    \A o \in {LastOf(old, d) : d \in ToSet(old)}, n \in {LastOf(new, d) : d \in ToSet(new)} :
        o.def = n.def /\ o.name = n.name =>
            /\ FieldsCompatible(o.fields, n.fields)
            /\ o.def = "edge" => Compatible(o.from, n.from) /\ Compatible(o.to, n.to)

------------------------------------------------------------------------------
\* Calls.

\* apply_schema; the stored form (SchemaDto) has the parts of the AST one by one.
Apply(t) ==
    \E parsed \in {Parse(t)} :
        /\ Succeeds(parsed) /\ Validates(parsed.value)
        /\ ast # NoAst => MayMigrate(ast, parsed.value)
        /\ ast' = parsed.value
        /\ UNCHANGED text

\* get_schema_text
GetText ==
    /\ ast # NoAst
    /\ text' = Unparse(ast)
    /\ UNCHANGED ast

Renamed(k, f, new) == [ast EXCEPT ![k].fields[f].name = new]

\* schema_fields_mut, field_position: the first definition and the first field of a name.
FirstDef(k)      == \A j \in 1..(k - 1) : ast[j].def # ast[k].def \/ ast[j].name # ast[k].name
FirstField(k, f) == \A g \in 1..(f - 1) : ast[k].fields[g].name # ast[k].fields[f].name

\* The schema reads back from its text.
Writable(defs) == \E t \in {Unparse(defs)} : Parse(t) = Parsed(defs, Len(t) + 1)

\* rename_node_field, rename_edge_field
RenameFieldText(k, f, new) ==
    /\ FirstDef(k) /\ FirstField(k, f)
    /\ \A g \in DOMAIN ast[k].fields : ast[k].fields[g].name # new
    /\ Validates(Renamed(k, f, new)) /\ Writable(Renamed(k, f, new))
    /\ ast' = Renamed(k, f, new)
    /\ UNCHANGED text

TextInit == ast = NoAst /\ text = <<>>

TextNext ==
    \/ \E t \in SourceTexts \cup {text} : Apply(t)
    \/ GetText
    \/ /\ ast # NoAst
       /\ \E k \in DOMAIN ast : \E f \in DOMAIN ast[k].fields, new \in FieldNames : RenameFieldText(k, f, new)

TextSpec == TextInit /\ [][TextNext]_xvars

------------------------------------------------------------------------------
\* Properties.

\* The names that a type expression, and a schema, is made of.
RECURSIVE TypeNames(_)
TypeNames(t) ==
    CASE t[1] \in {"List", "Map"} -> UNION {TypeNames(t[k]) : k \in 2..Len(t)}
      [] t[1] \in {"NodeRef", "EdgeRef", "Named"} -> {t[2]}
      [] OTHER -> {}
NamesIn(defs) ==
    UNION {{d.name} \cup UNION {{p[1]} \cup ToSet(p[2]) : p \in ToSet(d.params)}
               \cup UNION {{f.name} \cup TypeNames(f.type) : f \in ToSet(d.fields)}
               \cup (IF d.def = "node" THEN ToSet(d.extends) ELSE TypeNames(d.from) \cup TypeNames(d.to)) :
           d \in ToSet(defs)}

FieldsOnce(d) == \A f, g \in DOMAIN d.fields : d.fields[f].name = d.fields[g].name => f = g

\* "A name is written so that it parses back to the same string" (unparse_name): the text of the
\* stored schema is always one that the parser and the validator take and that is written the
\* same again; and it says exactly what is stored, whatever names types and fields were given
\* (those of primitives, of keywords, or with spaces in them), but for identifiers with spaces at
\* their ends, which lose these.  Then apply_schema takes it back if no definition has two fields
\* of one name (get_schema_text, and the comment of rename_field at db.rs:914).
TextReadsBack ==
    ast # NoAst =>
        \E t \in {Unparse(ast)} : \E read \in {Parse(t)} :
            /\ Succeeds(read) /\ Validates(read.value) /\ Unparse(read.value) = t
            /\ read.value = ast <=> \A n \in NamesIn(ast) : IsBareName(n) => n = Trim(n)
            /\ read.value = ast /\ (\A d \in ToSet(ast) : FieldsOnce(d)) => MayMigrate(ast, read.value)
=============================================================================
