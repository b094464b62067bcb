---------------------------- MODULE MCConnection ----------------------------
(* Connection and SchemaStore with the bounds of their configurations. *)
EXTENDS Connection, SchemaStore

\* Schemas with two node types and two edge types of the same names, by what each declares: a
\* type comes back after it was removed, and two types are new at once.
Defined(node1, node2, edge1, edge2) ==
    [node |-> [t1 |-> node1, t2 |-> node2], edge |-> [t1 |-> edge1, t2 |-> edge2]]
MCSchemas == {
    Defined("none", "f", "undefined", "none"),
    Defined("undefined", "f", "undefined", "undefined"),
    Defined("undefined", "none", "none", "f")}
=============================================================================
