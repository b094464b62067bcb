-------------------------------- MODULE Scans --------------------------------
(***************************************************************************)
(* The order in which a database visits its records: page by page and slot *)
(* by slot, so by ascending id (live_node_rids, live_edge_rids).           *)
(***************************************************************************)
EXTENDS Integers, FiniteSets

\* The k-th record of a scan has k records up to it.
Scan(S) == [k \in 1..Cardinality(S) |-> CHOOSE x \in S : Cardinality({y \in S : y <= x}) = k]
=============================================================================
