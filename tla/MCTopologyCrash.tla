--------------------------- MODULE MCTopologyCrash ---------------------------
(* TopologyCrash with the bounds of ghost_node.cfg. *)
EXTENDS TopologyCrash

MCMaxPages == [node |-> 1, edge |-> 1]
==============================================================================
