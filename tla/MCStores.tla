------------------------------- MODULE MCStores -------------------------------
(***************************************************************************)
(* Two stores side by side: the pages of WalStore, and the records of      *)
(* Topology.  Neither looks at the other's state, so that each behaviour   *)
(* is one of the first or one of the second.                               *)
(***************************************************************************)
EXTENDS WalStore, Topology

CONSTANTS v1, v2

MCValues   == {v1, v2}
MCMaxPages == [node |-> 2, edge |-> 3]

\* Three pages with a log of two entries, or two pages with one of three: on the longer log the
\* two snapshots and the writes between them are all distinct.
Small == count <= 2 \/ walLen <= 2

VARIABLE part

MCInit == Init /\ TopologyInit /\ part \in {"pages", "records"}

PagesNext   == part = "pages" /\ Next /\ Small' /\ UNCHANGED <<topologyVars, part>>
RecordsNext == part = "records" /\ TopologyNext /\ UNCHANGED <<vars, part>>

MCSpec ==
    /\ MCInit /\ [][PagesNext \/ RecordsNext]_<<vars, topologyVars, part>>
    /\ WF_vars(Progress /\ UNCHANGED <<topologyVars, part>>)
==============================================================================
