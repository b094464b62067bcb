----------------------------- MODULE MCWalFaults -----------------------------
(* Constants of the runs of WalFaults. *)
EXTENDS WalFaults

CONSTANTS v1, v2

MCValues == {v1, v2}
==============================================================================
