---------------------------- MODULE MCPlanChunks ----------------------------
(***************************************************************************)
(* PlanChunks on three drives with up to three units of free space each    *)
(* and batches of two files: full drives, ties, an exact fit, a file of    *)
(* every size from empty to one unit more than everything together.        *)
(***************************************************************************)
EXTENDS PlanChunks

CONSTANTS a1, a2, a3, MaxFree

MCAccounts == {a1, a2, a3}

MCSnapshots == [MCAccounts -> 0..MaxFree]

MCSizes == 0..(3 * MaxFree + 1)
=============================================================================
