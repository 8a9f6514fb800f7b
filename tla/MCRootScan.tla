----------------------------- MODULE MCRootScan -----------------------------
(***************************************************************************)
(* RootScan for TLC.                                                       *)
(***************************************************************************)
EXTENDS RootScan

AllPrograms == {"gcbench", "mt_gcbench", "exhaust", "initobj", "trace", "mt-trace"}
=============================================================================
