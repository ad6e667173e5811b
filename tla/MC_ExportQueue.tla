---------------------------- MODULE MC_ExportQueue ----------------------------
(***************************************************************************)
(* A queue of five entries and ten bytes, batches of two, and records that *)
(* fit, that push others out and that never fit.                           *)
(***************************************************************************)
EXTENDS ExportQueue
=============================================================================
