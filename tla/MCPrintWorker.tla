--------------------------- MODULE MCPrintWorker ---------------------------
(* Small instances of the print agent for TLC.                              *)
EXTENDS PrintWorker, TLC

JobSymmetry == Permutations(JobIds) \cup Permutations(Printers)
=============================================================================
