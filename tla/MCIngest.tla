------------------------------ MODULE MCIngest ------------------------------
(* Two uploads and their runs at one gate: the same workbook as both lists, *)
(* another as the micro list, or none, so that a run may inherit what the   *)
(* other promoted.                                                          *)
EXTENDS Ingest

CONSTANTS f1, f2

MCOffers ==
  {[micro |-> f1, macro |-> f1], [micro |-> f2, macro |-> NoFile]}
=============================================================================
