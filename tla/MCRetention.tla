---------------------------- MODULE MCRetention ----------------------------
(* Model values for checking Retention: two requests and the sweep over two *)
(* directories, with room for one pending audit and one export, so that the *)
(* store is full and the slots are taken in ordinary behaviours.            *)
EXTENDS Retention, TLC

Symmetry == Permutations(Dirs) \cup Permutations(Handlers)
=============================================================================
