----------------------------- MODULE MCRunPool -----------------------------
(* Model values for checking RunPool: three runs contend for two slots, and *)
(* one thread more than the cap allows exists, so that a violation of the   *)
(* cap could show.                                                          *)
EXTENDS RunPool, TLC

Symmetry == Permutations(Runs) \cup Permutations(Threads)
            \cup Permutations(Options)
=============================================================================
