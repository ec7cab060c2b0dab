---------------------------- MODULE MCTokenStore ---------------------------
(* Model values for checking TokenStore: four audits, two at a time in the  *)
(* store, and two requests that may go for the same one.                    *)
EXTENDS TokenStore
=============================================================================
