---------------------------- MODULE MCLinkCache ----------------------------
(* Model values for checking LinkCache: one lookup at a time over a short   *)
(* and a canonical link, or two lookups of the same link.                   *)
EXTENDS LinkCache
=============================================================================
