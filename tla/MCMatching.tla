----------------------------- MODULE MCMatching -----------------------------
(* Inputs for checking Matching: every two-row tracker over three names     *)
(* (one blank), every outcome of its links, every two-row export over two   *)
(* posts and two authors; then one row against every pair of lists.         *)
EXTENDS Matching, TLC

CONSTANTS n1, n2, p1, p2, a1, a2

MCNames   == {n1, n2}
MCNotes   == {p1, p2}
MCAuthors == {a1, a2}

(* n2 is too short to count, and sounds like n1. *)
MCLadder == (<<n1, n1>> :> "strong") @@ (<<n2, n2>> :> "short")
            @@ (<<n1, n2>> :> "fuzzy") @@ (<<n2, n1>> :> "none")

Links == {r \in Resolution : (r.ok <=> r.note # None) /\ (~r.ok => r.author = None)}

DmrOf(len, near) == [1..len -> {r \in DmrRow : r.near \in near}]

TwoRows == [plog : [1..2 -> PlogRow], found : [1..2 -> Links],
            dmr : DmrOf(2, {TRUE}), micro : {NoList}, macro : {NoList}]

OneRow == [plog : [1..1 -> PlogRow], found : [1..1 -> Links],
           dmr : DmrOf(1, BOOLEAN) \cup DmrOf(2, {FALSE, TRUE}), micro : List, macro : List]

(* Notes and authors are only compared; names are told apart by the ladder. *)
Symmetry == Permutations(MCNotes) \cup Permutations(MCAuthors)

MCInputs == TwoRows \cup OneRow
=============================================================================
