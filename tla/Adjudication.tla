---------------------------- MODULE Adjudication ----------------------------
(***************************************************************************)
(* Tier 4 (app/reconciler/adjudicator.py): the rows the exact join could   *)
(* not settle are put to a model in chunks, and its answers are attached   *)
(* to them.                                                                *)
(*                                                                         *)
(* A verdict is [status, candidates], candidates telling whether it has    *)
(* any.  A dialogue is the progress of adjudicate over a sequence of them: *)
(* the chunk and the attempt it is at, and what was attached to each row,  *)
(* an answer, and the note that there is none or that it is unsure.        *)
(***************************************************************************)
EXTENDS Integers, FiniteSets

CONSTANTS BATCH_SIZE, Answers, NoAnswer

ASSUME AdjudicationAssumption == BATCH_SIZE \in Nat \ {0}

(* The residue of which there is something to ask, as row numbers. *)
Asked(verdicts) ==
  {i \in DOMAIN verdicts : verdicts[i].status \in {"REVIEW", "LINK_ERROR"}
                           /\ verdicts[i].candidates}

NumberOfChunks(verdicts) == (Cardinality(Asked(verdicts)) + BATCH_SIZE - 1) \div BATCH_SIZE

(* The k-th slice of BATCH_SIZE: a row's place is the number of asked rows  *)
(* above it.                                                                *)
Place(verdicts, r)  == Cardinality({i \in Asked(verdicts) : i < r})
Chunk(verdicts, k) ==
  {r \in Asked(verdicts) : Place(verdicts, r) \div BATCH_SIZE = k - 1}

Fresh(verdicts) ==
  [chunk |-> 1, attempt |-> 1,
   answer |-> [r \in DOMAIN verdicts |-> NoAnswer],
   note   |-> [r \in DOMAIN verdicts |-> "none"]]

Over(verdicts, d) == d.chunk > NumberOfChunks(verdicts)

NextChunk(d) == [d EXCEPT !.chunk = @ + 1, !.attempt = 1]

NoteChunk(verdicts, d, text) ==
  [d EXCEPT !.note = [r \in DOMAIN @ |->
      IF r \in Chunk(verdicts, d.chunk) THEN text ELSE @[r]]]

(* Seeded bug: the loop over the chunks is left. *)
CallRaisesForAll(verdicts, d) ==
  [NoteChunk(verdicts, d, "unavailable") EXCEPT !.chunk = NumberOfChunks(verdicts) + 1]
(* The call raised: the chunk is given up at once. *)
CallRaises(verdicts, d) == NextChunk(NoteChunk(verdicts, d, "unavailable"))

(* No reading of the text fits the schema: asked once more. *)
Malformed(verdicts, d) ==
  IF d.attempt = 1 THEN [d EXCEPT !.attempt = 2]
  ELSE NextChunk(NoteChunk(verdicts, d, "malformed"))

(* Seeded bug: items are matched with any row of the run. *)
AnsweredAnyRow(verdicts, d, items) ==
  NextChunk([d EXCEPT !.answer = [r \in DOMAIN @ |->
      IF r \in DOMAIN items THEN items[r] ELSE @[r]]])
(* items maps the row keys the model echoed to its answers; keys that are   *)
(* not of this chunk are skipped.  A row that is not left to a reviewer     *)
(* anyway gets a note when the model is unsure of it.                       *)
Answered(verdicts, d, items) ==
  LET heard  == Chunk(verdicts, d.chunk) \cap DOMAIN items
      unsure == {r \in heard : items[r] = "UNSURE" /\ verdicts[r].status # "REVIEW"}
  IN  NextChunk([d EXCEPT
        !.answer = [r \in DOMAIN @ |-> IF r \in heard THEN items[r] ELSE @[r]],
        !.note   = [r \in DOMAIN @ |-> IF r \in unsure THEN "unsure" ELSE @[r]]])

=============================================================================
