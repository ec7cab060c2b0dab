------------------------------- MODULE Export -------------------------------
(***************************************************************************)
(* The annotated workbook (app/reconciler/export.py): verdicts are written *)
(* into column S, and beside the sheet into a block of evidence columns,   *)
(* of a sheet in which people may have written anything anywhere.          *)
(*                                                                         *)
(* A sheet maps a row and a column to a text.  Columns count from S.  Of   *)
(* the evidence only the first column, STATUS, says something about S; the *)
(* others hold "evidence".  No cell lies in a merged range: writing into   *)
(* one raises, and there is no export.                                     *)
(***************************************************************************)
EXTENDS Integers, FiniteSets

CONSTANTS Height,     \* the used rows of the sheet
          Width,      \* EVIDENCE_HEADERS: the columns of the block
          HeaderRow,
          Blank       \* an empty cell, or no override

S_COL == 0
EVIDENCE_START_COL == 1
Rows == 1..Height

ASSUME ExportAssumption ==
  /\ Height \in Nat /\ Width \in Nat \ {0}
  /\ HeaderRow \in Rows

(* As many columns as any block can reach: behind the last populated one.   *)
Columns(sheet) ==
  LET used == {rc[2] : rc \in {x \in DOMAIN sheet : sheet[x] # Blank}}
  IN  0..(Width + CHOOSE c \in used \cup {0} : \A d \in used \cup {0} : d <= c)

At(sheet, r, c) == IF <<r, c>> \in DOMAIN sheet THEN sheet[<<r, c>>] ELSE Blank

(* The whole height: totals and notes below the data count as well. *)
Populated(sheet, c) == \E r \in Rows : At(sheet, r, c) # Blank

(* Seeded bug: the first free column is taken for a free block. *)
EvidenceStartNarrow(sheet) ==
  CHOOSE s \in Columns(sheet) :
    /\ s >= EVIDENCE_START_COL /\ ~Populated(sheet, s)
    /\ \A t \in EVIDENCE_START_COL..(s - 1) : Populated(sheet, t)
(* The first contiguous block without any content. *)
EvidenceStart(sheet) ==
  CHOOSE s \in Columns(sheet) :
    /\ s >= EVIDENCE_START_COL
    /\ \A c \in s..(s + Width - 1) : ~Populated(sheet, c)
    /\ \A t \in EVIDENCE_START_COL..(s - 1) :
         \E c \in t..(t + Width - 1) : Populated(sheet, c)

(* Verdict.column_s: blank for a match. *)
ColumnS(verdict) == IF verdict = "matched" THEN Blank ELSE verdict

(* An override of "matched" is the sentinel OVERRIDE_MATCH_BLANK. *)
SText(existing, verdict, override) ==
  IF override # Blank THEN ColumnS(override)
  ELSE IF existing # Blank THEN existing
  ELSE ColumnS(verdict)

(* Seeded bug: what an override replaces is not recorded. *)
StatusForgetful(existing, verdict, override) ==
  [verdict   |-> verdict,
   override  |-> override # Blank,
   kept      |-> override = Blank /\ existing # Blank,
   disagrees |-> override = Blank /\ existing # Blank /\ existing # ColumnS(verdict),
   replaced  |-> Blank]
(* The STATUS cell: the pipeline's verdict, whether a person overrode it,   *)
(* whether S was kept, whether it then disagrees, and what was replaced.    *)
StatusCell(existing, verdict, override) ==
  [verdict   |-> verdict,
   override  |-> override # Blank,
   kept      |-> override = Blank /\ existing # Blank,
   disagrees |-> override = Blank /\ existing # Blank /\ existing # ColumnS(verdict),
   replaced  |-> IF override # Blank THEN existing ELSE Blank]

(* ws.cell(..., value): an empty value is not written, the old one stays.   *)
Put(existing, text) == IF text = Blank THEN existing ELSE text

(* write_annotated_xlsx: what is in every cell afterwards. *)
Annotated(sheet, verdicts, overrides) ==
  LET start == EvidenceStart(sheet)
      block == start..(start + Width - 1)
  IN  [rc \in Rows \X (Columns(sheet) \cup block) |->
         LET r == rc[1]  c == rc[2] IN
         IF r \in DOMAIN verdicts /\ c = S_COL
         THEN Put(At(sheet, r, S_COL),
                  SText(At(sheet, r, S_COL), verdicts[r], overrides[r]))
         ELSE IF r \in DOMAIN verdicts /\ c = start
         THEN StatusCell(At(sheet, r, S_COL), verdicts[r], overrides[r])
         ELSE IF c \in block /\ r \in DOMAIN verdicts THEN "evidence"
         ELSE IF c \in block /\ r = HeaderRow
         THEN IF c = start THEN "STATUS" ELSE "title"
         ELSE At(sheet, r, c)]

=============================================================================
