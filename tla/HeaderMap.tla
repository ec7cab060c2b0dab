----------------------------- MODULE HeaderMap ------------------------------
(***************************************************************************)
(* Header mapping (app/remap): a workbook whose headers no parser knows is *)
(* shown to a model, which proposes a sheet, a header row and a column for *)
(* every field; a person corrects and approves; the chosen header cells    *)
(* are rewritten and the parsers run unchanged.  An approval is remembered *)
(* by the layout of its header row.                                        *)
(*                                                                         *)
(* A workbook is a sequence of sheets [name, rows]; a row is a sequence of *)
(* cells, and a cell is its text (cell_str) with the key the text has as a *)
(* header (header_key): texts that differ in case, white space or full-    *)
(* width forms have one key.  The parsers compare keys, the signatures of  *)
(* layouts texts.                                                          *)
(***************************************************************************)
EXTENDS Integers, Sequences, FiniteSets, SequencesExt

CONSTANTS Fields,        \* registry.FIELDS of a kind, by the keys of their headers
          Fingerprint,   \* the keys a header row is found by
          EffRequired,   \* REQUIRED_COLS of the efficiency workbook
          HEADER_SCAN_ROWS, SAMPLE_COLS, MAX_SHEETS,
          MasterSheet    \* the sheet the efficiency analyzer looks for

EmptyKey == ""   \* of an empty cell, and its text
Cells == [text : STRING, key : STRING]

ASSUME HeaderMapAssumption ==
  /\ Fingerprint \subseteq EffRequired /\ EffRequired \subseteq Fields
  /\ EmptyKey \notin Fields /\ "original" \notin Fields
  /\ IsFiniteSet(Fields)
  /\ HEADER_SCAN_ROWS \in Nat /\ SAMPLE_COLS \in Nat /\ MAX_SHEETS \in Nat

(* A workbook as the parsers see it: no two sheets have one name, and a     *)
(* cell of the sample that the file does not have is an empty one.          *)
Sheets == [name : STRING, rows : Seq(Seq(Cells))]
IsWorkbook(wb) ==
  /\ wb \in Seq(Sheets)
  /\ \A s, t \in DOMAIN wb : wb[s].name = wb[t].name => s = t
  /\ \A s \in DOMAIN wb : \A i \in DOMAIN wb[s].rows : Len(wb[s].rows[i]) >= SAMPLE_COLS

(* column_choices: the columns of the sample with a header or a value in    *)
(* one of the two rows below it.                                            *)
Offered(sheet, i) ==
  {c \in 1..SAMPLE_COLS :
     \E j \in DOMAIN sheet.rows \cap i..(i + 2) : sheet.rows[j][c].text # EmptyKey}

(* A mapping that can be applied to wb: its sheet and row are in the file,  *)
(* in what is scanned, its columns in the sample.                           *)
Fits(wb, m) ==
  /\ \E s \in DOMAIN wb \cap 1..MAX_SHEETS :
       wb[s].name = m.sheet /\ m.row \in DOMAIN wb[s].rows
  /\ m.row \in 1..HEADER_SCAN_ROWS
  /\ DOMAIN m.columns \subseteq Fields
  /\ \A k \in DOMAIN m.columns : m.columns[k] \in 1..SAMPLE_COLS

(* A mapping a person can submit for wb: the sheet and the row are those of *)
(* the proposal (Proposal, propose), and the form offers these columns.     *)
IsMapping(wb, m) ==
  /\ Fits(wb, m)
  /\ \A s \in DOMAIN wb : wb[s].name = m.sheet =>
       \A k \in DOMAIN m.columns : m.columns[k] \in Offered(wb[s], m.row)

Required(kind) == IF kind = "eff" THEN EffRequired ELSE Fingerprint

MinOf(S) == CHOOSE x \in S : \A y \in S : x <= y

-----------------------------------------------------------------------------
(* The parsers (core/xlsx.py, parsers.py, analysis.py). *)

(* Of several cells with one key the first counts. *)
Keys(row) == [k \in {row[c].key : c \in DOMAIN row} \ {EmptyKey} |->
                MinOf({c \in DOMAIN row : row[c].key = k})]

HeaderRows(sheet) ==
  {i \in DOMAIN sheet.rows : i <= HEADER_SCAN_ROWS
                             /\ Fingerprint \subseteq DOMAIN Keys(sheet.rows[i])}

NoParse == [sheet |-> EmptyKey, row |-> 0, columns |-> <<>>]
ParseOf(sheet) ==
  LET i == MinOf(HeaderRows(sheet))
  IN  [sheet |-> sheet.name, row |-> i, columns |-> Keys(sheet.rows[i])]

(* The first sheet with a header row; the efficiency analyzer reads the     *)
(* master list, or the first sheet, and no other.                           *)
ParsePlogOrDmr(wb) ==
  LET hits == {s \in DOMAIN wb : HeaderRows(wb[s]) # {}}
  IN  IF hits = {} THEN NoParse ELSE ParseOf(wb[MinOf(hits)])

ParseEff(wb) ==
  LET masters == {s \in DOMAIN wb : wb[s].name = MasterSheet}
      sheet   == wb[IF masters = {} THEN 1 ELSE MinOf(masters)]
  IN  IF HeaderRows(sheet) = {} THEN NoParse
      ELSE IF EffRequired \subseteq DOMAIN ParseOf(sheet).columns THEN ParseOf(sheet)
      ELSE NoParse

Parse(kind, wb) == IF kind = "eff" THEN ParseEff(wb) ELSE ParsePlogOrDmr(wb)

-----------------------------------------------------------------------------
(* Proposal and approval. *)

(* Seeded bug: two fields may share a column. *)
ClampedShared(answer) ==
  LET keep == {i \in DOMAIN answer :
                 answer[i][1] \in Fields /\ answer[i][2] \in 1..SAMPLE_COLS}
  IN  [k \in {answer[i][1] : i \in keep} |->
         answer[CHOOSE i \in keep : answer[i][1] = k][2]]
(* propose: of the model's answer, a sequence of <<key, column>>, unknown   *)
(* keys, columns outside the sample and repeated columns are dropped.       *)
Clamped(answer) ==
  LET inSample == {i \in DOMAIN answer :
                     answer[i][1] \in Fields /\ answer[i][2] \in 1..SAMPLE_COLS}
      keep == {i \in inSample : \A j \in inSample : j < i => answer[j][2] # answer[i][2]}
  IN  [k \in {answer[i][1] : i \in keep} |->
         answer[CHOOSE i \in keep : answer[i][1] = k][2]]

(* The form comes with the proposed columns it offers chosen. *)
Preselected(columns, offered) ==
  [k \in {l \in DOMAIN columns : columns[l] \in offered} |-> columns[k]]

(* remap_apply: what a submitted form has to satisfy. *)
Acceptable(kind, columns) ==
  /\ Required(kind) \subseteq DOMAIN columns
  /\ Cardinality({columns[k] : k \in DOMAIN columns}) = Cardinality(DOMAIN columns)

-----------------------------------------------------------------------------
(* apply_mapping *)

FieldAt(columns, c) == CHOOSE k \in DOMAIN columns : columns[k] = c
Header(key)         == [text |-> key, key |-> key]

(* Seeded bug: cells that bear the same name already stay. *)
RenamedOnly(row, columns) ==
  [c \in DOMAIN row |->
     IF c \in {columns[k] : k \in DOMAIN columns} THEN Header(FieldAt(columns, c))
     ELSE row[c]]
(* Chosen cells get the canonical name; other cells that bear one of those  *)
(* names are prefixed with "(original)".                                    *)
Renamed(row, columns) ==
  [c \in DOMAIN row |->
     IF c \in {columns[k] : k \in DOMAIN columns} THEN Header(FieldAt(columns, c))
     ELSE IF row[c].key \in DOMAIN columns THEN Header("original")
     ELSE row[c]]

Applied(wb, m) ==
  [s \in DOMAIN wb |->
     IF wb[s].name # m.sheet THEN wb[s]
     ELSE [wb[s] EXCEPT !.rows[m.row] = Renamed(@, m.columns)]]

-----------------------------------------------------------------------------
(* Signatures and the cache of approved mappings. *)

Trim(texts) ==
  LET filled == {c \in DOMAIN texts : texts[c] # EmptyKey}
  IN  IF filled = {} THEN <<>>
      ELSE SubSeq(texts, 1, CHOOSE c \in filled : \A d \in filled : d <= c)

Texts(row)  == [c \in DOMAIN row |-> row[c].text]
Sample(row) ==
  Trim(SubSeq(Texts(row), 1, IF Len(row) < SAMPLE_COLS THEN Len(row) ELSE SAMPLE_COLS))

(* Seeded bugs: the rows below take part, as in an earlier release; the     *)
(* row's keys do instead of its texts.                                      *)
SignatureOfSample(sheet, i) ==
  <<sheet.name, i, [j \in DOMAIN sheet.rows |-> Sample(sheet.rows[j])]>>
SignatureOfKeys(sheet, i) ==
  <<sheet.name, i, [c \in 1..SAMPLE_COLS |-> sheet.rows[i][c].key]>>
(* _layout_sig *)
Signature(sheet, i) == <<sheet.name, i, Sample(sheet.rows[i])>>

(* candidate_signatures: the rows that are probed, as <<sheet, row>>. *)
Candidates(wb) ==
  {x \in (DOMAIN wb) \X (1..HEADER_SCAN_ROWS) :
     /\ x[1] <= MAX_SHEETS /\ x[2] \in DOMAIN wb[x[1]].rows
     /\ Sample(wb[x[1]].rows[x[2]]) # <<>>}

SheetNamed(wb, name) == wb[CHOOSE s \in DOMAIN wb : wb[s].name = name]

(* Seeded bug: one key for all kinds of workbook. *)
CacheKeyOfLayout(kind, sig) == <<"schemamap", sig>>
(* _cache_key *)
CacheKey(kind, sig) == <<kind, sig>>

(* header_signature; the key an approval is remembered under. *)
KeyOf(kind, wb, m) == CacheKey(kind, Signature(SheetNamed(wb, m.sheet), m.row))

(* Seeded bug: an approval of a known layout is dropped. *)
RememberFirst(approved, kind, wb, m) ==
  LET key == KeyOf(kind, wb, m)
  IN  [k \in DOMAIN approved \cup {key} |-> IF k \in DOMAIN approved THEN approved[k] ELSE m]
(* cache_put: the latest approval of a layout counts. *)
Remember(approved, kind, wb, m) ==
  LET key == KeyOf(kind, wb, m)
  IN  [k \in DOMAIN approved \cup {key} |-> IF k = key THEN m ELSE approved[k]]

(* attempt_remap and the two upload routes: parse, else apply the mapping   *)
(* remembered for the first row that has one, else ask a model and a        *)
(* person.  What may go wrong on the way: the rows or the remembered        *)
(* mappings cannot be read ("lookup"); the mapping cannot be applied        *)
(* ("apply"); there is no sample or no model, its answer is of no use, or   *)
(* no audit can be kept for it ("proposal").                                *)
Troubles == {"none", "lookup", "apply", "proposal"}

Upload(kind, approved, wb, trouble) ==
  LET Sig(x) == CacheKey(kind, Signature(wb[x[1]], x[2]))
      hits   == {x \in Candidates(wb) : Sig(x) \in DOMAIN approved}
      first  == CHOOSE x \in hits : \A y \in hits :
                  x[1] < y[1] \/ (x[1] = y[1] /\ x[2] <= y[2])
      Ends(how) == [how |-> how, parse |-> NoParse]
  IN  IF Parse(kind, wb) # NoParse
      THEN [how |-> "known", parse |-> Parse(kind, wb)]
      ELSE IF trouble = "lookup" THEN Ends("failed")
      ELSE IF hits = {} THEN Ends(IF trouble = "proposal" THEN "failed" ELSE "audit")
      ELSE IF trouble = "apply" THEN Ends("failed")
      ELSE [how |-> "cached",
            parse |-> Parse(kind, Applied(wb, approved[Sig(first)]))]

=============================================================================
