---------------------------- MODULE ReportsProofs ---------------------------
(***************************************************************************)
(* Theorems about Reports.                                                 *)
(***************************************************************************)
EXTENDS Reports, FiniteSetTheorems, WellFoundedInduction, TLAPS

-----------------------------------------------------------------------------
(* Sets of naturals. *)

LEMMA LeastExists ==
  ASSUME NEW T, T \subseteq Nat, T # {}
  PROVE  \E x \in T : \A y \in T : x <= y
<1> DEFINE Upto == {0..k : k \in T}
<1>1. Upto \subseteq FiniteSubsetsOf(Nat) /\ Upto # {}
  <2>1. \A k \in T : 0..k \in SUBSET Nat /\ IsFiniteSet(0..k)
    BY FS_Interval
  <2> QED
    BY <2>1 DEF FiniteSubsetsOf
<1>2. PICK U \in Upto : \A V \in Upto : <<V, U>> \notin StrictSubsetOrdering(Nat)
  <2> HIDE DEF Upto
  <2> QED
    BY <1>1, FS_StrictSubsetOrderingWellFounded, WFMin
<1>3. PICK x \in T : U = 0..x
  OBVIOUS
<1>4. ASSUME NEW y \in T, y < x PROVE FALSE
  <2>1. 0..y \in Upto /\ x \in Nat /\ y \in Nat
    OBVIOUS
  <2>2. 0..y \subseteq 0..x /\ x \in 0..x /\ x \notin 0..y
    BY <1>4, <2>1
  <2>3. <<0..y, U>> \in StrictSubsetOrdering(Nat)
    BY <1>3, <2>1, <2>2 DEF StrictSubsetOrdering
  <2> QED
    BY <1>2, <2>1, <2>3
<1> QED
  BY <1>4

LEMMA GreatestExists ==
  ASSUME NEW T, T \subseteq Nat, IsFiniteSet(T), T # {}
  PROVE  \E x \in T : \A y \in T : y <= x
<1> DEFINE Above(t) == {u \in T : t < u}
           Tails    == {Above(t) : t \in T}
<1>1. Tails \subseteq FiniteSubsetsOf(T) /\ Tails # {}
  <2>1. \A t \in T : Above(t) \in SUBSET T /\ IsFiniteSet(Above(t))
    BY FS_Subset
  <2> QED
    BY <2>1 DEF FiniteSubsetsOf
<1>2. PICK U \in Tails : \A V \in Tails : <<V, U>> \notin StrictSubsetOrdering(T)
  <2> HIDE DEF Tails
  <2> QED
    BY <1>1, FS_StrictSubsetOrderingWellFounded, WFMin
<1>3. PICK x \in T : U = Above(x)
  OBVIOUS
<1>4. ASSUME NEW y \in T, x < y PROVE FALSE
  <2>1. Above(y) \in Tails
    OBVIOUS
  <2> x \in Nat /\ y \in Nat /\ x < y
    BY <1>4
  <2>2. Above(y) \subseteq Above(x) /\ y \in Above(x) /\ y \notin Above(y)
    <3>1. \A u \in T : u \in Nat /\ (y < u => x < u)
      OBVIOUS
    <3>2. ~(y < y)
      OBVIOUS
    <3> QED
      BY <3>1, <3>2
  <2>3. <<Above(y), U>> \in StrictSubsetOrdering(T)
    BY <1>3, <2>1, <2>2 DEF StrictSubsetOrdering
  <2> QED
    BY <1>2, <2>1, <2>3
<1> QED
  BY <1>4

LEMMA FiniteImage ==
  ASSUME NEW S, IsFiniteSet(S), NEW f, DOMAIN f = S
  PROVE  IsFiniteSet({f[x] : x \in S})
<1> DEFINE g == [x \in S |-> f[x]]
<1>1. g \in Surjection(S, {f[x] : x \in S})
  BY DEF Surjection
<1> QED
  BY <1>1, FS_Surjection

-----------------------------------------------------------------------------
(* The annotated workbook. *)

(* A free block is found behind the last populated column at the latest,    *)
(* and the first one is not over any cell that holds something.             *)
LEMMA BlockIsFree ==
  ASSUME NEW sheet, DOMAIN sheet \subseteq Rows \X Nat, IsFiniteSet(DOMAIN sheet)
  PROVE  /\ EvidenceStart(sheet) \in Nat \ {0}
         /\ \A c \in EvidenceStart(sheet)..(EvidenceStart(sheet) + Width - 1) :
              ~Populated(sheet, c)
         /\ \A rc \in DOMAIN sheet : sheet[rc] # Blank => rc \in Rows \X Columns(sheet)
         /\ S_COL \in Columns(sheet)
<1> USE ExportAssumption
<1> DEFINE filled == {x \in DOMAIN sheet : sheet[x] # Blank}
           used   == {rc[2] : rc \in filled}
           Free(s) == s \in Nat \ {0} /\ \A c \in s..(s + Width - 1) : ~Populated(sheet, c)
<1>1. used \subseteq Nat /\ IsFiniteSet(used \cup {0})
  <2>1. IsFiniteSet(filled)
    BY FS_Subset
  <2>2. IsFiniteSet(used)
    <3> DEFINE col == [rc \in filled |-> rc[2]]
    <3>1. DOMAIN col = filled /\ used = {col[rc] : rc \in filled}
      OBVIOUS
    <3> HIDE DEF col, used, filled
    <3> QED
      BY <2>1, <3>1, FiniteImage
  <2> QED
    BY <2>2, FS_AddElement
<1> HIDE DEF used
<1>2. PICK last \in used \cup {0} : \A d \in used \cup {0} : d <= last
  <2> DEFINE T == used \cup {0}
  <2>1. T \subseteq Nat /\ IsFiniteSet(T) /\ T # {}
    BY <1>1
  <2> HIDE DEF T
  <2>2. \E x \in T : \A y \in T : y <= x
    BY <2>1, GreatestExists
  <2> QED
    BY <2>2 DEF T
<1>3. Columns(sheet) = 0..(Width + last) /\ last \in Nat
  <2> DEFINE m == CHOOSE c \in used \cup {0} : \A d \in used \cup {0} : d <= c
  <2>1. m \in used \cup {0} /\ \A d \in used \cup {0} : d <= m
    BY <1>2
  <2>2. Columns(sheet) = 0..(Width + m)
    BY DEF Columns, used
  <2> HIDE DEF m
  <2>3. m = last
    BY <1>1, <1>2, <2>1
  <2> QED
    BY <1>1, <1>2, <2>2, <2>3
<1>4. \A r \in Rows, c \in Nat : At(sheet, r, c) # Blank => c \in used
  BY DEF At, used
<1>5. Free(last + 1)
  <2>1. \A c \in Nat : c > last => c \notin used
    BY <1>1, <1>2, <1>3
  <2>2. \A c \in Nat : c > last => ~Populated(sheet, c)
    BY <1>4, <2>1 DEF Populated
  <2> QED
    BY <1>3, <2>2
<1>6. PICK s \in {t \in Nat : Free(t)} : \A t \in {u \in Nat : Free(u)} : s <= t
  <2>1. {t \in Nat : Free(t)} # {}
    BY <1>3, <1>5
  <2> QED
    BY <2>1, LeastExists
<1> s \in Nat \ {0}
  BY <1>6
<1>7. \A t \in EVIDENCE_START_COL..(s - 1) : \E c \in t..(t + Width - 1) : Populated(sheet, c)
  <2> SUFFICES ASSUME NEW t \in EVIDENCE_START_COL..(s - 1),
                      \A c \in t..(t + Width - 1) : ~Populated(sheet, c)
               PROVE  FALSE
    OBVIOUS
  <2>1. t \in Nat \ {0} /\ t < s
    BY DEF EVIDENCE_START_COL
  <2> QED
    BY <1>6, <2>1
<1>8. s \in Columns(sheet) /\ s >= EVIDENCE_START_COL
  <2>1. s <= last + 1
    BY <1>3, <1>5, <1>6
  <2> QED
    BY <1>3, <2>1 DEF EVIDENCE_START_COL
<1>9. Free(EvidenceStart(sheet))
  <2>1. \A c \in s..(s + Width - 1) : ~Populated(sheet, c)
    BY <1>6
  <2>2. EvidenceStart(sheet) \in Columns(sheet)
        /\ EvidenceStart(sheet) >= EVIDENCE_START_COL
        /\ \A c \in EvidenceStart(sheet)..(EvidenceStart(sheet) + Width - 1) :
             ~Populated(sheet, c)
    BY <1>7, <1>8, <2>1 DEF EvidenceStart
  <2> QED
    BY <1>3, <2>2 DEF EVIDENCE_START_COL
<1>10. \A rc \in filled : rc \in Rows \X Columns(sheet)
  <2> TAKE rc \in filled
  <2>1. rc[1] \in Rows /\ rc[2] \in Nat /\ rc = <<rc[1], rc[2]>> /\ rc[2] \in used
    BY DEF used
  <2>2. rc[2] <= last
    BY <1>2, <2>1
  <2>3. rc[2] \in Columns(sheet)
    BY <1>3, <2>1, <2>2
  <2> QED
    BY <2>1, <2>3
<1> QED
  BY <1>3, <1>9, <1>10 DEF S_COL

(* What the export makes of a sheet keeps what stood in it. *)
LEMMA SheetIsKept ==
  ASSUME NEW x \in Exports, NEW out, out = Annotated(x.sheet, x.verdicts, x.overrides),
         NEW rc \in DOMAIN x.sheet, x.sheet[rc] # Blank
  PROVE  \/ out[rc] = x.sheet[rc]
         \/ rc[2] = S_COL /\ rc[1] \in DOMAIN x.overrides /\ x.overrides[rc[1]] # Blank
<1> DEFINE start == EvidenceStart(x.sheet)
           block == start..(start + Width - 1)
<1>1. DOMAIN x.sheet \subseteq Rows \X Nat /\ IsFiniteSet(DOMAIN x.sheet)
      /\ DOMAIN x.overrides = DOMAIN x.verdicts
  BY ExportsAssumption
<1>2. /\ start \in Nat \ {0} /\ \A c \in block : ~Populated(x.sheet, c)
      /\ rc \in Rows \X Columns(x.sheet)
  BY <1>1, BlockIsFree
<1>3. PICK r \in Rows, c \in Columns(x.sheet) : rc = <<r, c>>
  BY <1>2
<1>4. At(x.sheet, r, c) = x.sheet[rc] /\ Populated(x.sheet, c)
  BY <1>3 DEF At, Populated
<1>5. c \notin block /\ c # start
  BY <1>2, <1>4, ExportAssumption
<1>6. rc \in Rows \X (Columns(x.sheet) \cup block)
  BY <1>2
<1>7. out[rc] = IF r \in DOMAIN x.verdicts /\ c = S_COL
                THEN Put(At(x.sheet, r, S_COL),
                         SText(At(x.sheet, r, S_COL), x.verdicts[r], x.overrides[r]))
                ELSE At(x.sheet, r, c)
  BY <1>3, <1>5, <1>6 DEF Annotated
<1>8. CASE r \in DOMAIN x.verdicts /\ c = S_COL
  BY <1>1, <1>3, <1>4, <1>7, <1>8 DEF SText, Put
<1>9. CASE ~(r \in DOMAIN x.verdicts /\ c = S_COL)
  BY <1>4, <1>7, <1>9
<1> QED
  BY <1>8, <1>9

(* The first column of the block is the one that accounts for the sheet. *)
LEMMA BlockAccounts ==
  ASSUME NEW x \in Exports, NEW out, out = Annotated(x.sheet, x.verdicts, x.overrides),
         NEW start, start = EvidenceStart(x.sheet)
  PROVE  /\ start \in {rc[2] : rc \in DOMAIN out}
         /\ out[<<HeaderRow, start>>] = "STATUS"
         /\ \A r \in Rows \ ({HeaderRow} \cup DOMAIN x.verdicts) :
              out[<<r, start>>] = Blank
         /\ \A r \in DOMAIN x.verdicts :
              /\ out[<<r, start>>]
                   = StatusCell(At(x.sheet, r, S_COL), x.verdicts[r], x.overrides[r])
              /\ out[<<r, S_COL>>]
                   = Put(At(x.sheet, r, S_COL),
                         SText(At(x.sheet, r, S_COL), x.verdicts[r], x.overrides[r]))
<1> DEFINE block == start..(start + Width - 1)
<1>1. DOMAIN x.sheet \subseteq Rows \X Nat /\ IsFiniteSet(DOMAIN x.sheet)
      /\ DOMAIN x.verdicts \subseteq Rows \ {HeaderRow}
  BY ExportsAssumption
<1>2. /\ start \in Nat \ {0} /\ \A c \in block : ~Populated(x.sheet, c)
      /\ S_COL \in Columns(x.sheet)
  BY <1>1, BlockIsFree
<1>3. start \in block /\ start # S_COL
  BY <1>2, ExportAssumption DEF S_COL
<1>4. DOMAIN out = Rows \X (Columns(x.sheet) \cup block)
  BY DEF Annotated
<1>5. \A r \in Rows :
        out[<<r, start>>] =
          IF r \in DOMAIN x.verdicts
          THEN StatusCell(At(x.sheet, r, S_COL), x.verdicts[r], x.overrides[r])
          ELSE IF r = HeaderRow THEN "STATUS" ELSE At(x.sheet, r, start)
  <2> TAKE r \in Rows
  <2>1. <<r, start>> \in Rows \X (Columns(x.sheet) \cup block)
    BY <1>3
  <2> QED
    BY <1>3, <2>1 DEF Annotated
<1>6. \A r \in DOMAIN x.verdicts :
        out[<<r, S_COL>>] = Put(At(x.sheet, r, S_COL),
                                SText(At(x.sheet, r, S_COL), x.verdicts[r], x.overrides[r]))
  <2> TAKE r \in DOMAIN x.verdicts
  <2>1. <<r, S_COL>> \in Rows \X (Columns(x.sheet) \cup block)
    BY <1>1, <1>2
  <2> QED
    BY <2>1 DEF Annotated
<1>7. \A r \in Rows : At(x.sheet, r, start) = Blank
  BY <1>2, <1>3 DEF Populated
<1>8. <<HeaderRow, start>> \in DOMAIN out
  BY <1>3, <1>4, ExportAssumption
<1>9. start \in {rc[2] : rc \in DOMAIN out}
  <2> \E rc \in DOMAIN out : rc[2] = start
    <3> WITNESS <<HeaderRow, start>> \in DOMAIN out
    <3> QED OBVIOUS
  <2> QED OBVIOUS
<1> QED
  BY <1>1, <1>5, <1>6, <1>7, <1>9, ExportAssumption

(* What column S and the STATUS cell say together. *)
LEMMA StatusTells ==
  ASSUME NEW before, NEW verdict, NEW override,
         NEW status, status = StatusCell(before, verdict, override),
         NEW s, s = Put(before, SText(before, verdict, override))
  PROVE  /\ status.verdict = verdict
         /\ before # Blank => before \in {s, status.replaced}
         /\ s # ColumnS(status.verdict) => status.override \/ status.disagrees
         /\ override # Blank => s = ColumnS(override) \/ (override = "matched" /\ before # Blank)
<1>1. status.verdict = verdict
  BY DEF StatusCell
<1>2. CASE override # Blank
  <2>1. status.replaced = before /\ status.override
    BY <1>2 DEF StatusCell
  <2>2. s = ColumnS(override) \/ (override = "matched" /\ before # Blank)
    BY <1>2 DEF SText, Put, ColumnS
  <2> QED
    BY <1>1, <1>2, <2>1, <2>2
<1>3. CASE override = Blank /\ before # Blank
  <2>1. s = before /\ (before # ColumnS(verdict) => status.disagrees)
    BY <1>3 DEF StatusCell, SText, Put
  <2> QED
    BY <1>1, <1>3, <2>1
<1>4. CASE override = Blank /\ before = Blank
  BY <1>1, <1>4 DEF SText, Put
<1> QED
  BY <1>2, <1>3, <1>4

-----------------------------------------------------------------------------
(* The inductive invariant: what a task has come to is what its function    *)
(* makes of the input.  Of an adjudication it says how far it is, which     *)
(* rows can have been touched, and what every chunk has cost.               *)

ExportOutcome ==
  task.op = "export" =>
    /\ task.in \in Exports
    /\ \/ result = NoResult
       \/ result = Annotated(task.in.sheet, task.in.verdicts, task.in.overrides)

THEOREM ExportOutcomeHolds == Spec => []ExportOutcome
<1>1. Init => ExportOutcome
  BY DEF Init, ExportOutcome
<1>2. ExportOutcome /\ [Next]_vars => ExportOutcome'
  <2> SUFFICES ASSUME ExportOutcome, [Next]_vars, task.op = "export"
               PROVE  ExportOutcome'
    BY DEF Next, vars, Analyze, Annotate, Propose, Approve, UploadAgain, ModelFails,
           ModelRambles, ModelAnswers, Converse, ExportOutcome
  <2>1. CASE Annotate
    BY <2>1 DEF Annotate, ExportOutcome
  <2>2. CASE UNCHANGED vars
    BY <2>2 DEF vars, ExportOutcome
  <2> QED
    BY <2>1, <2>2 DEF Next, Analyze, Propose, Approve, ModelFails, ModelRambles,
                      ModelAnswers, Converse
<1> QED
  BY <1>1, <1>2, PTL DEF Spec

(* Nothing a person wrote into the sheet is lost but for an override. *)
THEOREM SheetSurvives == Spec => []NothingOverwritten
<1>1. ExportOutcome => NothingOverwritten
  <2> SUFFICES ASSUME ExportOutcome, Done("export"),
                      NEW rc \in DOMAIN task.in.sheet, task.in.sheet[rc] # Blank
               PROVE  \/ result[rc] = task.in.sheet[rc]
                      \/ rc[2] = S_COL /\ rc[1] \in DOMAIN task.in.overrides
                         /\ task.in.overrides[rc[1]] # Blank
    BY DEF NothingOverwritten
  <2>1. task.in \in Exports
        /\ result = Annotated(task.in.sheet, task.in.verdicts, task.in.overrides)
    BY DEF ExportOutcome, Done
  <2> QED
    BY <2>1, SheetIsKept
<1> QED
  BY <1>1, ExportOutcomeHolds, PTL

(* The export says of itself what the pipeline said and what was replaced. *)
THEOREM ExportIsAuditable == Spec => []ExportAuditsItself
<1>1. ExportOutcome => ExportAuditsItself
  <2> SUFFICES ASSUME ExportOutcome, Done("export") PROVE ExportAuditsItself
    BY DEF ExportAuditsItself
  <2>1. task.in \in Exports
        /\ result = Annotated(task.in.sheet, task.in.verdicts, task.in.overrides)
    BY DEF ExportOutcome, Done
  <2> DEFINE start == EvidenceStart(task.in.sheet)
  <2>2. /\ start \in {rc[2] : rc \in DOMAIN result}
        /\ result[<<HeaderRow, start>>] = "STATUS"
        /\ \A r \in Rows \ ({HeaderRow} \cup DOMAIN task.in.verdicts) :
             result[<<r, start>>] = Blank
        /\ \A r \in DOMAIN task.in.verdicts :
             /\ result[<<r, start>>]
                  = StatusCell(At(task.in.sheet, r, S_COL), task.in.verdicts[r],
                               task.in.overrides[r])
             /\ result[<<r, S_COL>>]
                  = Put(At(task.in.sheet, r, S_COL),
                        SText(At(task.in.sheet, r, S_COL), task.in.verdicts[r],
                              task.in.overrides[r]))
    BY <2>1, BlockAccounts
  <2> HIDE DEF start
  <2> SUFFICES
        \A r \in DOMAIN task.in.verdicts :
          LET status == result[<<r, start>>]
              before == At(task.in.sheet, r, S_COL)
          IN  /\ status.verdict = task.in.verdicts[r]
              /\ before # Blank => before \in {result[<<r, S_COL>>], status.replaced}
              /\ result[<<r, S_COL>>] # ColumnS(status.verdict)
                   => status.override \/ status.disagrees
              /\ LET chosen == task.in.overrides[r] IN
                 chosen # Blank => \/ result[<<r, S_COL>>] = ColumnS(chosen)
                                   \/ chosen = "matched" /\ before # Blank
    BY <2>2 DEF ExportAuditsItself
  <2> TAKE r \in DOMAIN task.in.verdicts
  <2> USE <2>2
  <2> QED
    BY StatusTells
<1> QED
  BY <1>1, ExportOutcomeHolds, PTL

-----------------------------------------------------------------------------
(* The adjudication. *)

(* The chunks number 1 to NumberOfChunks, and every asked row is in one of  *)
(* them; that it is in no other is by definition.                           *)
LEMMA EveryAskedRowHasAChunk ==
  ASSUME NEW verdicts \in Dialogues
  PROVE  /\ NumberOfChunks(verdicts) \in Int
         /\ \A r \in Asked(verdicts) :
              \E k \in 1..NumberOfChunks(verdicts) : r \in Chunk(verdicts, k)
<1> USE AdjudicationAssumption
<1> DEFINE asked == Asked(verdicts)
           size  == Cardinality(asked)
<1>1. IsFiniteSet(asked) /\ size \in Nat
  <2>1. Len(verdicts) \in Nat /\ DOMAIN verdicts = 1..Len(verdicts)
    BY DialoguesAssumption
  <2>2. IsFiniteSet(1..Len(verdicts)) /\ asked \subseteq 1..Len(verdicts)
    BY <2>1, FS_Interval DEF Asked
  <2> QED
    BY <2>2, FS_Subset, FS_CardinalityType
<1>2. NumberOfChunks(verdicts) = (size + BATCH_SIZE - 1) \div BATCH_SIZE
  BY DEF NumberOfChunks
<1> HIDE DEF size
<1>3. NumberOfChunks(verdicts) \in Int
  BY <1>1, <1>2
<1>4. ASSUME NEW r \in asked
      PROVE  \E k \in 1..NumberOfChunks(verdicts) : r \in Chunk(verdicts, k)
  <2> DEFINE place == Place(verdicts, r)
  <2>1. place \in Nat /\ place < size
    <3> DEFINE above == {i \in asked : i < r}
    <3>1. r \in Int
      BY DialoguesAssumption DEF Asked
    <3>2. above \subseteq asked /\ above # asked
      BY <3>1
    <3>3. Cardinality(above) \in Nat /\ Cardinality(above) < size
      <4> HIDE DEF above
      <4> QED
        BY <1>1, <3>2, FS_Subset, FS_CardinalityType DEF size
    <3> QED
      BY <3>3 DEF Place
  <2> HIDE DEF place
  <2> DEFINE k == place \div BATCH_SIZE + 1
  <2>2. k \in 1..NumberOfChunks(verdicts)
    BY <1>1, <1>2, <2>1
  <2>3. place \div BATCH_SIZE = k - 1
    BY <2>1
  <2>4. r \in Chunk(verdicts, k)
    BY <1>4, <2>3 DEF Chunk, place
  <2> QED
    BY <2>2, <2>4
<1> QED
  BY <1>3, <1>4

LEMMA ChunksAreDisjoint ==
  ASSUME NEW verdicts, NEW j \in Int, NEW k \in Int, NEW r,
         r \in Chunk(verdicts, j), r \in Chunk(verdicts, k)
  PROVE  j = k
BY DEF Chunk

(* How far a dialogue is: the chunks before the present one, c, are settled,*)
(* the present one has failed a - 1 times, the others were not begun; a row *)
(* was touched in its own chunk or not at all.                              *)
CallsFit(N, c, a, calls) ==
  /\ calls \in [1..N -> Nat]
  /\ \A k \in 1..N : /\ k < c => calls[k] \in {1, 2}
                     /\ k = c => calls[k] = a - 1
                     /\ k > c => calls[k] = 0

NoteKinds == {"none", "unavailable", "malformed", "unsure"}

NoteFits(answer, note) ==
  /\ answer = NoAnswer \/ note \in {"none", "unsure"}
  /\ note = "unsure" => answer = "UNSURE"

RowFits(N, verdicts, c, calls, r, answer, note) ==
  /\ answer # NoAnswer \/ note # "none" => \E k \in 1..N : k < c /\ r \in Chunk(verdicts, k)
  /\ NoteFits(answer, note)
  /\ note = "malformed" =>
       \E k \in 1..N : k < c /\ r \in Chunk(verdicts, k) /\ calls[k] = 2

Settled(verdicts, c, a, answer, note, calls) ==
  LET N == NumberOfChunks(verdicts)
  IN  /\ c \in Nat \ {0} /\ a \in {1, 2}
      /\ answer \in [DOMAIN verdicts -> Answers \cup {NoAnswer}]
      /\ note \in [DOMAIN verdicts -> NoteKinds]
      /\ CallsFit(N, c, a, calls)
      /\ \A r \in DOMAIN verdicts : RowFits(N, verdicts, c, calls, r, answer[r], note[r])

Dialogue(c, a, answer, note) ==
  [chunk |-> c, attempt |-> a, answer |-> answer, note |-> note]

AdjudicationOutcome ==
  task.op = "adjudicate" =>
    /\ task.in \in Dialogues
    /\ result # NoResult =>
         LET d == result.dialogue
         IN  /\ d = Dialogue(d.chunk, d.attempt, d.answer, d.note)
             /\ Settled(task.in, d.chunk, d.attempt, d.answer, d.note, result.calls)

LEMMA FreshIsSettled ==
  ASSUME NEW verdicts \in Dialogues
  PROVE  /\ Settled(verdicts, 1, 1, [r \in DOMAIN verdicts |-> NoAnswer],
                    [r \in DOMAIN verdicts |-> "none"], [k \in 1..NumberOfChunks(verdicts) |-> 0])
         /\ Fresh(verdicts) = Dialogue(1, 1, [r \in DOMAIN verdicts |-> NoAnswer],
                                       [r \in DOMAIN verdicts |-> "none"])
<1>1. PICK N \in Int : N = NumberOfChunks(verdicts)
  BY EveryAskedRowHasAChunk
<1>2. CallsFit(N, 1, 1, [k \in 1..N |-> 0])
  BY DEF CallsFit
<1> QED
  BY <1>1, <1>2 DEF Settled, RowFits, NoteFits, NoteKinds, Fresh, Dialogue

(* The rows of the present chunk are as they came. *)
LEMMA PresentChunkIsUntouched ==
  ASSUME NEW verdicts, NEW c \in Nat, NEW calls, NEW N \in Int, NEW r, NEW answer, NEW note,
         RowFits(N, verdicts, c, calls, r, answer, note), r \in Chunk(verdicts, c)
  PROVE  answer = NoAnswer /\ note = "none"
<1>1. \A k \in 1..N : k < c => r \notin Chunk(verdicts, k)
  BY ChunksAreDisjoint
<1> QED
  BY <1>1 DEF RowFits

(* Moving on: one more call to the present chunk, whose rows get answers,   *)
(* or a note and no answer.                                                 *)
LEMMA MovesOn ==
  ASSUME NEW verdicts \in Dialogues, NEW c \in Nat, NEW a \in Nat, NEW answer, NEW note, NEW calls,
         Settled(verdicts, c, a, answer, note, calls), c <= NumberOfChunks(verdicts),
         NEW x \in [DOMAIN verdicts -> Answers \cup {NoAnswer}],
         NEW n \in [DOMAIN verdicts -> NoteKinds],
         \A r \in DOMAIN verdicts : r \notin Chunk(verdicts, c) =>
           x[r] = answer[r] /\ n[r] = note[r],
         \A r \in DOMAIN verdicts : r \in Chunk(verdicts, c) =>
           NoteFits(x[r], n[r]) /\ (n[r] = "malformed" => a = 2)
  PROVE  Settled(verdicts, c + 1, 1, x, n, [calls EXCEPT ![c] = @ + 1])
<1>1. PICK N \in Int : N = NumberOfChunks(verdicts)
  BY EveryAskedRowHasAChunk
<1>2. PICK now : now = [calls EXCEPT ![c] = @ + 1]
  OBVIOUS
<1>3. c # 0 /\ a \in {1, 2}
  BY DEF Settled
<1>4. c \in 1..N
  BY <1>1, <1>3
<1>5. CallsFit(N, c, a, calls)
  BY <1>1 DEF Settled
<1>6. now \in [1..N -> Nat] /\ now[c] = a
      /\ \A k \in 1..N : k # c => now[k] = calls[k]
  BY <1>2, <1>3, <1>4, <1>5 DEF CallsFit
<1>7. CallsFit(N, c + 1, 1, now)
  <2>1. \A k \in 1..N : k < c + 1 => now[k] \in {1, 2}
    <3> TAKE k \in 1..N
    <3>1. k < c + 1 => k = c \/ k < c
      OBVIOUS
    <3> QED
      BY <1>3, <1>5, <1>6, <3>1 DEF CallsFit
  <2>2. \A k \in 1..N : k = c + 1 \/ k > c + 1 => now[k] = 0
    <3> TAKE k \in 1..N
    <3>1. k = c + 1 \/ k > c + 1 => k > c /\ k # c
      OBVIOUS
    <3> QED
      BY <1>5, <1>6, <3>1 DEF CallsFit
  <2> QED
    BY <1>6, <2>1, <2>2 DEF CallsFit
<1>8. \A k \in 1..N : k < c => now[k] = calls[k]
  BY <1>4, <1>6
<1>9. ASSUME NEW r \in DOMAIN verdicts
      PROVE  RowFits(N, verdicts, c + 1, now, r, x[r], n[r])
  <2>1. RowFits(N, verdicts, c, calls, r, answer[r], note[r])
    BY <1>1 DEF Settled
  <2>2. CASE r \in Chunk(verdicts, c)
    <3>1. NoteFits(x[r], n[r]) /\ (n[r] = "malformed" => now[c] = 2)
      BY <1>6, <2>2
    <3>2. c < c + 1
      BY <1>3
    <3> QED
      BY <1>4, <2>2, <3>1, <3>2 DEF RowFits
  <2>3. CASE r \notin Chunk(verdicts, c)
    <3>1. x[r] = answer[r] /\ n[r] = note[r]
      BY <2>3
    <3>2. \A k \in 1..N : k < c => k < c + 1
      BY <1>3
    <3> QED
      BY <1>8, <2>1, <3>1, <3>2 DEF RowFits
  <2> QED
    BY <2>2, <2>3
<1>10. c + 1 \in Nat /\ c + 1 # 0
  OBVIOUS
<1> QED
  BY <1>1, <1>2, <1>7, <1>9, <1>10 DEF Settled

(* The four things a call can come to. *)
ComesTo(verdicts, d, e) ==
  \/ e = CallRaises(verdicts, d)
  \/ e = Malformed(verdicts, d)
  \/ \E S \in SUBSET DOMAIN verdicts : \E items \in [S -> Answers] :
       e = Answered(verdicts, d, items)

LEMMA CallSettles ==
  ASSUME NEW verdicts \in Dialogues, NEW c \in Nat, NEW a \in Nat, NEW answer, NEW note, NEW calls,
         Settled(verdicts, c, a, answer, note, calls),
         NEW d, d = Dialogue(c, a, answer, note), ~Over(verdicts, d), NEW e, ComesTo(verdicts, d, e)
  PROVE  \E k, b, x, n : /\ e = Dialogue(k, b, x, n)
                         /\ Settled(verdicts, k, b, x, n, [calls EXCEPT ![c] = @ + 1])
<1>1. PICK N \in Int : N = NumberOfChunks(verdicts)
  BY EveryAskedRowHasAChunk
<1>2. /\ c # 0 /\ a \in {1, 2}
      /\ answer \in [DOMAIN verdicts -> Answers \cup {NoAnswer}]
      /\ note \in [DOMAIN verdicts -> NoteKinds]
  BY DEF Settled
<1>3. c <= N /\ c \in 1..N
  <2>1. ~(c > N)
    BY <1>1 DEF Over, Dialogue
  <2> QED
    BY <1>2, <2>1
<1>10. \A r \in DOMAIN verdicts : r \in Chunk(verdicts, c) =>
         answer[r] = NoAnswer /\ note[r] = "none"
  <2> TAKE r \in DOMAIN verdicts
  <2>1. RowFits(N, verdicts, c, calls, r, answer[r], note[r])
    BY <1>1 DEF Settled
  <2> QED
    BY <1>1, <2>1, PresentChunkIsUntouched
<1> DEFINE Noted(text) == [r \in DOMAIN note |->
                             IF r \in Chunk(verdicts, c) THEN text ELSE note[r]]
<1>4. \A text : NoteChunk(verdicts, d, text) = Dialogue(c, a, answer, Noted(text))
  <2> TAKE text
  <2>1. d.chunk = c /\ d.note = note
    BY DEF Dialogue
  <2>2. [r \in DOMAIN d.note |-> IF r \in Chunk(verdicts, d.chunk) THEN text ELSE d.note[r]]
          = Noted(text)
    BY <2>1
  <2> HIDE DEF Noted
  <2> QED
    BY <2>2 DEF NoteChunk, Dialogue
<1>5. \A x, n : NextChunk(Dialogue(c, a, x, n)) = Dialogue(c + 1, 1, x, n)
  <2> TAKE x, n
  <2>1. PICK m : m = Dialogue(c, a, x, n)
    OBVIOUS
  <2>2. m.chunk = c /\ m.attempt = a
    BY <2>1 DEF Dialogue
  <2>3. NextChunk(m) = [m EXCEPT !.chunk = c + 1, !.attempt = 1]
    BY <2>2 DEF NextChunk
  <2> QED
    BY <2>1, <2>3 DEF Dialogue
<1>6. CASE e = CallRaises(verdicts, d)
  <2>1. e = Dialogue(c + 1, 1, answer, Noted("unavailable"))
    BY <1>4, <1>5, <1>6 DEF CallRaises
  <2>2. Noted("unavailable") \in [DOMAIN verdicts -> NoteKinds]
    BY <1>2 DEF NoteKinds
  <2>3. \A r \in DOMAIN verdicts :
          /\ r \notin Chunk(verdicts, c) => Noted("unavailable")[r] = note[r]
          /\ r \in Chunk(verdicts, c) =>
               /\ NoteFits(answer[r], Noted("unavailable")[r])
               /\ Noted("unavailable")[r] = "malformed" => a = 2
    BY <1>2, <1>10 DEF NoteFits
  <2>4. Settled(verdicts, c + 1, 1, answer, Noted("unavailable"), [calls EXCEPT ![c] = @ + 1])
    <3> HIDE DEF Noted
    <3> QED
      BY <1>1, <1>2, <1>3, <2>2, <2>3, MovesOn
  <2> QED
    BY <2>1, <2>4
<1>7. CASE e = Malformed(verdicts, d) /\ a = 1
  <2>1. e = Dialogue(c, 2, answer, note)
    BY <1>7 DEF Malformed, Dialogue
  <2>2. PICK now : now = [calls EXCEPT ![c] = @ + 1]
    OBVIOUS
  <2>3. now \in [1..N -> Nat] /\ now[c] = 1
        /\ \A k \in 1..N : k # c => now[k] = calls[k]
    <3>1. calls \in [1..N -> Nat] /\ calls[c] = a - 1
      BY <1>1, <1>2, <1>3 DEF CallsFit, Settled
    <3> QED
      BY <1>3, <1>7, <2>2, <3>1
  <2>4. CallsFit(N, c, 2, now)
    <3>1. CallsFit(N, c, a, calls)
      BY <1>1 DEF Settled
    <3> QED
      BY <1>3, <2>3, <3>1 DEF CallsFit
  <2>5. \A k \in 1..N : k < c => now[k] = calls[k]
    BY <1>3, <2>3
  <2>6. \A r \in DOMAIN verdicts : RowFits(N, verdicts, c, now, r, answer[r], note[r])
    <3>1. \A r \in DOMAIN verdicts : RowFits(N, verdicts, c, calls, r, answer[r], note[r])
      BY <1>1 DEF Settled
    <3> QED
      BY <2>5, <3>1 DEF RowFits
  <2>7. Settled(verdicts, c, 2, answer, note, now)
    BY <1>1, <1>2, <2>4, <2>6 DEF Settled
  <2> QED
    BY <2>1, <2>2, <2>7
<1>8. CASE e = Malformed(verdicts, d) /\ a # 1
  <2>1. d.attempt # 1
    BY <1>8 DEF Dialogue
  <2>2. e = Dialogue(c + 1, 1, answer, Noted("malformed"))
    BY <1>4, <1>5, <1>8, <2>1 DEF Malformed
  <2>3. Noted("malformed") \in [DOMAIN verdicts -> NoteKinds]
    BY <1>2 DEF NoteKinds
  <2>4. \A r \in DOMAIN verdicts :
          /\ r \notin Chunk(verdicts, c) => Noted("malformed")[r] = note[r]
          /\ r \in Chunk(verdicts, c) =>
               /\ NoteFits(answer[r], Noted("malformed")[r])
               /\ Noted("malformed")[r] = "malformed" => a = 2
    BY <1>2, <1>8, <1>10 DEF NoteFits
  <2>5. Settled(verdicts, c + 1, 1, answer, Noted("malformed"), [calls EXCEPT ![c] = @ + 1])
    <3> HIDE DEF Noted
    <3> QED
      BY <1>1, <1>2, <1>3, <2>3, <2>4, MovesOn
  <2> QED
    BY <2>2, <2>5
<1>9. ASSUME NEW S \in SUBSET DOMAIN verdicts, NEW items \in [S -> Answers],
             e = Answered(verdicts, d, items)
      PROVE  \E k, b, x, n : /\ e = Dialogue(k, b, x, n)
                             /\ Settled(verdicts, k, b, x, n, [calls EXCEPT ![c] = @ + 1])
  <2> DEFINE heard  == Chunk(verdicts, c) \cap DOMAIN items
             unsure == {r \in heard : items[r] = "UNSURE" /\ verdicts[r].status # "REVIEW"}
             x == [r \in DOMAIN answer |-> IF r \in heard THEN items[r] ELSE answer[r]]
             n == [r \in DOMAIN note |-> IF r \in unsure THEN "unsure" ELSE note[r]]
  <2>1. d.chunk = c /\ d.answer = answer /\ d.note = note
    BY DEF Dialogue
  <2>2. e = Dialogue(c + 1, 1, x, n)
    <3>1. e = NextChunk([d EXCEPT !.answer = x, !.note = n])
      BY <1>9, <2>1 DEF Answered
    <3> HIDE DEF x, n
    <3>2. PICK m : m = [d EXCEPT !.answer = x]
      OBVIOUS
    <3>3. m = Dialogue(c, a, x, note)
      BY <3>2 DEF Dialogue
    <3>4. [m EXCEPT !.note = n] = Dialogue(c, a, x, n)
      BY <3>3 DEF Dialogue
    <3> QED
      BY <1>5, <3>1, <3>2, <3>4
  <2>3. /\ x \in [DOMAIN verdicts -> Answers \cup {NoAnswer}]
        /\ n \in [DOMAIN verdicts -> NoteKinds]
    BY <1>2 DEF NoteKinds
  <2>4. ASSUME NEW r \in DOMAIN verdicts
        PROVE  /\ r \notin Chunk(verdicts, c) => x[r] = answer[r] /\ n[r] = note[r]
               /\ r \in Chunk(verdicts, c) =>
                    NoteFits(x[r], n[r]) /\ (n[r] = "malformed" => a = 2)
    <3>1. /\ x[r] = IF r \in heard THEN items[r] ELSE answer[r]
          /\ n[r] = IF r \in unsure THEN "unsure" ELSE note[r]
      BY <1>2
    <3>2. r \in unsure => r \in heard /\ items[r] = "UNSURE"
      OBVIOUS
    <3>3. r \in heard => r \in Chunk(verdicts, c)
      OBVIOUS
    <3> HIDE DEF heard, unsure, x, n
    <3>4. r \notin Chunk(verdicts, c) => x[r] = answer[r] /\ n[r] = note[r]
      BY <3>1, <3>2, <3>3
    <3>5. CASE r \in Chunk(verdicts, c)
      <4>1. answer[r] = NoAnswer /\ note[r] = "none"
        BY <1>10, <3>5
      <4>2. n[r] \in {"none", "unsure"}
        BY <3>1, <4>1
      <4>3. n[r] = "unsure" => x[r] = "UNSURE"
        BY <3>1, <3>2, <4>1
      <4> QED
        BY <3>5, <4>2, <4>3 DEF NoteFits
    <3> QED
      BY <3>4, <3>5
  <2> HIDE DEF x, n
  <2>5. Settled(verdicts, c + 1, 1, x, n, [calls EXCEPT ![c] = @ + 1])
    BY <1>1, <1>2, <1>3, <2>3, <2>4, MovesOn
  <2> QED
    BY <2>2, <2>5
<1> QED
  BY <1>6, <1>7, <1>8, <1>9 DEF ComesTo

THEOREM AdjudicationOutcomeHolds == Spec => []AdjudicationOutcome
<1>1. Init => AdjudicationOutcome
  BY DEF Init, AdjudicationOutcome
<1>2. AdjudicationOutcome /\ [Next]_vars => AdjudicationOutcome'
  <2> SUFFICES ASSUME AdjudicationOutcome, [Next]_vars
               PROVE  AdjudicationOutcome'
    OBVIOUS
  <2>1. CASE UNCHANGED vars
    BY <2>1 DEF vars, AdjudicationOutcome
  <2>2. CASE task.op # "adjudicate"
    BY <2>2 DEF Next, vars, Analyze, Annotate, Propose, Approve, UploadAgain, ModelFails,
           ModelRambles, ModelAnswers, Converse, AdjudicationOutcome
  <2>3. CASE Next /\ task.op = "adjudicate"
    <3> DEFINE N == NumberOfChunks(task.in)
    <3>1. task.in \in Dialogues
      BY <2>3 DEF AdjudicationOutcome
    <3>2. PICK c, a, answer, note, calls :
            /\ c \in Nat /\ a \in Nat
            /\ Begun.dialogue = Dialogue(c, a, answer, note) /\ Begun.calls = calls
            /\ Settled(task.in, c, a, answer, note, calls)
      <4>1. CASE result = NoResult
        <5>1. Begun = [dialogue |-> Fresh(task.in), calls |-> [k \in 1..N |-> 0]]
          BY <4>1 DEF Begun
        <5>2. Begun.dialogue = Fresh(task.in) /\ Begun.calls = [k \in 1..N |-> 0]
          BY <5>1
        <5> QED
          BY <3>1, <5>2, FreshIsSettled
      <4>2. CASE result # NoResult
        <5>1. Begun = result
          BY <4>2 DEF Begun
        <5> DEFINE d == result.dialogue
        <5>2. /\ d = Dialogue(d.chunk, d.attempt, d.answer, d.note)
              /\ Settled(task.in, d.chunk, d.attempt, d.answer, d.note, result.calls)
          BY <2>3, <4>2 DEF AdjudicationOutcome
        <5>3. d.chunk \in Nat /\ d.attempt \in Nat
          BY <5>2 DEF Settled
        <5> QED
          BY <5>1, <5>2, <5>3
      <4> QED
        BY <4>1, <4>2
    <3>3. PICK d : d = Begun.dialogue
      OBVIOUS
    <3>4. PICK e : ComesTo(task.in, d, e) /\ Converse(e)
      BY <2>3, <3>3 DEF Next, Analyze, Annotate, Propose, Approve, ModelFails, ModelRambles,
                        ModelAnswers, ComesTo
    <3>5. /\ ~Over(task.in, d) /\ task' = task
          /\ result' = [dialogue |-> e, calls |-> [calls EXCEPT ![d.chunk] = @ + 1]]
      BY <3>2, <3>3, <3>4 DEF Converse
    <3>6. d.chunk = c
      BY <3>2, <3>3 DEF Dialogue
    <3>7. PICK k, b, x, n : /\ e = Dialogue(k, b, x, n)
                            /\ Settled(task.in, k, b, x, n, [calls EXCEPT ![c] = @ + 1])
      <4>1. PICK verdicts \in Dialogues : verdicts = task.in
        BY <3>1
      <4>2. d = Dialogue(c, a, answer, note) /\ ~Over(verdicts, d)
        BY <3>2, <3>3, <3>5, <4>1
      <4>3. Settled(verdicts, c, a, answer, note, calls)
        BY <3>2, <4>1
      <4>4. ComesTo(verdicts, d, e)
        BY <3>4, <4>1
      <4>5. \E k, b, x, n : /\ e = Dialogue(k, b, x, n)
                            /\ Settled(verdicts, k, b, x, n, [calls EXCEPT ![c] = @ + 1])
        BY <3>2, <4>2, <4>3, <4>4, CallSettles
      <4> QED
        BY <4>1, <4>5
    <3>8. e.chunk = k /\ e.attempt = b /\ e.answer = x /\ e.note = n
      BY <3>7 DEF Dialogue
    <3>9. result'.dialogue = e /\ result'.calls = [calls EXCEPT ![c] = @ + 1]
      BY <3>5, <3>6
    <3> QED
      BY <3>1, <3>5, <3>7, <3>8, <3>9 DEF AdjudicationOutcome
  <2> QED
    BY <2>1, <2>2, <2>3
<1> QED
  BY <1>1, <1>2, PTL DEF Spec

(* A row has an answer or a note only of its own chunk, and every chunk its *)
(* turn, whatever the model answered to the others.                         *)
THEOREM ChunksAreApart == Spec => []EveryChunkGetsItsAnswers
<1>1. AdjudicationOutcome => EveryChunkGetsItsAnswers
  <2> SUFFICES ASSUME AdjudicationOutcome, Done("adjudicate")
               PROVE  EveryChunkGetsItsAnswers
    BY DEF EveryChunkGetsItsAnswers, AnswersStayInTheirRows, EveryChunkIsAsked
  <2>1. PICK verdicts \in Dialogues : verdicts = task.in
    BY DEF AdjudicationOutcome, Done
  <2>2. PICK d, c, answer, note, calls :
          /\ d = result.dialogue /\ c = d.chunk /\ answer = d.answer /\ note = d.note
          /\ calls = result.calls
    OBVIOUS
  <2>3. Settled(verdicts, c, d.attempt, answer, note, calls)
    BY <2>1, <2>2 DEF AdjudicationOutcome, Done
  <2>4. PICK N \in Int : N = NumberOfChunks(verdicts)
    BY EveryAskedRowHasAChunk
  <2>5. c \in Nat
    BY <2>3 DEF Settled
  <2>6. CallsFit(N, c, d.attempt, calls)
    BY <2>3, <2>4 DEF Settled
  <2>7. \A r \in DOMAIN verdicts : RowFits(N, verdicts, c, calls, r, answer[r], note[r])
    BY <2>3, <2>4 DEF Settled
  <2>8. AnswersStayInTheirRows
    <3> SUFFICES ASSUME NEW r \in DOMAIN verdicts
                 PROVE  /\ answer[r] # NoAnswer \/ note[r] # "none" =>
                             /\ verdicts[r].status \in {"REVIEW", "LINK_ERROR"}
                             /\ \E k \in 1..(c - 1) : r \in Chunk(verdicts, k)
                        /\ answer[r] = NoAnswer \/ note[r] \in {"none", "unsure"}
                        /\ note[r] = "unsure" => answer[r] = "UNSURE"
      BY <2>1, <2>2 DEF AnswersStayInTheirRows
    <3>1. \A k \in 1..N : k < c => k \in 1..(c - 1)
      BY <2>5
    <3>2. \A k : r \in Chunk(verdicts, k) => verdicts[r].status \in {"REVIEW", "LINK_ERROR"}
      BY DEF Chunk, Asked
    <3> QED
      BY <2>7, <3>1, <3>2 DEF RowFits, NoteFits
  <2>9. EveryChunkIsAsked
    <3> SUFFICES ASSUME Over(task.in, result.dialogue)
                 PROVE  EveryChunkIsAsked
      BY DEF EveryChunkIsAsked
    <3>1. c > N
      BY <2>1, <2>2, <2>4 DEF Over
    <3>2. DOMAIN calls = 1..N /\ \A k \in 1..N : calls[k] \in {1, 2}
      BY <2>5, <2>6, <3>1 DEF CallsFit
    <3>3. \A r \in DOMAIN verdicts : note[r] = "malformed" =>
            \E k \in 1..N : r \in Chunk(verdicts, k) /\ calls[k] = 2
      BY <2>7 DEF RowFits
    <3>4. \A r \in Asked(verdicts) : \E k \in 1..N : r \in Chunk(verdicts, k)
      BY <2>4, EveryAskedRowHasAChunk
    <3> QED
      BY <2>1, <2>2, <3>2, <3>3, <3>4 DEF EveryChunkIsAsked
  <2> QED
    BY <2>8, <2>9 DEF EveryChunkGetsItsAnswers
<1> QED
  BY <1>1, AdjudicationOutcomeHolds, PTL

-----------------------------------------------------------------------------
(* Proposals and approvals. *)

LEMMA LeastOf ==
  ASSUME NEW S, S \subseteq Nat, S # {}
  PROVE  MinOf(S) \in S /\ \A y \in S : MinOf(S) <= y
BY LeastExists DEF MinOf

LEMMA LeastIs ==
  ASSUME NEW S, S \subseteq Nat, NEW x \in S, \A y \in S : x <= y
  PROVE  MinOf(S) = x
<1>1. MinOf(S) \in S /\ MinOf(S) <= x
  BY LeastOf
<1>2. x <= MinOf(S) /\ x \in Nat /\ MinOf(S) \in Nat
  BY <1>1
<1> QED
  BY <1>1, <1>2

(* As many columns as fields means one column for every field. *)
LEMMA AcceptableIsInjective ==
  ASSUME NEW columns, DOMAIN columns \subseteq Fields
  PROVE  Cardinality({columns[k] : k \in DOMAIN columns}) = Cardinality(DOMAIN columns)
           <=> \A k, l \in DOMAIN columns : columns[k] = columns[l] => k = l
<1> DEFINE D == DOMAIN columns
           T == {columns[k] : k \in D}
           f == [k \in D |-> columns[k]]
<1>1. IsFiniteSet(D)
  BY HeaderMapAssumption, FS_Subset
<1>2. f \in Surjection(D, T)
  BY DEF Surjection
<1>3. Cardinality(T) = Cardinality(D) <=> f \in Injection(D, T)
  BY <1>1, <1>2, FS_Surjection
<1>4. f \in Injection(D, T) <=> \A k, l \in D : columns[k] = columns[l] => k = l
  BY DEF Injection, IsInjective
<1> QED
  BY <1>3, <1>4

(* The columns of a mapping: of the sample, and one for every field.        *)
IsColumns(columns) ==
  /\ DOMAIN columns \subseteq Fields
  /\ \A k \in DOMAIN columns : columns[k] \in 1..SAMPLE_COLS
  /\ \A k, l \in DOMAIN columns : columns[k] = columns[l] => k = l

LEMMA ClampedColumns ==
  ASSUME NEW x \in Proposals
  PROVE  IsColumns(Clamped(x.answer))
<1>0. PICK answer : answer = x.answer
  OBVIOUS
<1> DEFINE inSample == {i \in DOMAIN answer :
                          answer[i][1] \in Fields /\ answer[i][2] \in 1..SAMPLE_COLS}
           keep == {i \in inSample : \A j \in inSample : j < i => answer[j][2] # answer[i][2]}
           at(k) == CHOOSE i \in keep : answer[i][1] = k
           out == Clamped(answer)
<1>1. DOMAIN out = {answer[i][1] : i \in keep}
      /\ \A k \in DOMAIN out : out[k] = answer[at(k)][2]
  BY DEF Clamped
<1>2. \A k \in DOMAIN out : at(k) \in keep /\ answer[at(k)][1] = k
  <2> HIDE DEF out, keep
  <2> QED
    BY <1>1
<1>3. keep \subseteq Nat /\ \A i, j \in keep : answer[i][2] = answer[j][2] => i = j
  <2>1. inSample \subseteq Nat
    BY <1>0, MappingsAssumption
  <2>2. ASSUME NEW i \in keep, NEW j \in keep, answer[i][2] = answer[j][2], i # j
        PROVE  FALSE
    <3>1. i \in Nat /\ j \in Nat /\ (i < j \/ j < i)
      BY <2>1, <2>2
    <3> QED
      BY <2>2, <3>1
  <2> QED
    BY <2>1, <2>2
<1>4. \A k \in DOMAIN out : k \in Fields /\ out[k] \in 1..SAMPLE_COLS
  <2>1. \A i \in keep : answer[i][1] \in Fields /\ answer[i][2] \in 1..SAMPLE_COLS
    OBVIOUS
  <2> HIDE DEF out, keep, at
  <2> QED
    BY <1>1, <1>2, <2>1
<1>5. \A k, l \in DOMAIN out : out[k] = out[l] => k = l
  <2> SUFFICES ASSUME NEW k \in DOMAIN out, NEW l \in DOMAIN out, out[k] = out[l]
               PROVE  k = l
    OBVIOUS
  <2>1. at(k) = at(l)
    <3>1. PICK i \in keep, j \in keep : i = at(k) /\ j = at(l)
      BY <1>2
    <3>2. answer[i][2] = answer[j][2]
      BY <1>1, <3>1
    <3> QED
      BY <1>3, <3>1, <3>2
  <2> QED
    BY <1>2, <2>1
<1> HIDE DEF out
<1>6. IsColumns(out)
  BY <1>4, <1>5 DEF IsColumns
<1> QED
  BY <1>0, <1>6 DEF out

LEMMA PreselectedIsAcceptable ==
  ASSUME NEW columns, IsColumns(columns), NEW offered,
         NEW out, out = Preselected(columns, offered)
  PROVE  /\ \A kind : Required(kind) \subseteq DOMAIN out => Acceptable(kind, out)
         /\ \A k \in DOMAIN out : k \in Fields /\ out[k] \in offered
<1>1. /\ DOMAIN out \subseteq DOMAIN columns
      /\ \A k \in DOMAIN out : out[k] = columns[k] /\ out[k] \in offered
  BY DEF Preselected
<1>2. DOMAIN out \subseteq Fields
  BY <1>1 DEF IsColumns
<1>3. \A k, l \in DOMAIN out : out[k] = out[l] => k = l
  BY <1>1 DEF IsColumns
<1>4. Cardinality({out[k] : k \in DOMAIN out}) = Cardinality(DOMAIN out)
  BY <1>2, <1>3, AcceptableIsInjective
<1> QED
  BY <1>1, <1>2, <1>4 DEF Acceptable

(* Of a renamed row, the mapped fields are in the mapped columns. *)
LEMMA RenamedKeys ==
  ASSUME NEW row \in Seq(Cells), Len(row) >= SAMPLE_COLS,
         NEW columns, IsColumns(columns), NEW k \in DOMAIN columns
  PROVE  /\ k \in DOMAIN Keys(Renamed(row, columns))
         /\ Keys(Renamed(row, columns))[k] = columns[k]
<1> DEFINE new == Renamed(row, columns)
           C   == {columns[l] : l \in DOMAIN columns}
<1>1. DOMAIN new = 1..Len(row) /\ Len(row) \in Nat
  BY DEF Renamed
<1>2. \A c \in DOMAIN new : new[c].key = IF c \in C THEN FieldAt(columns, c)
                                        ELSE IF row[c].key \in DOMAIN columns THEN "original"
                                        ELSE row[c].key
  BY DEF Renamed, Header
<1> HIDE DEF new
<1>3. columns[k] \in DOMAIN new
  BY <1>1, HeaderMapAssumption DEF IsColumns
<1>4. new[columns[k]].key = k
  <2>1. FieldAt(columns, columns[k]) = k
    BY DEF FieldAt, IsColumns
  <2> QED
    BY <1>2, <1>3, <2>1
<1>5. ASSUME NEW c \in DOMAIN new, new[c].key = k PROVE c = columns[k]
  <2>1. CASE c \in C
    <3>1. FieldAt(columns, c) \in DOMAIN columns /\ columns[FieldAt(columns, c)] = c
      BY <2>1 DEF FieldAt
    <3> QED
      BY <1>2, <1>5, <2>1, <3>1
  <2>2. CASE c \notin C
    BY <1>2, <1>5, <2>2, HeaderMapAssumption DEF IsColumns
  <2> QED
    BY <2>1, <2>2
<1>6. {c \in DOMAIN new : new[c].key = k} = {columns[k]}
  BY <1>3, <1>4, <1>5
<1>7. MinOf({columns[k]}) = columns[k]
  BY DEF MinOf
<1>8. k # EmptyKey /\ k \in {new[c].key : c \in DOMAIN new}
  BY <1>3, <1>4, HeaderMapAssumption DEF IsColumns
<1> QED
  BY <1>6, <1>7, <1>8 DEF Keys, new

(* Of a sheet with a renamed row, that row is a header row and the others   *)
(* are what they were.                                                      *)
LEMMA RenamedSheet ==
  ASSUME NEW sheet \in Sheets,
         NEW i \in DOMAIN sheet.rows, i <= HEADER_SCAN_ROWS,
         Len(sheet.rows[i]) >= SAMPLE_COLS,
         NEW columns, IsColumns(columns), Fingerprint \subseteq DOMAIN columns,
         NEW new, new = [sheet EXCEPT !.rows[i] = Renamed(@, columns)]
  PROVE  /\ new.name = sheet.name
         /\ HeaderRows(new) = HeaderRows(sheet) \cup {i}
         /\ \A j \in DOMAIN sheet.rows : j # i => new.rows[j] = sheet.rows[j]
         /\ new.rows[i] = Renamed(sheet.rows[i], columns)
<1>1. PICK n \in STRING, R \in Seq(Seq(Cells)) : sheet = [name |-> n, rows |-> R]
  BY DEF Sheets
<1>2. sheet.name = n /\ sheet.rows = R
  BY <1>1
<1>3. PICK Q : Q = [R EXCEPT ![i] = Renamed(@, columns)]
  OBVIOUS
<1>4. new = [name |-> n, rows |-> Q]
  BY <1>1, <1>3
<1>5. DOMAIN new.rows = DOMAIN R /\ \A j \in DOMAIN R : j # i => new.rows[j] = R[j]
  BY <1>3, <1>4
<1>6. new.rows[i] = Renamed(R[i], columns)
  BY <1>2, <1>3, <1>4
<1>7. Fingerprint \subseteq DOMAIN Keys(new.rows[i])
  <2>1. R[i] \in Seq(Cells) /\ Len(R[i]) >= SAMPLE_COLS
    BY <1>2
  <2> QED
    BY <1>6, <2>1, RenamedKeys
<1>8. HeaderRows(new) = HeaderRows(sheet) \cup {i}
  BY <1>2, <1>5, <1>7 DEF HeaderRows
<1> QED
  BY <1>2, <1>4, <1>5, <1>6, <1>8

LEMMA ElementsOf ==
  ASSUME NEW S, NEW q \in Seq(S)
  PROVE  DOMAIN q = 1..Len(q) /\ Len(q) \in Nat /\ \A i \in DOMAIN q : q[i] \in S
OBVIOUS

LEMMA SheetsAreSheets ==
  ASSUME NEW wb, IsWorkbook(wb)
  PROVE  /\ DOMAIN wb = 1..Len(wb) /\ Len(wb) \in Nat
         /\ \A s \in DOMAIN wb : wb[s] \in Sheets /\ wb[s].rows \in Seq(Seq(Cells))
<1>1. wb \in Seq(Sheets)
  BY DEF IsWorkbook
<1>2. DOMAIN wb = 1..Len(wb) /\ Len(wb) \in Nat /\ \A s \in DOMAIN wb : wb[s] \in Sheets
  BY <1>1, ElementsOf
<1> QED
  BY <1>2 DEF Sheets

(* apply_mapping changes one row of one sheet, and makes it a header row. *)
OneRowRenamed(wb, m, new, t) ==
  /\ t \in DOMAIN wb /\ wb[t].name = m.sheet
  /\ DOMAIN new = DOMAIN wb
  /\ \A s \in DOMAIN wb : /\ new[s].name = wb[s].name
                          /\ s # t => new[s] = wb[s] /\ wb[s].name # m.sheet
  /\ HeaderRows(new[t]) = HeaderRows(wb[t]) \cup {m.row}
  /\ \A i \in DOMAIN wb[t].rows : i # m.row => new[t].rows[i] = wb[t].rows[i]
  /\ m.row \in DOMAIN wb[t].rows
  /\ new[t].rows[m.row] = Renamed(wb[t].rows[m.row], m.columns)

LEMMA AppliedIsOneRow ==
  ASSUME NEW wb, IsWorkbook(wb), NEW m, Fits(wb, m), IsColumns(m.columns),
         Fingerprint \subseteq DOMAIN m.columns
  PROVE  \E t : OneRowRenamed(wb, m, Applied(wb, m), t)
<1>1. PICK t \in DOMAIN wb : wb[t].name = m.sheet /\ m.row \in DOMAIN wb[t].rows
  BY DEF Fits
<1>2. \A s \in DOMAIN wb : wb[s] \in Sheets
  BY SheetsAreSheets
<1>3. \A s \in DOMAIN wb : s # t => wb[s].name # m.sheet
  BY <1>1 DEF IsWorkbook
<1> DEFINE new == Applied(wb, m)
<1>4. DOMAIN new = DOMAIN wb /\ \A s \in DOMAIN wb : s # t => new[s] = wb[s]
  BY <1>3 DEF Applied
<1>5. new[t] = [wb[t] EXCEPT !.rows[m.row] = Renamed(@, m.columns)]
  BY <1>1 DEF Applied
<1>6. m.row <= HEADER_SCAN_ROWS /\ Len(wb[t].rows[m.row]) >= SAMPLE_COLS
  BY <1>1, HeaderMapAssumption DEF Fits, IsWorkbook
<1>7. /\ new[t].name = wb[t].name
      /\ HeaderRows(new[t]) = HeaderRows(wb[t]) \cup {m.row}
      /\ \A i \in DOMAIN wb[t].rows : i # m.row => new[t].rows[i] = wb[t].rows[i]
      /\ new[t].rows[m.row] = Renamed(wb[t].rows[m.row], m.columns)
  <2> HIDE DEF new
  <2> QED
    BY <1>1, <1>2, <1>5, <1>6, RenamedSheet
<1> QED
  BY <1>1, <1>3, <1>4, <1>7 DEF OneRowRenamed

LEMMA HeaderRowsAreRows ==
  ASSUME NEW sheet \in Sheets
  PROVE  HeaderRows(sheet) \subseteq Nat \ {0} /\ HeaderRows(sheet) \subseteq DOMAIN sheet.rows
<1>1. sheet.rows \in Seq(Seq(Cells))
  BY DEF Sheets
<1>2. DOMAIN sheet.rows \subseteq Nat \ {0}
  BY <1>1
<1> QED
  BY <1>2 DEF HeaderRows

(* Where the renamed row is the first header row, it is read as approved. *)
LEMMA RenamedRowIsHonoured ==
  ASSUME NEW wb, IsWorkbook(wb), NEW m, IsColumns(m.columns),
         NEW new, NEW t, OneRowRenamed(wb, m, new, t),
         MinOf(HeaderRows(new[t])) = m.row
  PROVE  /\ Honours(ParseOf(new[t]), m)
         /\ DOMAIN m.columns \subseteq DOMAIN ParseOf(new[t]).columns
<1> DEFINE row == wb[t].rows[m.row]
<1>1. row \in Seq(Cells) /\ Len(row) >= SAMPLE_COLS
  <2>1. wb[t].rows \in Seq(Seq(Cells))
    BY SheetsAreSheets DEF OneRowRenamed
  <2> QED
    BY <2>1 DEF IsWorkbook, OneRowRenamed
<1>2. ParseOf(new[t]) = [sheet |-> m.sheet, row |-> m.row,
                        columns |-> Keys(Renamed(row, m.columns))]
  BY DEF ParseOf, OneRowRenamed
<1>3. \A k \in DOMAIN m.columns : /\ k \in DOMAIN Keys(Renamed(row, m.columns))
                                 /\ Keys(Renamed(row, m.columns))[k] = m.columns[k]
  BY <1>1, RenamedKeys
<1>4. /\ ParseOf(new[t]).sheet = m.sheet /\ ParseOf(new[t]).row = m.row
      /\ ParseOf(new[t]).columns = Keys(Renamed(row, m.columns))
  BY <1>2
<1> QED
  BY <1>3, <1>4 DEF Honours

LEMMA ParseOfIsAParse ==
  ASSUME NEW sheet \in Sheets, HeaderRows(sheet) # {}
  PROVE  ParseOf(sheet) # NoParse
<1>1. MinOf(HeaderRows(sheet)) # 0
  BY HeaderRowsAreRows, LeastOf
<1>2. ParseOf(sheet).row # 0
  BY <1>1 DEF ParseOf
<1>3. NoParse.row = 0
  BY DEF NoParse
<1> QED
  BY <1>2, <1>3

LEMMA PlogIsHonoured ==
  ASSUME NEW wb, IsWorkbook(wb), NEW m, Fits(wb, m), IsColumns(m.columns),
         Fingerprint \subseteq DOMAIN m.columns, ParsePlogOrDmr(wb) = NoParse
  PROVE  Honours(ParsePlogOrDmr(Applied(wb, m)), m)
<1>1. PICK new : new = Applied(wb, m)
  OBVIOUS
<1>2. PICK t : OneRowRenamed(wb, m, new, t)
  BY <1>1, AppliedIsOneRow
<1>3. DOMAIN wb \subseteq Nat
  BY SheetsAreSheets
<1>4. \A s \in DOMAIN wb : wb[s] \in Sheets
  BY SheetsAreSheets
<1>5. \A s \in DOMAIN wb : HeaderRows(wb[s]) = {}
  <2> DEFINE hits == {s \in DOMAIN wb : HeaderRows(wb[s]) # {}}
  <2> SUFFICES ASSUME hits # {} PROVE FALSE
    OBVIOUS
  <2>1. MinOf(hits) \in hits
    BY <1>3, LeastOf
  <2>2. ParsePlogOrDmr(wb) = ParseOf(wb[MinOf(hits)])
    BY DEF ParsePlogOrDmr
  <2> QED
    BY <1>4, <2>1, <2>2, ParseOfIsAParse
<1>6. {s \in DOMAIN new : HeaderRows(new[s]) # {}} = {t} /\ HeaderRows(new[t]) = {m.row}
  BY <1>2, <1>5 DEF OneRowRenamed
<1>7. MinOf({t}) = t /\ MinOf({m.row}) = m.row
  BY DEF MinOf
<1>8. ParsePlogOrDmr(new) = ParseOf(new[t])
  BY <1>6, <1>7 DEF ParsePlogOrDmr
<1>9. MinOf(HeaderRows(new[t])) = m.row
  BY <1>6, <1>7
<1>10. Honours(ParseOf(new[t]), m)
  BY <1>2, <1>9, RenamedRowIsHonoured
<1> QED
  BY <1>1, <1>8, <1>10

LEMMA EffIsHonoured ==
  ASSUME NEW wb, IsWorkbook(wb), NEW m, Fits(wb, m), IsColumns(m.columns),
         EffRequired \subseteq DOMAIN m.columns, ParseEff(wb) = NoParse
  PROVE  \/ Honours(ParseEff(Applied(wb, m)), m)
         \/ ParseEff(Applied(wb, m)) = NoParse
<1>1. PICK new : new = Applied(wb, m)
  OBVIOUS
<1>2. PICK t : OneRowRenamed(wb, m, new, t)
  BY <1>1, AppliedIsOneRow, HeaderMapAssumption
<1>4. DOMAIN wb = 1..Len(wb) /\ Len(wb) \in Nat
      /\ \A s \in DOMAIN wb : wb[s] \in Sheets
  BY SheetsAreSheets
<1> DEFINE Masters(w) == {s \in DOMAIN w : w[s].name = MasterSheet}
           Read(w)    == IF Masters(w) = {} THEN 1 ELSE MinOf(Masters(w))
<1>5. Masters(new) = Masters(wb)
  BY <1>2 DEF OneRowRenamed
<1>6. PICK s : s = Read(wb) /\ s = Read(new) /\ s \in DOMAIN wb
  <2>1. 1 \in DOMAIN wb
    <3>1. t \in 1..Len(wb)
      BY <1>2, <1>4 DEF OneRowRenamed
    <3> QED
      BY <1>4, <3>1
  <2>2. Masters(wb) # {} => MinOf(Masters(wb)) \in Masters(wb)
    <3>1. Masters(wb) \subseteq Nat
      BY <1>4
    <3> HIDE DEF Masters
    <3> QED
      BY <3>1, LeastOf
  <2> QED
    BY <1>5, <2>1, <2>2
<1>7. \A w : ParseEff(w) = IF HeaderRows(w[Read(w)]) = {} THEN NoParse
                          ELSE IF EffRequired \subseteq DOMAIN ParseOf(w[Read(w)]).columns
                          THEN ParseOf(w[Read(w)])
                          ELSE NoParse
  BY DEF ParseEff
<1> HIDE DEF Read
<1>8. HeaderRows(wb[s]) # {} => ~(EffRequired \subseteq DOMAIN ParseOf(wb[s]).columns)
  BY <1>4, <1>6, <1>7, ParseOfIsAParse
<1>9. CASE s # t
  <2>1. new[s] = wb[s]
    BY <1>2, <1>6, <1>9 DEF OneRowRenamed
  <2> QED
    BY <1>1, <1>6, <1>7, <1>8, <2>1
<1>10. CASE s = t /\ MinOf(HeaderRows(new[t])) = m.row
  <2>1. /\ Honours(ParseOf(new[t]), m)
        /\ DOMAIN m.columns \subseteq DOMAIN ParseOf(new[t]).columns
    BY <1>2, <1>10, RenamedRowIsHonoured
  <2> QED
    BY <1>1, <1>2, <1>6, <1>7, <1>10, <2>1
<1>11. CASE s = t /\ MinOf(HeaderRows(new[t])) # m.row
  <2>1. HeaderRows(new[t]) = HeaderRows(wb[t]) \cup {m.row}
        /\ HeaderRows(wb[t]) \subseteq DOMAIN wb[t].rows
        /\ HeaderRows(new[t]) \subseteq Nat
    BY <1>2, <1>4, <1>6, <1>11, HeaderRowsAreRows DEF OneRowRenamed, Fits
  <2>2. PICK i : i = MinOf(HeaderRows(new[t]))
    OBVIOUS
  <2>3. i \in HeaderRows(new[t]) /\ \A j \in HeaderRows(new[t]) : i <= j
    BY <2>1, <2>2, LeastOf
  <2>4. i \in HeaderRows(wb[t]) /\ i # m.row
    BY <1>11, <2>1, <2>2, <2>3
  <2>5. MinOf(HeaderRows(wb[t])) = i
    BY <2>1, <2>3, <2>4, LeastIs
  <2>6. new[t].rows[i] = wb[t].rows[i]
    BY <1>2, <2>1, <2>4 DEF OneRowRenamed
  <2>7. ParseOf(new[t]).columns = ParseOf(wb[t]).columns
    BY <2>2, <2>5, <2>6 DEF ParseOf
  <2> QED
    BY <1>1, <1>6, <1>7, <1>8, <1>11, <2>4, <2>7
<1> QED
  BY <1>9, <1>10, <1>11

LEMMA MappingHonoured ==
  ASSUME NEW kind \in {"plog", "eff"}, NEW wb, IsWorkbook(wb), NEW m, Fits(wb, m),
         Parse(kind, wb) = NoParse, Acceptable(kind, m.columns)
  PROVE  \/ Honours(Parse(kind, Applied(wb, m)), m)
         \/ kind = "eff" /\ Parse(kind, Applied(wb, m)) = NoParse
<1>1. IsColumns(m.columns)
  BY AcceptableIsInjective DEF IsColumns, Fits, Acceptable
<1>2. Required(kind) \subseteq DOMAIN m.columns
  BY DEF Acceptable
<1>3. CASE kind = "plog"
  BY <1>1, <1>2, <1>3, PlogIsHonoured DEF Parse, Required
<1>4. CASE kind = "eff"
  BY <1>1, <1>2, <1>4, EffIsHonoured DEF Parse, Required
<1> QED
  BY <1>3, <1>4

-----------------------------------------------------------------------------
(* Signatures. *)

(* What a row is trimmed to: everything up to its last filled cell. *)
LEMMA TrimIs ==
  ASSUME NEW row \in Seq(STRING)
  PROVE  \E h \in 0..Len(row) :
           /\ Len(Trim(row)) = h /\ \A c \in 1..h : Trim(row)[c] = row[c]
           /\ h > 0 => row[h] # EmptyKey
           /\ \A c \in DOMAIN row : c > h => row[c] = EmptyKey
           /\ h = 0 <=> Trim(row) = <<>>
<1> DEFINE filled == {c \in DOMAIN row : row[c] # EmptyKey}
<1>1. CASE filled = {}
  <2>1. Trim(row) = <<>>
    BY <1>1 DEF Trim
  <2> QED
    BY <1>1, <2>1
<1>2. CASE filled # {}
  <2>1. filled \subseteq Nat /\ IsFiniteSet(filled)
    <3>1. IsFiniteSet(1..Len(row)) /\ filled \subseteq 1..Len(row)
      BY FS_Interval
    <3> QED
      BY <3>1, FS_Subset
  <2>2. \E c \in filled : \A d \in filled : d <= c
    <3> HIDE DEF filled
    <3> QED
      BY <1>2, <2>1, GreatestExists
  <2>3. PICK h \in filled : /\ Trim(row) = SubSeq(row, 1, h)
                            /\ \A d \in filled : d <= h
    BY <1>2, <2>2 DEF Trim
  <2>4. h \in 1..Len(row) /\ row[h] # EmptyKey /\ Len(row) \in Nat
    OBVIOUS
  <2>5. Len(Trim(row)) = h /\ \A c \in 1..h : Trim(row)[c] = row[c]
    BY <2>3, <2>4
  <2>6. \A c \in DOMAIN row : c > h => row[c] = EmptyKey
    BY <2>3, <2>4
  <2>7. h # 0 /\ Trim(row) # <<>>
    BY <2>4, <2>5
  <2> QED
    BY <2>4, <2>5, <2>6, <2>7
<1> QED
  BY <1>1, <1>2

LEMMA TextsAre ==
  ASSUME NEW row \in Seq(Cells)
  PROVE  /\ Texts(row) \in Seq(STRING) /\ Len(Texts(row)) = Len(row)
         /\ \A c \in 1..Len(row) : Texts(row)[c] = row[c].text
<1>1. DOMAIN row = 1..Len(row) /\ Len(row) \in Nat /\ \A c \in 1..Len(row) : row[c] \in Cells
  OBVIOUS
<1>2. \A c \in 1..Len(row) : row[c].text \in STRING
  BY <1>1 DEF Cells
<1>3. Texts(row) = [c \in 1..Len(row) |-> row[c].text]
  BY <1>1 DEF Texts
<1>4. PICK texts : texts = [c \in 1..Len(row) |-> row[c].text]
  OBVIOUS
<1>5. texts \in Seq(STRING) /\ Len(texts) = Len(row)
  BY <1>1, <1>2, <1>4
<1> QED
  BY <1>3, <1>4, <1>5

LEMMA SampleIs ==
  ASSUME NEW row \in Seq(Cells), Len(row) >= SAMPLE_COLS
  PROVE  /\ Sample(row) # <<>> <=> \E c \in 1..SAMPLE_COLS : row[c].text # EmptyKey
         /\ \E cells \in Seq(STRING) :
              /\ Sample(row) = Trim(cells) /\ Len(cells) = SAMPLE_COLS
              /\ \A c \in 1..SAMPLE_COLS : cells[c] = row[c].text
<1> USE HeaderMapAssumption
<1>1. PICK n \in Nat : n = SAMPLE_COLS
  OBVIOUS
<1>2. PICK cells : cells = SubSeq(Texts(row), 1, n)
  OBVIOUS
<1>3. cells \in Seq(STRING) /\ Len(cells) = n /\ \A c \in 1..n : cells[c] = row[c].text
  <2>1. /\ Texts(row) \in Seq(STRING) /\ Len(Texts(row)) = Len(row)
        /\ \A c \in 1..Len(row) : Texts(row)[c] = row[c].text
    BY TextsAre
  <2> QED
    BY <1>1, <1>2, <2>1
<1>4. Sample(row) = Trim(cells)
  <2>1. (IF Len(row) < SAMPLE_COLS THEN Len(row) ELSE SAMPLE_COLS) = n
    BY <1>1
  <2> QED
    BY <1>2, <2>1 DEF Sample
<1>5. PICK h \in 0..n : /\ h > 0 => cells[h] # EmptyKey
                        /\ \A c \in 1..n : c > h => cells[c] = EmptyKey
                        /\ h = 0 <=> Trim(cells) = <<>>
  <2>1. DOMAIN cells = 1..n
    BY <1>3
  <2>2. \E h \in 0..Len(cells) :
           /\ Len(Trim(cells)) = h /\ \A c \in 1..h : Trim(cells)[c] = cells[c]
           /\ h > 0 => cells[h] # EmptyKey
           /\ \A c \in DOMAIN cells : c > h => cells[c] = EmptyKey
           /\ h = 0 <=> Trim(cells) = <<>>
    BY <1>3, TrimIs
  <2> QED
    BY <1>3, <2>1, <2>2
<1>6. Sample(row) # <<>> <=> \E c \in 1..n : row[c].text # EmptyKey
  BY <1>3, <1>4, <1>5
<1> QED
  BY <1>1, <1>3, <1>4, <1>6

(* Trimming loses nothing of rows of one length. *)
LEMMA SameTrim ==
  ASSUME NEW p \in Seq(STRING), NEW q \in Seq(STRING), Len(p) = Len(q)
  PROVE  Trim(p) = Trim(q) <=> \A c \in 1..Len(p) : p[c] = q[c]
<1>1. ASSUME Trim(p) = Trim(q), NEW c \in 1..Len(p) PROVE p[c] = q[c]
  <2>1. PICK h \in 0..Len(p) : /\ Len(Trim(p)) = h /\ \A d \in 1..h : Trim(p)[d] = p[d]
                               /\ \A d \in DOMAIN p : d > h => p[d] = EmptyKey
    BY TrimIs
  <2>2. PICK g \in 0..Len(q) : /\ Len(Trim(q)) = g /\ \A d \in 1..g : Trim(q)[d] = q[d]
                               /\ \A d \in DOMAIN q : d > g => q[d] = EmptyKey
    BY TrimIs
  <2>3. g = h
    BY <1>1, <2>1, <2>2
  <2>4. CASE c <= h
    BY <1>1, <2>1, <2>2, <2>3, <2>4
  <2>5. CASE c > h
    BY <1>1, <2>1, <2>2, <2>3, <2>5
  <2> QED
    BY <1>1, <2>1, <2>4, <2>5
<1>2. ASSUME \A c \in 1..Len(p) : p[c] = q[c] PROVE p = q
  BY <1>2
<1> QED
  BY <1>1, <1>2

LEMMA SameSample ==
  ASSUME NEW p \in Seq(Cells), NEW q \in Seq(Cells),
         Len(p) >= SAMPLE_COLS, Len(q) >= SAMPLE_COLS
  PROVE  Sample(p) = Sample(q) <=> \A c \in 1..SAMPLE_COLS : p[c].text = q[c].text
<1>1. PICK u \in Seq(STRING) : /\ Sample(p) = Trim(u) /\ Len(u) = SAMPLE_COLS
                               /\ \A c \in 1..SAMPLE_COLS : u[c] = p[c].text
  BY SampleIs
<1>2. PICK v \in Seq(STRING) : /\ Sample(q) = Trim(v) /\ Len(v) = SAMPLE_COLS
                               /\ \A c \in 1..SAMPLE_COLS : v[c] = q[c].text
  BY SampleIs
<1>3. Trim(u) = Trim(v) <=> \A c \in 1..SAMPLE_COLS : u[c] = v[c]
  <2>1. Len(u) = Len(v)
    BY <1>1, <1>2
  <2>2. Trim(u) = Trim(v) <=> \A c \in 1..Len(u) : u[c] = v[c]
    BY <2>1, SameTrim
  <2> QED
    BY <1>1, <2>2
<1> QED
  BY <1>1, <1>2, <1>3

(* Among the candidates of another upload, those with the signature of an   *)
(* approved row are its look-alikes, and the approved mapping fits there.   *)
LEMMA LookAlikes ==
  ASSUME NEW wb, IsWorkbook(wb), NEW m, Fits(wb, m), NEW other, IsWorkbook(other),
         NEW hits, hits = {x \in Candidates(other) :
                             Signature(other[x[1]], x[2])
                               = Signature(SheetNamed(wb, m.sheet), m.row)}
  PROVE  /\ hits # {} <=> LooksAlike(other, m, wb)
         /\ \A x \in hits : /\ x = <<x[1], m.row>> /\ x[1] \in DOMAIN other
                            /\ other[x[1]].name = m.sheet /\ Fits(other, m)
<1>1. PICK t \in DOMAIN wb : wb[t].name = m.sheet /\ m.row \in DOMAIN wb[t].rows
  BY DEF Fits
<1>2. SheetNamed(wb, m.sheet) = wb[t]
  <2>1. \A s \in DOMAIN wb : wb[s].name = m.sheet => s = t
    BY <1>1 DEF IsWorkbook
  <2> QED
    BY <1>1, <2>1 DEF SheetNamed
<1>3. PICK row \in Seq(Cells) : row = wb[t].rows[m.row] /\ Len(row) >= SAMPLE_COLS
  <2>1. wb[t].rows \in Seq(Seq(Cells))
    BY SheetsAreSheets
  <2>2. wb[t].rows[m.row] \in Seq(Cells)
    BY <1>1, <2>1, ElementsOf
  <2> QED
    BY <1>1, <2>2 DEF IsWorkbook
<1>4. \A s \in DOMAIN other : \A i \in DOMAIN other[s].rows :
        other[s].rows[i] \in Seq(Cells) /\ Len(other[s].rows[i]) >= SAMPLE_COLS
  <2>1. \A s \in DOMAIN other : other[s].rows \in Seq(Seq(Cells))
    BY SheetsAreSheets
  <2>2. \A s \in DOMAIN other : \A i \in DOMAIN other[s].rows : other[s].rows[i] \in Seq(Cells)
    BY <2>1, ElementsOf
  <2> QED
    BY <2>2 DEF IsWorkbook
<1> DEFINE Like(s) == /\ other[s].name = m.sheet /\ m.row \in DOMAIN other[s].rows
                      /\ \A c \in 1..SAMPLE_COLS : other[s].rows[m.row][c].text = row[c].text
                      /\ \E c \in 1..SAMPLE_COLS : other[s].rows[m.row][c].text # EmptyKey
<1>5. ASSUME NEW x \in hits
      PROVE  x[1] \in DOMAIN other \cap 1..MAX_SHEETS /\ x[2] = m.row /\ Like(x[1])
             /\ x = <<x[1], x[2]>>
  <2>1. /\ x[1] \in DOMAIN other /\ x[1] <= MAX_SHEETS /\ x[2] \in DOMAIN other[x[1]].rows
        /\ Sample(other[x[1]].rows[x[2]]) # <<>> /\ x = <<x[1], x[2]>>
    BY <1>5 DEF Candidates
  <2>2. Signature(other[x[1]], x[2]) = Signature(wb[t], m.row)
    BY <1>2, <1>5
  <2>3. /\ other[x[1]].name = m.sheet /\ x[2] = m.row
        /\ Sample(other[x[1]].rows[x[2]]) = Sample(row)
    BY <1>1, <1>3, <2>2 DEF Signature
  <2>4. x[1] \in 1..MAX_SHEETS
    <3>1. x[1] \in Nat \ {0}
      BY <2>1, SheetsAreSheets
    <3> QED
      BY <2>1, <3>1, HeaderMapAssumption
  <2>5. /\ \A c \in 1..SAMPLE_COLS : other[x[1]].rows[m.row][c].text = row[c].text
        /\ \E c \in 1..SAMPLE_COLS : other[x[1]].rows[m.row][c].text # EmptyKey
    <3>1. PICK cells \in Seq(Cells) : /\ cells = other[x[1]].rows[m.row]
                                       /\ Len(cells) >= SAMPLE_COLS
      BY <1>4, <2>1, <2>3
    <3>2. Sample(cells) = Sample(row) /\ Sample(cells) # <<>>
      BY <2>1, <2>3, <3>1
    <3>3. \A c \in 1..SAMPLE_COLS : cells[c].text = row[c].text
      BY <1>3, <3>1, <3>2, SameSample
    <3>4. \E c \in 1..SAMPLE_COLS : cells[c].text # EmptyKey
      BY <3>1, <3>2, SampleIs
    <3> QED
      BY <3>1, <3>3, <3>4
  <2> QED
    BY <2>1, <2>3, <2>4, <2>5
<1>6. ASSUME NEW s \in DOMAIN other \cap 1..MAX_SHEETS, Like(s)
      PROVE  <<s, m.row>> \in hits
  <2>1. PICK cells \in Seq(Cells) : cells = other[s].rows[m.row] /\ Len(cells) >= SAMPLE_COLS
    BY <1>4, <1>6
  <2>2. Sample(cells) = Sample(row) /\ Sample(cells) # <<>>
    <3>1. \A c \in 1..SAMPLE_COLS : cells[c].text = row[c].text
      BY <1>6, <2>1
    <3>2. \E c \in 1..SAMPLE_COLS : cells[c].text # EmptyKey
      BY <1>6, <2>1
    <3>3. Sample(cells) = Sample(row)
      BY <1>3, <2>1, <3>1, SameSample
    <3>4. Sample(cells) # <<>>
      BY <2>1, <3>2, SampleIs
    <3> QED
      BY <3>3, <3>4
  <2>3. <<s, m.row>> \in Candidates(other)
    <3>1. s <= MAX_SHEETS /\ m.row \in 1..HEADER_SCAN_ROWS
      BY HeaderMapAssumption DEF Fits
    <3> QED
      BY <1>6, <2>1, <2>2, <3>1 DEF Candidates
  <2>4. Signature(other[s], m.row) = Signature(wb[t], m.row)
    BY <1>1, <1>3, <1>6, <2>1, <2>2 DEF Signature
  <2> QED
    BY <1>2, <2>3, <2>4
<1>7. LooksAlike(other, m, wb) <=> \E s \in DOMAIN other \cap 1..MAX_SHEETS : Like(s)
  BY <1>2, <1>3 DEF LooksAlike
<1>8. \A x \in hits : /\ x = <<x[1], m.row>> /\ x[1] \in DOMAIN other
                       /\ other[x[1]].name = m.sheet /\ Fits(other, m)
  BY <1>5 DEF Fits
<1>9. hits # {} <=> LooksAlike(other, m, wb)
  <2> HIDE DEF Like
  <2>1. hits # {} => \E s \in DOMAIN other \cap 1..MAX_SHEETS : Like(s)
    BY <1>5
  <2>2. \A s \in DOMAIN other \cap 1..MAX_SHEETS : Like(s) => hits # {}
    BY <1>6
  <2> QED
    BY <1>7, <2>1, <2>2
<1> QED
  BY <1>8, <1>9

(* What is remembered of the first n approvals: of every layout the last.  *)
Key(a) == KeyOf(a.kind, a.wb, a.m)
Kept(approved, as, n) ==
  /\ DOMAIN approved = {Key(as[j]) : j \in 1..n}
  /\ \A j \in 1..n : (\A k \in 1..n : k > j => Key(as[k]) # Key(as[j]))
                        => approved[Key(as[j])] = as[j].m

LEMMA NoneKept ==
  ASSUME NEW as
  PROVE  Kept(<<>>, as, 0)
<1>1. DOMAIN <<>> = {} /\ 1..0 = {}
  OBVIOUS
<1> QED
  BY <1>1 DEF Kept

LEMMA OneMoreKept ==
  ASSUME NEW as, NEW n \in Nat, NEW approved, Kept(approved, as, n),
         NEW a, a = as[n + 1]
  PROVE  Kept(Remember(approved, a.kind, a.wb, a.m), as, n + 1)
<1>1. PICK new : new = Remember(approved, a.kind, a.wb, a.m)
  OBVIOUS
<1>2. /\ DOMAIN new = DOMAIN approved \cup {Key(a)}
      /\ \A k \in DOMAIN new : new[k] = IF k = Key(a) THEN a.m ELSE approved[k]
  BY <1>1 DEF Remember, Key
<1>3. 1..(n + 1) = 1..n \cup {n + 1} /\ \A j \in 1..n : n + 1 > j
  OBVIOUS
<1>4. DOMAIN new = {Key(as[j]) : j \in 1..(n + 1)}
  <2>1. DOMAIN new = {Key(as[j]) : j \in 1..n} \cup {Key(as[n + 1])}
    BY <1>2 DEF Kept
  <2> QED
    BY <1>3, <2>1
<1>5. ASSUME NEW j \in 1..(n + 1), \A k \in 1..(n + 1) : k > j => Key(as[k]) # Key(as[j])
      PROVE  new[Key(as[j])] = as[j].m
  <2>1. CASE j = n + 1
    BY <1>2, <2>1
  <2>2. CASE j # n + 1
    <3>1. j \in 1..n /\ Key(as[j]) # Key(a)
      BY <1>3, <1>5, <2>2
    <3>2. \A k \in 1..n : k > j => Key(as[k]) # Key(as[j])
      BY <1>3, <1>5
    <3>3. approved[Key(as[j])] = as[j].m /\ Key(as[j]) \in DOMAIN approved
      BY <3>1, <3>2 DEF Kept
    <3> QED
      BY <1>2, <3>1, <3>3
  <2> QED
    BY <2>1, <2>2
<1> QED
  BY <1>1, <1>4, <1>5 DEF Kept

LEMMA FirstOf ==
  ASSUME NEW H, H # {}, \A x \in H : x[1] \in Nat /\ x[2] \in Nat
  PROVE  \E x \in H : \A y \in H : x[1] < y[1] \/ (x[1] = y[1] /\ x[2] <= y[2])
<1>1. PICK A : A = {x[1] : x \in H}
  OBVIOUS
<1>2. A \subseteq Nat /\ A # {}
  BY <1>1
<1>3. PICK a \in A : \A b \in A : a <= b
  BY <1>2, LeastExists
<1>4. PICK B : B = {x[2] : x \in {z \in H : z[1] = a}}
  OBVIOUS
<1>5. B \subseteq Nat /\ B # {}
  BY <1>1, <1>3, <1>4
<1>6. PICK b \in B : \A c \in B : b <= c
  BY <1>5, LeastExists
<1>7. PICK x \in H : x[1] = a /\ x[2] = b
  BY <1>4, <1>6
<1>8. ASSUME NEW y \in H PROVE x[1] < y[1] \/ (x[1] = y[1] /\ x[2] <= y[2])
  <2>1. a <= y[1] /\ a \in Nat /\ y[1] \in Nat
    BY <1>1, <1>2, <1>3
  <2>2. y[1] = a => b <= y[2]
    BY <1>4, <1>6
  <2> QED
    BY <1>7, <2>1, <2>2
<1> QED
  BY <1>8

LEMMA GreatestOf ==
  ASSUME NEW n \in Nat, NEW J, J \subseteq 1..n, J # {}
  PROVE  \E l \in J : \A j \in J : j <= l
<1>1. IsFiniteSet(1..n)
  BY FS_Interval
<1>2. IsFiniteSet(J)
  <2>1. PICK S : S = 1..n
    OBVIOUS
  <2>2. IsFiniteSet(S) /\ J \in SUBSET S
    BY <1>1, <2>1
  <2> QED
    BY <2>2, FS_Subset
<1>3. J \subseteq Nat
  OBVIOUS
<1> QED
  BY <1>2, <1>3, GreatestExists

(* An approval a person could make, of a file no parser read.               *)
CanBeMade(a) ==
  /\ a.kind \in {"plog", "eff"} /\ IsWorkbook(a.wb) /\ Fits(a.wb, a.m)
  /\ Acceptable(a.kind, a.m.columns)

(* What an upload up comes to after n approvals: the property, of one.      *)
AsApproved(as, n, kind, other, trouble, up) ==
  LET unknown == Parse(kind, other) = NoParse
      alike   == Alike(as, n, kind, other)
  IN  /\ up.how = "audit" <=>
           unknown /\ alike = {} /\ trouble \notin {"lookup", "proposal"}
      /\ up.how = "cached" <=>
           unknown /\ alike # {} /\ trouble \notin {"lookup", "apply"}
      /\ up.how = "cached" =>
           \E l \in alike :
             /\ \A k \in alike : k > l => ~Replaces(as[k], as[l])
             /\ Honours(up.parse, as[l].m) \/ (kind = "eff" /\ up.parse = NoParse)

LEMMA UploadAsApproved ==
  ASSUME NEW as, NEW n \in Nat, \A j \in 1..n : CanBeMade(as[j]),
         NEW approved, Kept(approved, as, n),
         NEW kind, NEW other, IsWorkbook(other), NEW trouble
  PROVE  AsApproved(as, n, kind, other, trouble, Upload(kind, approved, other, trouble))
<1>0. PICK up, alike : /\ up = Upload(kind, approved, other, trouble)
                       /\ alike = Alike(as, n, kind, other)
  OBVIOUS
<1> DEFINE Layout(j) == Signature(SheetNamed(as[j].wb, as[j].m.sheet), as[j].m.row)
           Likes(j)  == {x \in Candidates(other) : Signature(other[x[1]], x[2]) = Layout(j)}
           Sig(x) == CacheKey(kind, Signature(other[x[1]], x[2]))
           hits == {x \in Candidates(other) : Sig(x) \in DOMAIN approved}
           first == CHOOSE x \in hits : \A y \in hits :
                      x[1] < y[1] \/ (x[1] = y[1] /\ x[2] <= y[2])
           parse == Parse(kind, Applied(other, approved[Sig(first)]))
           Ends(how) == [how |-> how, parse |-> NoParse]
<1>1. up = IF Parse(kind, other) # NoParse THEN [how |-> "known", parse |-> Parse(kind, other)]
           ELSE IF trouble = "lookup" THEN Ends("failed")
           ELSE IF hits = {} THEN Ends(IF trouble = "proposal" THEN "failed" ELSE "audit")
           ELSE IF trouble = "apply" THEN Ends("failed")
           ELSE [how |-> "cached", parse |-> parse]
  BY <1>0 DEF Upload
<1>2. \A j \in 1..n :
        /\ Likes(j) # {} <=> LooksAlike(other, as[j].m, as[j].wb)
        /\ \A x \in Likes(j) : /\ x = <<x[1], as[j].m.row>> /\ x[1] \in DOMAIN other
                               /\ other[x[1]].name = as[j].m.sheet /\ Fits(other, as[j].m)
  <2> SUFFICES ASSUME NEW j \in 1..n
               PROVE  /\ Likes(j) # {} <=> LooksAlike(other, as[j].m, as[j].wb)
                      /\ \A x \in Likes(j) :
                           /\ x = <<x[1], as[j].m.row>> /\ x[1] \in DOMAIN other
                           /\ other[x[1]].name = as[j].m.sheet /\ Fits(other, as[j].m)
    OBVIOUS
  <2>1. PICK wb, m : wb = as[j].wb /\ m = as[j].m
    OBVIOUS
  <2>2. IsWorkbook(wb) /\ Fits(wb, m)
    BY <2>1 DEF CanBeMade
  <2>3. PICK H : H = {x \in Candidates(other) :
                        Signature(other[x[1]], x[2]) = Signature(SheetNamed(wb, m.sheet), m.row)}
    OBVIOUS
  <2>4. /\ H # {} <=> LooksAlike(other, m, wb)
        /\ \A x \in H : /\ x = <<x[1], m.row>> /\ x[1] \in DOMAIN other
                        /\ other[x[1]].name = m.sheet /\ Fits(other, m)
    BY <2>2, <2>3, LookAlikes
  <2>5. Likes(j) = H
    BY <2>1, <2>3
  <2> HIDE DEF Likes
  <2> QED
    BY <2>1, <2>4, <2>5
<1>3. \A x \in Candidates(other), j \in 1..n :
        Sig(x) = Key(as[j]) <=> as[j].kind = kind /\ x \in Likes(j)
  BY DEF Key, KeyOf, CacheKey
<1>4. \A j : j \in alike <=> j \in 1..n /\ as[j].kind = kind /\ Likes(j) # {}
  BY <1>0, <1>2 DEF Alike
<1>5. \A x : x \in hits <=> \E j \in alike : x \in Likes(j)
  <2>1. \A x : x \in hits <=> x \in Candidates(other) /\ \E j \in 1..n : Sig(x) = Key(as[j])
    BY DEF Kept
  <2>2. \A j, x : x \in Likes(j) => x \in Candidates(other)
    OBVIOUS
  <2> HIDE DEF hits, Likes, Sig
  <2> QED
    BY <1>3, <1>4, <2>1, <2>2
<1>6. hits = {} <=> alike = {}
  <2> HIDE DEF hits, Likes
  <2> QED
    BY <1>4, <1>5
<1>7. ASSUME hits # {}, Parse(kind, other) = NoParse
      PROVE  \E l \in alike :
               /\ \A k \in alike : k > l => ~Replaces(as[k], as[l])
               /\ Honours(parse, as[l].m) \/ (kind = "eff" /\ parse = NoParse)
  <2>1. \A x \in hits : x[1] \in Nat /\ x[2] \in Nat /\ x \in Candidates(other)
    BY HeaderMapAssumption, SheetsAreSheets DEF Candidates
  <2>2. first \in hits
    <3> HIDE DEF hits
    <3>1. \E x \in hits : \A y \in hits : x[1] < y[1] \/ (x[1] = y[1] /\ x[2] <= y[2])
      BY <1>7, <2>1, FirstOf
    <3> QED
      BY <3>1
  <2>3. PICK x \in hits : x = first
    BY <2>2
  <2>4. PICK J : J = {j \in 1..n : Sig(x) = Key(as[j])}
    OBVIOUS
  <2>5. J # {}
    <3> HIDE DEF Likes, Sig, hits
    <3> QED
      BY <1>3, <1>4, <1>5, <2>1, <2>3, <2>4
  <2>6. PICK l \in J : \A j \in 1..n : j > l => j \notin J
    <3>1. J \subseteq 1..n
      BY <2>4
    <3>2. PICK l \in J : \A j \in J : j <= l
      BY <2>5, <3>1, GreatestOf
    <3>3. \A j \in 1..n : j > l => j \notin J
      BY <3>1, <3>2
    <3> QED
      BY <3>3
  <2>7. l \in 1..n /\ Sig(x) = Key(as[l]) /\ as[l].kind = kind /\ x \in Likes(l)
    <3> HIDE DEF Likes, Sig, hits
    <3> QED
      BY <1>3, <2>1, <2>4, <2>6
  <2>8. approved[Sig(x)] = as[l].m
    <3>1. ASSUME NEW k \in 1..n, k > l PROVE Key(as[k]) # Key(as[l])
      <4> HIDE DEF Sig
      <4>1. k \notin J
        BY <2>6, <3>1
      <4> QED
        BY <2>4, <2>7, <4>1
    <3> HIDE DEF Sig
    <3> QED
      BY <2>7, <3>1 DEF Kept
  <2>9. ASSUME NEW k \in alike, k > l PROVE ~Replaces(as[k], as[l])
    <3> HIDE DEF Sig, hits, first, parse
    <3> SUFFICES ASSUME Replaces(as[k], as[l]) PROVE FALSE
      OBVIOUS
    <3>1. k \in 1..n /\ as[k].kind = kind
      BY <1>4
    <3>2. PICK y \in Likes(k) : TRUE
      BY <1>4
    <3>3. /\ y = <<y[1], as[k].m.row>> /\ y[1] \in DOMAIN other
          /\ other[y[1]].name = as[k].m.sheet
      BY <1>2, <3>1
    <3>4. /\ x = <<x[1], as[l].m.row>> /\ x[1] \in DOMAIN other
          /\ other[x[1]].name = as[l].m.sheet
      BY <1>2, <2>7
    <3>5. y[1] = x[1] /\ as[k].m.row = as[l].m.row
      BY <3>3, <3>4 DEF Replaces, IsWorkbook
    <3>6. y = x
      BY <3>3, <3>4, <3>5
    <3>7. Sig(x) = Key(as[k])
      <4> HIDE DEF Likes
      <4> QED
        BY <1>3, <2>1, <3>1, <3>2, <3>6
    <3> QED
      BY <2>4, <2>6, <2>9, <3>1, <3>7
  <2>10. l \in alike
    <3> HIDE DEF Likes
    <3> QED
      BY <1>4, <2>7
  <2>11. parse = Parse(kind, Applied(other, as[l].m))
    BY <2>3, <2>8
  <2>12. PICK m : m = as[l].m
    OBVIOUS
  <2>13. kind \in {"plog", "eff"} /\ Fits(other, m) /\ Acceptable(kind, m.columns)
    <3> HIDE DEF Likes, parse
    <3> QED
      BY <1>2, <2>7, <2>12 DEF CanBeMade
  <2>14. \/ Honours(Parse(kind, Applied(other, m)), m)
         \/ kind = "eff" /\ Parse(kind, Applied(other, m)) = NoParse
    BY <1>7, <2>13, MappingHonoured
  <2> HIDE DEF parse
  <2> QED
    BY <2>9, <2>10, <2>11, <2>12, <2>14
<1>8. PICK p, H : p = parse /\ H = hits
  OBVIOUS
<1> HIDE DEF parse, hits
<1>9. CASE Parse(kind, other) # NoParse \/ trouble = "lookup"
  <2>1. up.how = "known" \/ (up.how = "failed" /\ trouble = "lookup")
    BY <1>1, <1>9
  <2> QED
    BY <1>0, <1>9, <2>1 DEF AsApproved
<1>10. CASE Parse(kind, other) = NoParse /\ trouble # "lookup" /\ hits = {}
  <2>1. alike = {} /\ (up.how = IF trouble = "proposal" THEN "failed" ELSE "audit")
    BY <1>1, <1>6, <1>10
  <2> QED
    BY <1>0, <1>10, <2>1 DEF AsApproved
<1>11. CASE Parse(kind, other) = NoParse /\ trouble # "lookup" /\ hits # {}
  <2>1. alike # {} /\ (up.how = IF trouble = "apply" THEN "failed" ELSE "cached")
    BY <1>1, <1>6, <1>11
  <2>2. up.how = "cached" => up.parse = parse
    BY <1>1, <1>11
  <2>3. \E l \in alike :
          /\ \A k \in alike : k > l => ~Replaces(as[k], as[l])
          /\ Honours(parse, as[l].m) \/ (kind = "eff" /\ parse = NoParse)
    BY <1>7, <1>11
  <2> QED
    BY <1>0, <1>11, <2>1, <2>2, <2>3 DEF AsApproved
<1> QED
  BY <1>9, <1>10, <1>11

-----------------------------------------------------------------------------
(* Of a proposal and of a mapping. *)

ProposeOutcome ==
  task.op = "propose" =>
    /\ task.in \in Proposals
    /\ result # NoResult =>
         result = Preselected(Clamped(task.in.answer), Offered(task.in.sheet, task.in.row))

MappedTo(made, approved, parse, later) ==
  [made |-> made, approved |-> approved, parse |-> parse, later |-> later]
UploadedLater(u, t, approved) ==
  [kind |-> u.kind, wb |-> u.wb, trouble |-> t,
   outcome |-> Upload(u.kind, approved, u.wb, t)]
Pending(x, made, approved, parse, later) ==
  LET as == x.approvals IN
  /\ made \in 1..Len(as) /\ Kept(approved, as, made)
  /\ \A j \in 1..made : /\ Parse(as[j].kind, as[j].wb) = NoParse
                         /\ Acceptable(as[j].kind, as[j].m.columns)
  /\ parse = Parse(as[made].kind, Applied(as[made].wb, as[made].m))
  /\ \/ later = NoResult
     \/ \E u \in x.later, t \in Troubles : later = UploadedLater(u, t, approved)
MapOutcome ==
  task.op = "map" =>
    /\ task.in \in Mappings
    /\ result # NoResult =>
         \E made, approved, parse, later :
           /\ result = MappedTo(made, approved, parse, later)
           /\ Pending(task.in, made, approved, parse, later)

LEMMA ApproveHolds ==
  ASSUME MapOutcome, Approve
  PROVE  MapOutcome'
<1>1. PICK x \in Mappings : x = task.in
  BY DEF MapOutcome, Approve
<1>2. PICK as : as = x.approvals /\ Len(as) \in Nat
  BY MappingsAssumption
<1>3. PICK n \in Nat : n = Made
  <2>1. result = NoResult \/ result.made \in 1..Len(as)
    BY <1>1, <1>2 DEF MapOutcome, Approve, Pending, MappedTo
  <2>2. Made \in Nat
    BY <1>2, <2>1 DEF Made
  <2> QED
    BY <2>2
<1>4. PICK approved : approved = Approved
  OBVIOUS
<1>5. /\ Kept(approved, as, n)
      /\ \A j \in 1..n : /\ Parse(as[j].kind, as[j].wb) = NoParse
                          /\ Acceptable(as[j].kind, as[j].m.columns)
  <2>1. CASE result = NoResult
    <3>1. n = 0 /\ approved = <<>> /\ 1..0 = {}
      BY <1>3, <1>4, <2>1 DEF Made, Approved
    <3> QED
      BY <3>1, NoneKept
  <2>2. CASE result # NoResult
    <3>1. PICK made, kept, parse, later : /\ result = MappedTo(made, kept, parse, later)
                                          /\ Pending(x, made, kept, parse, later)
      BY <1>1, <2>2 DEF MapOutcome, Approve
    <3>2. n = made /\ approved = kept
      BY <1>3, <1>4, <2>2, <3>1 DEF Made, Approved, MappedTo
    <3> QED
      BY <1>2, <3>1, <3>2 DEF Pending
  <2> QED
    BY <2>1, <2>2
<1>6. PICK a : a = as[n + 1]
  OBVIOUS
<1>7. n < Len(as)
  BY <1>1, <1>2, <1>3 DEF Approve
<1>8. Parse(a.kind, a.wb) = NoParse /\ Acceptable(a.kind, a.m.columns)
  BY <1>1, <1>2, <1>3, <1>6 DEF Approve
<1>9. /\ result' = MappedTo(n + 1, Remember(approved, a.kind, a.wb, a.m),
                            Parse(a.kind, Applied(a.wb, a.m)), NoResult)
      /\ task' = task
  BY <1>1, <1>2, <1>3, <1>4, <1>6 DEF Approve, MappedTo
<1>10. Kept(Remember(approved, a.kind, a.wb, a.m), as, n + 1)
  BY <1>5, <1>6, OneMoreKept
<1>11. n + 1 \in 1..Len(as) /\ \A j \in 1..(n + 1) : j \in 1..n \/ j = n + 1
  BY <1>2, <1>7
<1>12. Pending(x, n + 1, Remember(approved, a.kind, a.wb, a.m),
               Parse(a.kind, Applied(a.wb, a.m)), NoResult)
  BY <1>2, <1>5, <1>6, <1>8, <1>10, <1>11 DEF Pending
<1> QED
  BY <1>1, <1>9, <1>12 DEF MapOutcome

LEMMA UploadHolds ==
  ASSUME MapOutcome, NEW u \in task.in.later, NEW t \in Troubles, UploadAgain(u, t)
  PROVE  MapOutcome'
<1>1. PICK made, approved, parse, later :
        /\ result = MappedTo(made, approved, parse, later)
        /\ Pending(task.in, made, approved, parse, later)
  BY DEF MapOutcome, UploadAgain
<1>2. result.approved = approved
  BY <1>1 DEF MappedTo
<1>3. result' = [result EXCEPT !.later = UploadedLater(u, t, approved)] /\ task' = task
  BY <1>2 DEF UploadAgain, UploadedLater
<1>4. result' = MappedTo(made, approved, parse, UploadedLater(u, t, approved))
  BY <1>1, <1>3 DEF MappedTo
<1>5. Pending(task.in, made, approved, parse, UploadedLater(u, t, approved))
  BY <1>1 DEF Pending
<1> QED
  BY <1>3, <1>4, <1>5 DEF MapOutcome

THEOREM MapOutcomeHolds == Spec => [](ProposeOutcome /\ MapOutcome)
<1>1. Init => ProposeOutcome /\ MapOutcome
  BY DEF Init, ProposeOutcome, MapOutcome
<1>2. ProposeOutcome /\ MapOutcome /\ [Next]_vars => (ProposeOutcome /\ MapOutcome)'
  <2> SUFFICES ASSUME ProposeOutcome, MapOutcome, [Next]_vars
               PROVE  ProposeOutcome' /\ MapOutcome'
    OBVIOUS
  <2>1. CASE UNCHANGED vars
    BY <2>1 DEF vars, ProposeOutcome, MapOutcome
  <2>2. CASE Propose
    BY <2>2 DEF Propose, ProposeOutcome, MapOutcome
  <2>3. CASE Approve
    <3>1. ProposeOutcome'
      BY <2>3 DEF Approve, ProposeOutcome
    <3> QED
      BY <2>3, <3>1, ApproveHolds
  <2>4. ASSUME NEW u \in task.in.later, NEW t \in Troubles, UploadAgain(u, t)
        PROVE  ProposeOutcome' /\ MapOutcome'
    <3>1. ProposeOutcome'
      BY <2>4 DEF UploadAgain, ProposeOutcome
    <3> QED
      BY <2>4, <3>1, UploadHolds
  <2>5. CASE task.op \notin {"propose", "map"} /\ task' = task
    BY <2>5 DEF ProposeOutcome, MapOutcome
  <2> QED
    BY <2>1, <2>2, <2>3, <2>4, <2>5 DEF Next, Analyze, Annotate, ModelFails, ModelRambles,
                                        ModelAnswers, Converse
<1> QED
  BY <1>1, <1>2, PTL DEF Spec

(* A field keeps its column from the proposal through the approval to the   *)
(* parser that runs over the rewritten headers.                             *)
THEOREM ColumnsAreKept == Spec => []FieldsKeepTheirColumns
<1>1. ProposeOutcome /\ MapOutcome => FieldsKeepTheirColumns
  <2> SUFFICES ASSUME ProposeOutcome, MapOutcome
               PROVE  ProposalCanBeApproved /\ MappingIsHonoured
    BY DEF FieldsKeepTheirColumns
  <2>1. ProposalCanBeApproved
    <3> SUFFICES ASSUME Done("propose")
                 PROVE  ProposalCanBeApproved
      BY DEF ProposalCanBeApproved
    <3>1. PICK x \in Proposals : x = task.in
      BY DEF ProposeOutcome, Done
    <3>2. PICK columns, offered, out :
            /\ columns = Clamped(x.answer) /\ offered = Offered(x.sheet, x.row)
            /\ out = Preselected(columns, offered)
      OBVIOUS
    <3>3. IsColumns(columns)
      BY <3>2, ClampedColumns
    <3>4. result = out
      BY <3>1, <3>2 DEF ProposeOutcome, Done
    <3>5. /\ \A kind : Required(kind) \subseteq DOMAIN out => Acceptable(kind, out)
          /\ \A k \in DOMAIN out : k \in Fields /\ out[k] \in offered
      BY <3>2, <3>3, PreselectedIsAcceptable
    <3> QED
      BY <3>1, <3>2, <3>4, <3>5 DEF ProposalCanBeApproved
  <2>2. MappingIsHonoured
    <3> SUFFICES ASSUME Done("map")
                 PROVE  MappingIsHonoured
      BY DEF MappingIsHonoured
    <3>1. PICK x \in Mappings : x = task.in
      BY DEF MapOutcome, Done
    <3>2. PICK made, approved, parse, later :
            /\ result = MappedTo(made, approved, parse, later)
            /\ Pending(x, made, approved, parse, later)
      BY <3>1 DEF MapOutcome, Done
    <3>3. made \in DOMAIN x.approvals /\ made \in 1..made
      BY <3>2, MappingsAssumption DEF Pending
    <3>4. PICK a : a = x.approvals[made]
      OBVIOUS
    <3>5. a.kind \in {"plog", "eff"} /\ IsWorkbook(a.wb) /\ Fits(a.wb, a.m)
      BY <3>3, <3>4, MappingsAssumption DEF IsMapping
    <3>6. /\ Parse(a.kind, a.wb) = NoParse /\ Acceptable(a.kind, a.m.columns)
          /\ parse = Parse(a.kind, Applied(a.wb, a.m))
      BY <3>2, <3>3, <3>4 DEF Pending
    <3>7. PICK kind, wb, m : kind = a.kind /\ wb = a.wb /\ m = a.m
      OBVIOUS
    <3>8. Honours(parse, m) \/ (kind = "eff" /\ parse = NoParse)
      BY <3>5, <3>6, <3>7, MappingHonoured
    <3>9. result.made = made /\ result.parse = parse
      BY <3>2 DEF MappedTo
    <3> QED
      BY <3>1, <3>4, <3>7, <3>8, <3>9 DEF MappingIsHonoured
  <2> QED
    BY <2>1, <2>2
<1> QED
  BY <1>1, MapOutcomeHolds, PTL

(* After any approvals, a later upload is put to a person exactly when no   *)
(* parser reads it, none of its rows looks like one approved for its kind,  *)
(* and nothing goes wrong; when one does, it is read as approved.           *)
THEOREM ApprovalIsNotAskedTwice == Spec => []ApprovalIsRemembered
<1>1. MapOutcome => ApprovalIsRemembered
  <2> SUFFICES ASSUME MapOutcome, Done("map"), result.later # NoResult
               PROVE  ApprovalIsRemembered
    BY DEF ApprovalIsRemembered
  <2>1. PICK x \in Mappings : x = task.in
    BY DEF MapOutcome, Done
  <2>2. PICK made, approved, parse, later :
          /\ result = MappedTo(made, approved, parse, later)
          /\ Pending(x, made, approved, parse, later)
    BY <2>1 DEF MapOutcome, Done
  <2>3. result.made = made /\ result.later = later
    BY <2>2 DEF MappedTo
  <2>4. PICK u \in x.later, t \in Troubles : later = UploadedLater(u, t, approved)
    BY <2>2, <2>3 DEF Pending
  <2>5. PICK as : as = x.approvals
    OBVIOUS
  <2>6. made \in Nat /\ Kept(approved, as, made)
    BY <2>2, <2>5, MappingsAssumption DEF Pending
  <2>7. \A j \in 1..made : CanBeMade(as[j])
    <3>1. \A j \in 1..made : j \in DOMAIN as
      BY <2>2, <2>5, MappingsAssumption DEF Pending
    <3> QED
      BY <2>2, <2>5, <3>1, MappingsAssumption DEF Pending, CanBeMade, IsMapping
  <2>8. PICK kind, wb : kind = u.kind /\ wb = u.wb
    OBVIOUS
  <2>9. IsWorkbook(wb)
    BY <2>8, MappingsAssumption
  <2>10. PICK up : up = Upload(kind, approved, wb, t)
    OBVIOUS
  <2>11. /\ later.kind = kind /\ later.wb = wb /\ later.trouble = t /\ later.outcome = up
    BY <2>4, <2>8, <2>10 DEF UploadedLater
  <2>12. AsApproved(as, made, kind, wb, t, up)
    BY <2>6, <2>7, <2>9, <2>10, UploadAsApproved
  <2> QED
    BY <2>1, <2>3, <2>5, <2>11, <2>12 DEF ApprovalIsRemembered, AsApproved
<1> QED
  BY <1>1, MapOutcomeHolds, PTL

-----------------------------------------------------------------------------
(* The efficiency report.  Sums, first: recursive functions over 0..N.      *)

(* Induction over 0..N, for a set. *)
LEMMA Reaches ==
  ASSUME NEW N \in Nat, NEW T, 0 \in T, \A n \in 1..N : n - 1 \in T => n \in T
  PROVE  \A n \in 0..N : n \in T
<1> SUFFICES ASSUME NEW m \in 0..N, m \notin T
             PROVE  FALSE
  OBVIOUS
<1> DEFINE Bad == {n \in 0..N : n \notin T}
<1>1. PICK x \in Bad : \A y \in Bad : x <= y
  <2>1. Bad \subseteq Nat /\ Bad # {}
    OBVIOUS
  <2> HIDE DEF Bad
  <2> QED
    BY <2>1, LeastExists
<1>2. x \in 1..N /\ x - 1 \in 0..N
  OBVIOUS
<1>3. x - 1 \notin Bad
  BY <1>1, <1>2
<1> QED
  BY <1>1, <1>2, <1>3

LEMMA ReachesEnd ==
  ASSUME NEW N \in Nat, NEW T, 0 \in T, \A n \in 1..N : n - 1 \in T => n \in T
  PROVE  N \in T
<1>1. \A n \in 0..N : n \in T
  BY Reaches
<1> QED
  BY <1>1

(* A recursive function over 0..N exists. *)
RunsBy(f, N, V, v, step) ==
  /\ f \in [0..N -> V] /\ f[0] = v
  /\ \A n \in 1..N : f[n] = step[<<n, f[n - 1]>>]
LEMMA Recursion ==
  ASSUME NEW N \in Nat, NEW V, NEW v \in V, NEW step \in [(1..N) \X V -> V]
  PROVE  \E f : RunsBy(f, N, V, v, step)
<1> DEFINE Up(n, f) == f[0] = v /\ \A k \in 1..n : f[k] = step[<<k, f[k - 1]>>]
           T == {n \in 0..N : \E f \in [0..n -> V] : Up(n, f)}
<1>1. 0 \in T
  <2> DEFINE z == [k \in 0..0 |-> v]
  <2>1. z \in [0..0 -> V] /\ z[0] = v
    OBVIOUS
  <2> HIDE DEF z
  <2> QED
    BY <2>1
<1>2. ASSUME NEW n \in 1..N, n - 1 \in T
      PROVE  n \in T
  <2>1. PICK f \in [0..(n - 1) -> V] : Up(n - 1, f)
    BY <1>2
  <2>2. PICK w \in V : w = step[<<n, f[n - 1]>>]
    <3>1. n - 1 \in 0..(n - 1)
      OBVIOUS
    <3>2. <<n, f[n - 1]>> \in (1..N) \X V
      BY <3>1
    <3> QED
      BY <3>2
  <2> DEFINE g == [k \in 0..n |-> IF k = n THEN w ELSE f[k]]
  <2>3. g \in [0..n -> V]
    OBVIOUS
  <2>4. Up(n, g)
    <3>1. g[0] = v /\ g[n] = w
      BY <2>1
    <3>2. \A k \in 1..n : g[k - 1] = f[k - 1]
      OBVIOUS
    <3>3. \A k \in 1..(n - 1) : g[k] = f[k]
      OBVIOUS
    <3> HIDE DEF g
    <3>4. \A k \in 1..n : k = n \/ k \in 1..(n - 1)
      OBVIOUS
    <3> QED
      BY <2>1, <2>2, <3>1, <3>2, <3>3, <3>4
  <2> HIDE DEF g
  <2> QED
    BY <2>3, <2>4
<1>3. \A n \in 0..N : n \in T
  <2> HIDE DEF T
  <2> QED
    BY <1>1, <1>2, Reaches
<1> QED
  BY <1>3 DEF RunsBy

PrefixSums(s, N, a) ==
  /\ s \in [0..N -> Int] /\ s[0] = 0
  /\ \A n \in 1..N : s[n] = s[n - 1] + a[n]
  /\ SumOf(a) = s[N]
LEMMA SumIs ==
  ASSUME NEW N \in Nat, NEW a \in [1..N -> Int]
  PROVE  \E s : PrefixSums(s, N, a)
<1> DEFINE Unrolled(g) == [n \in 0..N |-> IF n = 0 THEN 0 ELSE g[n - 1] + a[n]]
           g == CHOOSE f : f = Unrolled(f)
<1>1. Len(a) = N
  OBVIOUS
<1>2. SumOf(a) = g[N]
  BY <1>1 DEF SumOf
<1>3. g = Unrolled(g)
  <2> DEFINE V == Int
             step == [x \in (1..N) \X Int |-> x[2] + a[x[1]]]
  <2>1. step \in [(1..N) \X V -> V]
    OBVIOUS
  <2>2. 0 \in V
    OBVIOUS
  <2> HIDE DEF step, V
  <2>3. PICK f : RunsBy(f, N, V, 0, step)
    BY <2>1, <2>2, Recursion
  <2>4. /\ f \in [0..N -> Int] /\ f[0] = 0
        /\ \A n \in 1..N : f[n] = step[<<n, f[n - 1]>>]
    BY <2>3 DEF RunsBy, V
  <2>5. \A n \in 1..N : f[n] = f[n - 1] + a[n]
    <3> TAKE n \in 1..N
    <3>1. f[n - 1] \in Int
      BY <2>4
    <3>2. <<n, f[n - 1]>> \in (1..N) \X Int
      BY <3>1
    <3>3. step[<<n, f[n - 1]>>] = f[n - 1] + a[n]
      BY <3>2 DEF step
    <3> QED
      BY <2>4, <3>3
  <2>6. f = Unrolled(f)
    BY <2>2, <2>4, <2>5
  <2> HIDE DEF Unrolled
  <2> QED
    BY <2>6
<1>4. DOMAIN g = 0..N /\ g[0] = 0 /\ \A n \in 1..N : g[n] = g[n - 1] + a[n]
  <2> HIDE DEF g
  <2> QED
    BY <1>3
<1> HIDE DEF g
<1> DEFINE T == {n \in 0..N : g[n] \in Int}
<1>5. 0 \in T /\ \A n \in 1..N : n - 1 \in T => n \in T
  BY <1>4
<1>6. \A n \in 0..N : g[n] \in Int
  <2> HIDE DEF T
  <2>1. \A n \in 0..N : n \in T
    BY <1>5, Reaches
  <2> QED
    BY <2>1 DEF T
<1>7. g \in [0..N -> Int]
  <2>1. g = [n \in 0..N |-> g[n]]
    BY <1>3
  <2> QED
    BY <1>6, <2>1
<1> QED
  BY <1>2, <1>4, <1>7 DEF PrefixSums

LEMMA SumAdds ==
  ASSUME NEW N \in Nat, NEW a \in [1..N -> Int], NEW b \in [1..N -> Int],
         NEW c \in [1..N -> Int], \A n \in 1..N : c[n] = a[n] + b[n]
  PROVE  SumOf(c) = SumOf(a) + SumOf(b)
<1>1. PICK p : PrefixSums(p, N, a)
  BY SumIs
<1>2. PICK q : PrefixSums(q, N, b)
  BY SumIs
<1>3. PICK r : PrefixSums(r, N, c)
  BY SumIs
<1> DEFINE T == {n \in 0..N : r[n] = p[n] + q[n]}
<1>4. 0 \in T
  BY <1>1, <1>2, <1>3 DEF PrefixSums
<1>5. \A n \in 1..N : n - 1 \in T => n \in T
  <2> TAKE n \in 1..N
  <2> HAVE n - 1 \in T
  <2>1. p[n - 1] \in Int /\ q[n - 1] \in Int /\ r[n - 1] = p[n - 1] + q[n - 1]
    BY <1>1, <1>2 DEF PrefixSums
  <2>2. p[n] = p[n - 1] + a[n] /\ q[n] = q[n - 1] + b[n] /\ r[n] = r[n - 1] + c[n]
    BY <1>1, <1>2, <1>3 DEF PrefixSums
  <2>3. a[n] \in Int /\ b[n] \in Int
    OBVIOUS
  <2> QED
    BY <2>1, <2>2, <2>3
<1>6. N \in T
  <2> HIDE DEF T
  <2> QED
    BY <1>4, <1>5, ReachesEnd
<1> QED
  BY <1>1, <1>2, <1>3, <1>6 DEF PrefixSums

LEMMA SumScales ==
  ASSUME NEW N \in Nat, NEW a \in [1..N -> Int], NEW c \in [1..N -> Int],
         NEW m \in Int, \A n \in 1..N : c[n] = m * a[n]
  PROVE  SumOf(c) = m * SumOf(a)
<1>1. PICK p : PrefixSums(p, N, a)
  BY SumIs
<1>2. PICK r : PrefixSums(r, N, c)
  BY SumIs
<1> DEFINE T == {n \in 0..N : r[n] = m * p[n]}
<1>3. 0 \in T
  BY <1>1, <1>2 DEF PrefixSums
<1>4. \A n \in 1..N : n - 1 \in T => n \in T
  <2> TAKE n \in 1..N
  <2> HAVE n - 1 \in T
  <2>1. p[n - 1] \in Int /\ r[n - 1] = m * p[n - 1] /\ a[n] \in Int
    BY <1>1 DEF PrefixSums
  <2>2. p[n] = p[n - 1] + a[n] /\ r[n] = r[n - 1] + c[n]
    BY <1>1, <1>2 DEF PrefixSums
  <2>3. \A x, y \in Int : m * (x + y) = m * x + m * y
    OBVIOUS
  <2>4. r[n] = m * p[n]
    BY <2>1, <2>2, <2>3
  <2> QED
    BY <2>4
<1>5. N \in T
  <2> HIDE DEF T
  <2> QED
    BY <1>3, <1>4, ReachesEnd
<1> QED
  BY <1>1, <1>2, <1>5 DEF PrefixSums

Scales(c, N, m, a) ==
  /\ c \in [1..N -> Int] /\ SumOf(c) = m * SumOf(a)
  /\ \A n \in 1..N : c[n] = m * a[n]
LEMMA ScaledColumn ==
  ASSUME NEW N \in Nat, NEW a \in [1..N -> Int], NEW m \in Int
  PROVE  \E c : Scales(c, N, m, a)
<1> DEFINE c == [n \in 1..N |-> m * a[n]]
<1>1. c \in [1..N -> Int] /\ \A n \in 1..N : c[n] = m * a[n]
  <2>1. \A n \in 1..N : a[n] \in Int
    OBVIOUS
  <2>2. \A n \in 1..N : m * a[n] \in Int
    BY <2>1
  <2> QED
    BY <2>2
<1> HIDE DEF c
<1>2. SumOf(c) = m * SumOf(a)
  BY <1>1, SumScales
<1> QED
  BY <1>1, <1>2 DEF Scales

Adds(c, N, a, b) ==
  /\ c \in [1..N -> Int] /\ SumOf(c) = SumOf(a) + SumOf(b)
  /\ \A n \in 1..N : c[n] = a[n] + b[n]
LEMMA AddedColumns ==
  ASSUME NEW N \in Nat, NEW a \in [1..N -> Int], NEW b \in [1..N -> Int]
  PROVE  \E c : Adds(c, N, a, b)
<1> DEFINE c == [n \in 1..N |-> a[n] + b[n]]
<1>1. c \in [1..N -> Int] /\ \A n \in 1..N : c[n] = a[n] + b[n]
  OBVIOUS
<1> HIDE DEF c
<1>2. SumOf(c) = SumOf(a) + SumOf(b)
  BY <1>1, SumAdds
<1> QED
  BY <1>1, <1>2 DEF Adds

LEMMA SumIsMonotone ==
  ASSUME NEW N \in Nat, NEW a \in [1..N -> Int], NEW b \in [1..N -> Int],
         \A n \in 1..N : a[n] <= b[n]
  PROVE  /\ SumOf(a) \in Int /\ SumOf(b) \in Int
         /\ SumOf(a) <= SumOf(b)
         /\ \A m \in 1..N : a[m] < b[m] => SumOf(a) < SumOf(b)
<1>1. PICK p : PrefixSums(p, N, a)
  BY SumIs
<1>2. PICK q : PrefixSums(q, N, b)
  BY SumIs
<1> DEFINE T == {n \in 0..N : /\ p[n] <= q[n]
                              /\ \A m \in 1..N : m <= n /\ a[m] < b[m] => p[n] < q[n]}
<1>3. 0 \in T
  BY <1>1, <1>2 DEF PrefixSums
<1>4. \A n \in 1..N : n - 1 \in T => n \in T
  <2> TAKE n \in 1..N
  <2> HAVE n - 1 \in T
  <2>1. p[n - 1] \in Int /\ q[n - 1] \in Int /\ a[n] \in Int /\ b[n] \in Int
    BY <1>1, <1>2 DEF PrefixSums
  <2>2. p[n] = p[n - 1] + a[n] /\ q[n] = q[n - 1] + b[n]
    BY <1>1, <1>2 DEF PrefixSums
  <2>3. p[n] <= q[n] /\ (p[n - 1] < q[n - 1] \/ a[n] < b[n] => p[n] < q[n])
    BY <2>1, <2>2
  <2>4. ASSUME NEW m \in 1..N, m <= n, a[m] < b[m]
        PROVE  p[n] < q[n]
    <3>1. CASE m = n
      BY <2>3, <2>4, <3>1
    <3>2. CASE m <= n - 1
      BY <2>3, <2>4, <3>2
    <3> QED
      BY <2>4, <3>1, <3>2
  <2> QED
    BY <2>3, <2>4
<1>5. N \in T
  <2> HIDE DEF T
  <2> QED
    BY <1>3, <1>4, ReachesEnd
<1> QED
  BY <1>1, <1>2, <1>5 DEF PrefixSums

LEMMA SumIsInt ==
  ASSUME NEW N \in Nat, NEW a \in [1..N -> Int]
  PROVE  SumOf(a) \in Int
BY SumIsMonotone

LEMMA SumOfZeros ==
  ASSUME NEW N \in Nat, NEW a \in [1..N -> Int], \A n \in 1..N : a[n] = 0
  PROVE  SumOf(a) = 0
<1>1. SumOf(a) = 0 * SumOf(a)
  BY SumScales
<1> QED
  BY <1>1, SumIsInt

(* A column with one entry. *)
LEMMA SumOfOne ==
  ASSUME NEW N \in Nat, NEW a \in [1..N -> Int], NEW m \in 1..N,
         \A n \in 1..N : n # m => a[n] = 0
  PROVE  SumOf(a) = a[m]
<1>1. PICK p : PrefixSums(p, N, a)
  BY SumIs
<1> DEFINE T == {n \in 0..N : p[n] = IF n < m THEN 0 ELSE a[m]}
<1>2. 0 \in T
  BY <1>1 DEF PrefixSums
<1>3. \A n \in 1..N : n - 1 \in T => n \in T
  <2> TAKE n \in 1..N
  <2> HAVE n - 1 \in T
  <2>1. p[n] = p[n - 1] + a[n] /\ a[n] \in Int /\ a[m] \in Int
    BY <1>1 DEF PrefixSums
  <2>2. CASE n = m
    BY <2>1, <2>2
  <2>3. CASE n # m
    <3>1. a[n] = 0 /\ (n < m <=> n - 1 < m)
      BY <2>3
    <3> QED
      BY <2>1, <3>1
  <2> QED
    BY <2>2, <2>3
<1>4. N \in T
  <2> HIDE DEF T
  <2> QED
    BY <1>2, <1>3, ReachesEnd
<1> QED
  BY <1>1, <1>4 DEF PrefixSums

-----------------------------------------------------------------------------
(* Totals over sets of rows. *)

Picked(a, S) == [i \in DOMAIN a |-> IF i \in S THEN a[i] ELSE 0]

LEMMA PickedIs ==
  ASSUME NEW N \in Nat, NEW a \in [1..N -> Int], NEW S
  PROVE  Picked(a, S) \in [1..N -> Int]
BY DEF Picked

LEMMA TotalIs ==
  ASSUME NEW a, NEW S
  PROVE  Total(a, S) = SumOf(Picked(a, S))
BY DEF Total, Picked

LEMMA TotalIsInt ==
  ASSUME NEW N \in Nat, NEW a \in [1..N -> Int], NEW S
  PROVE  Total(a, S) \in Int
BY PickedIs, TotalIs, SumIsInt

Picks(c, N, a, S) ==
  /\ c \in [1..N -> Int] /\ SumOf(c) = Total(a, S)
  /\ \A i \in 1..N : (i \in S => c[i] = a[i]) /\ (i \notin S => c[i] = 0)
LEMMA PickedColumn ==
  ASSUME NEW N \in Nat, NEW a \in [1..N -> Int], NEW S
  PROVE  \E c : Picks(c, N, a, S)
<1>1. \A i \in 1..N : /\ i \in S => Picked(a, S)[i] = a[i]
                      /\ i \notin S => Picked(a, S)[i] = 0
  BY DEF Picked
<1> QED
  BY <1>1, PickedIs, TotalIs DEF Picks

Ones(N) == [i \in 1..N |-> 1]

LEMMA NextIsAdded ==
  ASSUME NEW N \in Nat, NEW n \in 1..N, NEW S
  PROVE  /\ n \in S => S \cap 1..n = (S \cap 1..(n - 1)) \cup {n}
         /\ n \notin S => S \cap 1..n = S \cap 1..(n - 1)
         /\ n \notin S \cap 1..(n - 1)
<1>1. 1..n = (1..(n - 1)) \cup {n} /\ n \notin 1..(n - 1)
  OBVIOUS
<1> QED
  BY <1>1

LEMMA CountIs ==
  ASSUME NEW N \in Nat, NEW S, S \subseteq 1..N
  PROVE  /\ IsFiniteSet(S) /\ Cardinality(S) \in Nat
         /\ Cardinality(S) = Total(Ones(N), S)
<1>1. IsFiniteSet(S) /\ Cardinality(S) \in Nat
  <2>1. IsFiniteSet(1..N)
    BY FS_Interval
  <2>2. IsFiniteSet(S)
    BY <2>1, FS_Subset
  <2> QED
    BY <2>2, FS_CardinalityType
<1>2. Ones(N) \in [1..N -> Int]
  BY DEF Ones
<1>3. PICK s : PrefixSums(s, N, Picked(Ones(N), S))
  BY <1>2, PickedIs, SumIs
<1>4. \A n \in 1..N : s[n] = s[n - 1] + IF n \in S THEN 1 ELSE 0
  <2>1. \A n \in 1..N : Picked(Ones(N), S)[n] = IF n \in S THEN 1 ELSE 0
    BY DEF Picked, Ones
  <2> QED
    BY <1>3, <2>1 DEF PrefixSums
<1> DEFINE T == {n \in 0..N : s[n] = Cardinality(S \cap 1..n)}
<1>5. 0 \in T
  BY <1>3, FS_EmptySet DEF PrefixSums
<1>6. \A n \in 1..N : n - 1 \in T => n \in T
  <2> TAKE n \in 1..N
  <2> HAVE n - 1 \in T
  <2>1. IsFiniteSet(S \cap 1..(n - 1)) /\ Cardinality(S \cap 1..(n - 1)) \in Nat
    BY <1>1, FS_Subset, FS_CardinalityType
  <2>2. CASE n \in S
    <3>1. S \cap 1..n = (S \cap 1..(n - 1)) \cup {n} /\ n \notin S \cap 1..(n - 1)
      BY <2>2, NextIsAdded
    <3>2. Cardinality(S \cap 1..n) = Cardinality(S \cap 1..(n - 1)) + 1
      BY <2>1, <3>1, FS_AddElement
    <3> QED
      BY <1>4, <2>2, <3>2
  <2>3. CASE n \notin S
    <3>1. S \cap 1..n = S \cap 1..(n - 1)
      BY <2>3, NextIsAdded
    <3>2. s[n - 1] \in Int
      BY <1>3 DEF PrefixSums
    <3>3. s[n] = s[n - 1]
      BY <1>4, <2>3, <3>2
    <3> QED
      BY <3>1, <3>3
  <2> QED
    BY <2>2, <2>3
<1>7. N \in T
  <2> HIDE DEF T
  <2> QED
    BY <1>5, <1>6, ReachesEnd
<1>8. S \cap 1..N = S
  OBVIOUS
<1> QED
  BY <1>1, <1>2, <1>3, <1>7, <1>8, TotalIs DEF PrefixSums

(* What is divided among slices adds up: label says which slice an entry is *)
(* in, if any.                                                              *)
Sliced(totals, K, a, N, label, S) ==
  /\ label \in [1..N -> 0..K] /\ S = {i \in 1..N : label[i] # 0}
  /\ totals \in [1..K -> Int]
  /\ \A k \in 1..K : totals[k] = Total(a, {i \in 1..N : label[i] = k})
LEMMA SlicesAddUp ==
  ASSUME NEW N \in Nat, NEW K \in Nat, NEW a \in [1..N -> Int], NEW label, NEW totals,
         NEW S, Sliced(totals, K, a, N, label, S)
  PROVE  SumOf(totals) = Total(a, S)
<1> /\ label \in [1..N -> 0..K] /\ S = {i \in 1..N : label[i] # 0}
    /\ totals \in [1..K -> Int]
    /\ \A k \in 1..K : totals[k] = Total(a, {i \in 1..N : label[i] = k})
  BY DEF Sliced
<1> DEFINE part(k) == Picked(a, {i \in 1..N : label[i] = k})
           p == [k \in 1..K |-> CHOOSE s : PrefixSums(s, N, part(k))]
           row(n) == [k \in 1..K |-> p[k][n]]
           entry(n) == [k \in 1..K |-> IF label[n] = k THEN a[n] ELSE 0]
<1>1. \A k \in 1..K : PrefixSums(p[k], N, part(k))
  <2> TAKE k \in 1..K
  <2>1. part(k) \in [1..N -> Int]
    BY PickedIs
  <2> HIDE DEF part
  <2>2. \E s : PrefixSums(s, N, part(k))
    BY <2>1, SumIs
  <2> QED
    BY <2>2
<1>2. PICK q : PrefixSums(q, N, Picked(a, S))
  BY PickedIs, SumIs
<1>3. /\ \A n \in 0..N : row(n) \in [1..K -> Int]
      /\ row(0) = [k \in 1..K |-> 0]
      /\ \A n \in 1..N : \A k \in 1..K : p[k][n] = p[k][n - 1] + part(k)[n]
      /\ \A k \in 1..K : Total(a, {i \in 1..N : label[i] = k}) = p[k][N]
  <2> HIDE DEF p, part
  <2>1. \A k \in 1..K : /\ p[k] \in [0..N -> Int] /\ p[k][0] = 0
                        /\ \A n \in 1..N : p[k][n] = p[k][n - 1] + part(k)[n]
                        /\ SumOf(part(k)) = p[k][N]
    BY <1>1 DEF PrefixSums
  <2>2. \A k \in 1..K : Total(a, {i \in 1..N : label[i] = k}) = p[k][N]
    BY <2>1, TotalIs DEF part
  <2> QED
    BY <2>1, <2>2
<1>4. \A n \in 1..N : \A k \in 1..K : part(k)[n] = IF label[n] = k THEN a[n] ELSE 0
  BY DEF Picked
<1> HIDE DEF p, part
<1> DEFINE T == {n \in 0..N : SumOf(row(n)) = q[n]}
<1>5. 0 \in T
  <2>1. [k \in 1..K |-> 0] \in [1..K -> Int]
    OBVIOUS
  <2>2. SumOf([k \in 1..K |-> 0]) = 0
    BY <2>1, SumOfZeros
  <2>3. q[0] = 0
    BY <1>2 DEF PrefixSums
  <2>4. SumOf(row(0)) = 0
    BY <1>3, <2>2
  <2> HIDE DEF row
  <2> QED
    BY <2>3, <2>4
<1>6. \A n \in 1..N : n - 1 \in T => n \in T
  <2> TAKE n \in 1..N
  <2> HAVE n - 1 \in T
  <2>1. row(n - 1) \in [1..K -> Int] /\ row(n) \in [1..K -> Int] /\ entry(n) \in [1..K -> Int]
    BY <1>3
  <2>2. \A k \in 1..K : row(n)[k] = row(n - 1)[k] + entry(n)[k]
    BY <1>3, <1>4
  <2>3. SumOf(row(n)) = SumOf(row(n - 1)) + SumOf(entry(n))
    <3> HIDE DEF row, entry
    <3> QED
      BY <2>1, <2>2, SumAdds
  <2>4. SumOf(entry(n)) = IF n \in S THEN a[n] ELSE 0
    <3>1. CASE label[n] = 0
      <4>1. \A k \in 1..K : entry(n)[k] = 0
        BY <3>1
      <4> HIDE DEF entry
      <4>2. SumOf(entry(n)) = 0
        BY <2>1, <4>1, SumOfZeros
      <4> QED
        BY <3>1, <4>2
    <3>2. CASE label[n] # 0
      <4>1. PICK m \in 1..K : m = label[n]
        BY <3>2
      <4>2. entry(n)[m] = a[n] /\ \A k \in 1..K : k # m => entry(n)[k] = 0
        BY <4>1
      <4> HIDE DEF entry
      <4>3. SumOf(entry(n)) = a[n]
        BY <2>1, <4>2, SumOfOne
      <4> QED
        BY <3>2, <4>3
    <3> QED
      BY <3>1, <3>2
  <2>5. q[n] = q[n - 1] + IF n \in S THEN a[n] ELSE 0
    BY <1>2 DEF PrefixSums, Picked
  <2> QED
    BY <2>3, <2>4, <2>5
<1>7. N \in T
  <2> HIDE DEF T
  <2> QED
    BY <1>5, <1>6, ReachesEnd
<1>8. totals = row(N)
  BY <1>3
<1> QED
  BY <1>2, <1>7, <1>8, TotalIs DEF PrefixSums

LEMMA TotalsCompare ==
  ASSUME NEW N \in Nat, NEW a \in [1..N -> Int], NEW b \in [1..N -> Int], NEW W, W \subseteq 1..N,
         W # {}, NEW x \in Int, NEW y \in Int, \A i \in W : x * a[i] < y * b[i]
  PROVE  x * Total(a, W) < y * Total(b, W)
<1>1. PICK p : Picks(p, N, a, W)
  BY PickedColumn
<1>2. PICK q : Picks(q, N, b, W)
  BY PickedColumn
<1>3. p \in [1..N -> Int] /\ q \in [1..N -> Int]
  BY <1>1, <1>2 DEF Picks
<1>4. PICK c : Scales(c, N, x, p)
  BY <1>3, ScaledColumn
<1>5. PICK d : Scales(d, N, y, q)
  BY <1>3, ScaledColumn
<1>6. c \in [1..N -> Int] /\ d \in [1..N -> Int]
  BY <1>4, <1>5 DEF Scales
<1>7. ASSUME NEW i \in 1..N
      PROVE  c[i] <= d[i] /\ (i \in W => c[i] < d[i])
  <2>1. c[i] = x * p[i] /\ d[i] = y * q[i]
    BY <1>4, <1>5 DEF Scales
  <2>2. CASE i \in W
    <3>1. p[i] = a[i] /\ q[i] = b[i]
      BY <1>1, <1>2, <2>2 DEF Picks
    <3>2. c[i] < d[i] /\ c[i] \in Int /\ d[i] \in Int
      BY <1>6, <2>1, <2>2, <3>1
    <3> QED
      BY <3>2
  <2>3. CASE i \notin W
    <3>1. p[i] = 0 /\ q[i] = 0
      BY <1>1, <1>2, <2>3 DEF Picks
    <3> QED
      BY <2>1, <2>3, <3>1
  <2> QED
    BY <2>2, <2>3
<1>8. PICK m \in W : TRUE
  OBVIOUS
<1>9. SumOf(c) < SumOf(d)
  <2>1. \A i \in 1..N : c[i] <= d[i]
    BY <1>7
  <2>2. m \in 1..N /\ c[m] < d[m]
    BY <1>7, <1>8
  <2> QED
    BY <1>6, <2>1, <2>2, SumIsMonotone
<1>10. SumOf(c) = x * Total(a, W) /\ SumOf(d) = y * Total(b, W)
  BY <1>1, <1>2, <1>4, <1>5 DEF Picks, Scales
<1> QED
  BY <1>9, <1>10

LEMMA TotalIsPositive ==
  ASSUME NEW N \in Nat, NEW a \in [1..N -> Int], NEW W, W \subseteq 1..N, W # {},
         \A i \in W : a[i] > 0
  PROVE  Total(a, W) \in Int /\ Total(a, W) > 0
<1>1. 0 * Total(a, W) < 1 * Total(a, W)
  <2>1. \A i \in W : 0 * a[i] < 1 * a[i]
    OBVIOUS
  <2>2. PICK x \in Int, y \in Int : x = 0 /\ y = 1
    OBVIOUS
  <2>3. x * Total(a, W) < y * Total(a, W)
    BY <2>1, <2>2, TotalsCompare
  <2> QED
    BY <2>2, <2>3
<1>2. Total(a, W) \in Int
  BY TotalIsInt
<1> QED
  BY <1>1, <1>2

-----------------------------------------------------------------------------
(* Rounding. *)

Rounds(share, c, n) ==
  share \in Int /\ -n <= 2 * n * share - 2000 * c /\ 2 * n * share - 2000 * c <= n
LEMMA UpIsClose ==
  ASSUME NEW c \in Int, NEW n \in Nat, n > 0
  PROVE  Rounds(ShareUp(c, n), c, n)
<1> DEFINE a == 2000 * c + n
           b == 2 * n
           q == a \div b
<1>1. a \in Int /\ b \in Int /\ b > 0
  OBVIOUS
<1>2. q \in Int /\ b * q <= a /\ a < b * q + b
  <2> HIDE DEF a, b
  <2> QED
    BY <1>1
<1>3. ShareUp(c, n) = q
  BY DEF ShareUp
<1> HIDE DEF q
<1> QED
  BY <1>2, <1>3 DEF Rounds

LEMMA DownIsClose ==
  ASSUME NEW c \in Int, NEW n \in Nat, n > 0
  PROVE  Rounds(ShareDown(c, n), c, n)
<1> DEFINE a == n - 2000 * c
           b == 2 * n
           q == a \div b
<1>1. a \in Int /\ b \in Int /\ b > 0
  OBVIOUS
<1>2. q \in Int /\ b * q <= a /\ a < b * q + b
  <2> HIDE DEF a, b
  <2> QED
    BY <1>1
<1>3. ShareDown(c, n) = -q
  BY DEF ShareDown
<1> HIDE DEF q
<1>4. 2 * n * (-q) = -(b * q)
  BY <1>2
<1> QED
  BY <1>2, <1>3, <1>4 DEF Rounds

(* Each slice is off by half a tenth at most, so all of them together by    *)
(* half a tenth per slice.                                                  *)
AreShares(share, count, n, K, D) ==
  /\ count \in [1..K -> Int] /\ SumOf(count) = n
  /\ share \in [1..K -> Int]
  /\ \A k \in 1..K : k \notin D => count[k] = 0
  /\ \A k \in 1..K : Rounds(share[k], count[k], n)
Between(least, drift, most, K) ==
  /\ least \in [1..K -> Int] /\ drift \in [1..K -> Int] /\ most \in [1..K -> Int]
  /\ \A k \in 1..K : least[k] <= drift[k] /\ drift[k] <= most[k]
LEMMA SumsBetween ==
  ASSUME NEW K \in Nat, NEW least, NEW drift, NEW most, Between(least, drift, most, K)
  PROVE  SumOf(least) <= SumOf(drift) /\ SumOf(drift) <= SumOf(most)
<1>1. /\ least \in [1..K -> Int] /\ drift \in [1..K -> Int] /\ most \in [1..K -> Int]
      /\ \A k \in 1..K : least[k] <= drift[k]
      /\ \A k \in 1..K : drift[k] <= most[k]
  BY DEF Between
<1>2. SumOf(least) <= SumOf(drift)
  BY <1>1, SumIsMonotone
<1>3. SumOf(drift) <= SumOf(most)
  BY <1>1, SumIsMonotone
<1> QED
  BY <1>2, <1>3

LEMMA SharesAddUp ==
  ASSUME NEW K \in Nat, NEW n \in Nat, n > 0, NEW count, NEW share, NEW D, D \subseteq 1..K,
         AreShares(share, count, n, K, D)
  PROVE  Tolerated(Total(share, D), Cardinality(D))
<1>1. share \in [1..K -> Int] /\ count \in [1..K -> Int] /\ SumOf(count) = n
  BY DEF AreShares
<1>2. PICK drawn : Picks(drawn, K, share, D)
  BY <1>1, PickedColumn
<1>3. PICK one : Picks(one, K, Ones(K), D)
  <2>1. Ones(K) \in [1..K -> Int]
    BY DEF Ones
  <2> QED
    BY <2>1, PickedColumn
<1>4. drawn \in [1..K -> Int] /\ one \in [1..K -> Int]
  BY <1>2, <1>3 DEF Picks
<1>5. PICK w \in Int : w = 2 * n
  OBVIOUS
<1>6. PICK m \in Int : m = -2000
  OBVIOUS
<1>7. PICK l \in Int : l = -n
  OBVIOUS
<1>8. PICK tenths : Scales(tenths, K, w, drawn)
  BY <1>4, ScaledColumn
<1>9. PICK posts : Scales(posts, K, m, count)
  BY <1>1, ScaledColumn
<1>10. PICK most : Scales(most, K, n, one)
  BY <1>4, ScaledColumn
<1>11. PICK least : Scales(least, K, l, one)
  BY <1>4, ScaledColumn
<1>12. /\ tenths \in [1..K -> Int] /\ posts \in [1..K -> Int]
       /\ most \in [1..K -> Int] /\ least \in [1..K -> Int]
  BY <1>8, <1>9, <1>10, <1>11 DEF Scales
<1>13. PICK drift : Adds(drift, K, tenths, posts)
  BY <1>12, AddedColumns
<1>14. ASSUME NEW k \in 1..K
       PROVE  least[k] <= drift[k] /\ drift[k] <= most[k]
  <2>1. /\ drift[k] = w * drawn[k] + m * count[k]
        /\ most[k] = n * one[k] /\ least[k] = l * one[k]
    BY <1>8, <1>9, <1>10, <1>11, <1>13 DEF Scales, Adds
  <2>2. share[k] \in Int /\ count[k] \in Int
    BY <1>1
  <2>3. CASE k \in D
    <3>1. drawn[k] = share[k] /\ one[k] = 1
      BY <1>2, <1>3, <2>3 DEF Picks, Ones
    <3>2. drift[k] = 2 * n * share[k] - 2000 * count[k] /\ most[k] = n /\ least[k] = -n
      BY <1>5, <1>6, <1>7, <2>1, <2>2, <3>1
    <3>3. /\ -n <= 2 * n * share[k] - 2000 * count[k]
          /\ 2 * n * share[k] - 2000 * count[k] <= n
      BY DEF AreShares, Rounds
    <3> QED
      BY <3>2, <3>3
  <2>4. CASE k \notin D
    <3>1. drawn[k] = 0 /\ one[k] = 0
      BY <1>2, <1>3, <2>4 DEF Picks
    <3>2. count[k] = 0
      BY <2>4 DEF AreShares
    <3> QED
      BY <1>5, <1>6, <1>7, <2>1, <3>1, <3>2
  <2> QED
    BY <2>3, <2>4
<1>15. Between(least, drift, most, K)
  <2>1. drift \in [1..K -> Int]
    BY <1>13 DEF Adds
  <2> QED
    BY <1>12, <1>14, <2>1 DEF Between
<1>16. SumOf(least) <= SumOf(drift) /\ SumOf(drift) <= SumOf(most)
  BY <1>15, SumsBetween
<1>17. PICK U \in Int : U = Total(share, D)
  BY <1>1, TotalIsInt
<1>18. PICK C \in Int : C = Cardinality(D)
  <2>1. Cardinality(D) \in Nat
    BY CountIs
  <2> QED
    BY <2>1
<1>19. SumOf(drawn) = U /\ SumOf(one) = C
  BY <1>2, <1>3, <1>17, <1>18, CountIs DEF Picks
<1>20. SumOf(drift) = w * U + m * n /\ SumOf(most) = n * C /\ SumOf(least) = l * C
  BY <1>1, <1>8, <1>9, <1>10, <1>11, <1>13, <1>19 DEF Scales, Adds
<1>21. PICK V \in Int : V = 2 * (U - 1000)
  OBVIOUS
<1>22. w * U + m * n = n * V
  BY <1>5, <1>6, <1>21
<1>23. l * C <= n * V /\ n * V <= n * C
  BY <1>16, <1>20, <1>22
<1>24. -C <= V /\ V <= C
  <2>1. \A x, y \in Int : n * x <= n * y => x <= y
    OBVIOUS
  <2>2. V <= C
    BY <1>23, <2>1
  <2>3. n * (-C) <= n * V
    BY <1>7, <1>23
  <2>4. -C \in Int
    OBVIOUS
  <2>5. -C <= V
    BY <2>1, <2>3, <2>4
  <2> QED
    BY <2>2, <2>5
<1> QED
  BY <1>17, <1>18, <1>21, <1>24 DEF Tolerated

-----------------------------------------------------------------------------
(* The mean of ratios. *)

Pairs == Int \X Int
MeanStep(q, scale, p, u) == <<q[1] * u + scale * p * q[2], q[2] * u>>
MeanSums(s, N, scale, price, unit, S) ==
  /\ s \in [0..N -> Pairs] /\ s[0] = <<0, 1>>
  /\ \A n \in 1..N : n \in S => s[n] = MeanStep(s[n - 1], scale, price[n], unit[n])
  /\ \A n \in 1..N : n \notin S => s[n] = s[n - 1]
  /\ MeanRatio(scale, price, unit, S) = Ratio(s[N][1], s[N][2] * Cardinality(S))

LEMMA MeanStepType ==
  ASSUME NEW q \in Pairs, NEW scale \in Int, NEW p \in Int, NEW u \in Int
  PROVE  MeanStep(q, scale, p, u) \in Pairs
<1>1. PICK x \in Int : x = q[1]
  BY DEF Pairs
<1>2. PICK y \in Int : y = q[2]
  BY DEF Pairs
<1>3. PICK z \in Int : z = scale * p
  OBVIOUS
<1>4. x * u + z * y \in Int /\ y * u \in Int
  OBVIOUS
<1> QED
  BY <1>1, <1>2, <1>3, <1>4 DEF Pairs, MeanStep

LEMMA MeanIs ==
  ASSUME NEW N \in Nat, NEW price \in [1..N -> Int], NEW unit \in [1..N -> Int],
         NEW scale \in Int, NEW S
  PROVE  \E s : MeanSums(s, N, scale, price, unit, S)
<1> DEFINE Unrolled(g) == [n \in 0..N |-> IF n = 0 THEN <<0, 1>>
                                      ELSE LET q == g[n - 1]
                                           IN  IF n \in S
                                               THEN <<q[1] * unit[n] + scale * price[n] * q[2], q[2] * unit[n]>>
                                               ELSE q]
           g == CHOOSE f : f = Unrolled(f)
<1>1. Len(price) = N
  OBVIOUS
<1>2. MeanRatio(scale, price, unit, S) = Ratio(g[N][1], g[N][2] * Cardinality(S))
  BY <1>1 DEF MeanRatio
<1>3. \E f : /\ f \in [0..N -> Pairs] /\ f[0] = <<0, 1>>
             /\ \A n \in 1..N : f[n] = IF n \in S THEN MeanStep(f[n - 1], scale, price[n], unit[n])
                                 ELSE f[n - 1]
  <2> DEFINE step == [x \in (1..N) \X Pairs |->
                        IF x[1] \in S THEN MeanStep(x[2], scale, price[x[1]], unit[x[1]]) ELSE x[2]]
  <2>1. step \in [(1..N) \X Pairs -> Pairs]
    <3>1. ASSUME NEW x \in (1..N) \X Pairs
          PROVE  x[2] \in Pairs /\ MeanStep(x[2], scale, price[x[1]], unit[x[1]]) \in Pairs
      <4>1. PICK k \in 1..N : k = x[1]
        OBVIOUS
      <4>2. PICK q \in Pairs : q = x[2]
        OBVIOUS
      <4>3. price[k] \in Int /\ unit[k] \in Int
        OBVIOUS
      <4>4. MeanStep(q, scale, price[k], unit[k]) \in Pairs
        BY <4>3, MeanStepType
      <4> QED
        BY <4>1, <4>2, <4>4
    <3> QED
      BY <3>1
  <2>2. <<0, 1>> \in Pairs
    BY DEF Pairs
  <2> HIDE DEF step
  <2>3. PICK f : RunsBy(f, N, Pairs, <<0, 1>>, step)
    BY <2>1, <2>2, Recursion
  <2>4. f \in [0..N -> Pairs] /\ f[0] = <<0, 1>>
    BY <2>3 DEF RunsBy
  <2>5. \A n \in 1..N : f[n] = step[<<n, f[n - 1]>>]
    BY <2>3 DEF RunsBy
  <2>6. \A n \in 1..N : f[n] = IF n \in S THEN MeanStep(f[n - 1], scale, price[n], unit[n])
                                ELSE f[n - 1]
    <3> TAKE n \in 1..N
    <3>1. PICK q \in Pairs : q = f[n - 1]
      BY <2>4
    <3>2. <<n, q>> \in (1..N) \X Pairs
      OBVIOUS
    <3>3. step[<<n, q>>] = IF n \in S THEN MeanStep(q, scale, price[n], unit[n]) ELSE q
      BY <3>2 DEF step
    <3> QED
      BY <2>5, <3>1, <3>3
  <2> QED
    BY <2>4, <2>6
<1>4. g = Unrolled(g)
  <2>1. PICK f : /\ f \in [0..N -> Pairs] /\ f[0] = <<0, 1>>
                 /\ \A n \in 1..N : f[n] = IF n \in S THEN MeanStep(f[n - 1], scale, price[n], unit[n])
                                     ELSE f[n - 1]
    BY <1>3
  <2>2. f = Unrolled(f)
    <3>1. f = [n \in 0..N |-> f[n]]
      BY <2>1
    <3>2. \A n \in 0..N : n # 0 => n \in 1..N
      OBVIOUS
    <3>3. ASSUME NEW n \in 0..N
          PROVE  f[n] = Unrolled(f)[n]
      <4>1. CASE n = 0
        BY <2>1, <4>1
      <4>2. CASE n # 0
        <5>1. f[n] = IF n \in S THEN MeanStep(f[n - 1], scale, price[n], unit[n]) ELSE f[n - 1]
          BY <2>1, <3>2, <4>2
        <5> QED
          BY <4>2, <5>1 DEF MeanStep
      <4> QED
        BY <4>1, <4>2
    <3>4. Unrolled(f) = [n \in 0..N |-> Unrolled(f)[n]]
      OBVIOUS
    <3> HIDE DEF Unrolled
    <3> QED
      BY <3>1, <3>3, <3>4
  <2> HIDE DEF Unrolled
  <2> QED
    BY <2>2
<1>5. DOMAIN g = 0..N /\ g[0] = <<0, 1>>
  <2> HIDE DEF g
  <2> QED
    BY <1>4
<1>6. \A n \in 1..N : g[n] = IF n \in S THEN MeanStep(g[n - 1], scale, price[n], unit[n]) ELSE g[n - 1]
  <2> HIDE DEF g
  <2> TAKE n \in 1..N
  <2>1. n \in 0..N /\ n # 0
    OBVIOUS
  <2>2. Unrolled(g)[n] = IF n \in S THEN MeanStep(g[n - 1], scale, price[n], unit[n]) ELSE g[n - 1]
    BY <2>1 DEF MeanStep
  <2> HIDE DEF Unrolled
  <2> QED
    BY <1>4, <2>2
<1> HIDE DEF g, Unrolled
<1> DEFINE T == {n \in 0..N : g[n] \in Pairs}
<1>7. 0 \in T
  BY <1>5 DEF Pairs
<1>8. \A n \in 1..N : n - 1 \in T => n \in T
  <2> TAKE n \in 1..N
  <2> HAVE n - 1 \in T
  <2>1. PICK q \in Pairs : q = g[n - 1]
    OBVIOUS
  <2>2. price[n] \in Int /\ unit[n] \in Int
    OBVIOUS
  <2>3. MeanStep(q, scale, price[n], unit[n]) \in Pairs
    BY <2>2, MeanStepType
  <2>4. g[n] \in Pairs
    BY <1>6, <2>1, <2>3
  <2> QED
    BY <2>4
<1>9. \A n \in 0..N : g[n] \in Pairs
  <2> HIDE DEF T
  <2>1. \A n \in 0..N : n \in T
    BY <1>7, <1>8, Reaches
  <2> QED
    BY <2>1 DEF T
<1>10. g \in [0..N -> Pairs]
  <2>1. g = [n \in 0..N |-> g[n]]
    BY <1>4, <1>5 DEF Unrolled
  <2> QED
    BY <1>9, <2>1
<1> QED
  BY <1>2, <1>5, <1>6, <1>10 DEF MeanSums

(* Numbers and denominators of the sums are integers, denominators positive. *)
LEMMA MeanIsDefined ==
  ASSUME NEW N \in Nat, NEW price \in [1..N -> Int], NEW unit \in [1..N -> Int],
         NEW scale \in Int, NEW S, \A i \in S : unit[i] > 0,
         NEW s, MeanSums(s, N, scale, price, unit, S)
  PROVE  \A n \in 0..N : s[n][1] \in Int /\ s[n][2] \in Int /\ s[n][2] > 0
<1> DEFINE T == {n \in 0..N : s[n][2] > 0}
<1>1. \A n \in 0..N : s[n][1] \in Int /\ s[n][2] \in Int
  BY DEF MeanSums, Pairs
<1>2. 0 \in T
  BY DEF MeanSums
<1>3. \A n \in 1..N : n - 1 \in T => n \in T
  <2> TAKE n \in 1..N
  <2> HAVE n - 1 \in T
  <2>1. PICK y \in Int : y = s[n - 1][2] /\ y > 0
    BY <1>1
  <2>2. CASE n \in S
    <3>1. PICK u \in Int : u = unit[n] /\ u > 0
      BY <2>2
    <3>2. s[n][2] = y * u
      BY <2>1, <2>2, <3>1 DEF MeanSums, MeanStep
    <3>3. y * u > 0
      BY <2>1, <3>1
    <3> QED
      BY <3>2, <3>3
  <2>3. CASE n \notin S
    <3>1. s[n] = s[n - 1]
      BY <2>3 DEF MeanSums
    <3> QED
      BY <2>1, <3>1
  <2> QED
    BY <2>2, <2>3
<1>4. \A n \in 0..N : n \in T
  <2> HIDE DEF T
  <2> QED
    BY <1>2, <1>3, Reaches
<1> QED
  BY <1>1, <1>4

(* Adding a ratio above a / b to C ratios that together are at least C times *)
(* that.                                                                     *)
LEMMA OneMoreRatio ==
  ASSUME NEW P \in Int, NEW Q \in Int, Q > 0, NEW C \in Int, NEW u \in Int, u > 0,
         NEW r \in Int, NEW a \in Int, NEW b \in Int,
         a * (Q * C) <= P * b, a * u < r * b
  PROVE  a * ((Q * u) * (C + 1)) < (P * u + r * Q) * b
<1>1. PICK x \in Int : x = P * b - a * (Q * C)
  OBVIOUS
<1>2. PICK y \in Int : y = r * b - a * u
  OBVIOUS
<1>3. x >= 0 /\ y > 0
  BY <1>1, <1>2
<1>4. x * u >= 0
  BY <1>3
<1>5. y * Q > 0
  BY <1>3
<1>6. (P * u + r * Q) * b - a * ((Q * u) * (C + 1)) = x * u + y * Q
  BY <1>1, <1>2
<1>7. (P * u + r * Q) * b \in Int /\ a * ((Q * u) * (C + 1)) \in Int
  OBVIOUS
<1>8. PICK v \in Int : v = x * u
  OBVIOUS
<1>9. PICK w \in Int : w = y * Q
  OBVIOUS
<1> QED
  BY <1>4, <1>5, <1>6, <1>7, <1>8, <1>9

LEMMA MeanIsAbove ==
  ASSUME NEW N \in Nat, NEW price \in [1..N -> Int], NEW unit \in [1..N -> Int],
         NEW scale \in Int, NEW S, S \subseteq 1..N, S # {},
         NEW a \in Int, NEW b \in Int,
         \A i \in S : unit[i] > 0 /\ a * unit[i] < (scale * price[i]) * b,
         NEW s, MeanSums(s, N, scale, price, unit, S)
  PROVE  a * (s[N][2] * Cardinality(S)) < s[N][1] * b
<1> DEFINE C(n) == Cardinality(S \cap 1..n)
           T == {n \in 0..N : /\ a * (s[n][2] * C(n)) <= s[n][1] * b
                              /\ S \cap 1..n # {} => a * (s[n][2] * C(n)) < s[n][1] * b}
<1>1. \A n \in 0..N : s[n][1] \in Int /\ s[n][2] \in Int /\ s[n][2] > 0
  BY MeanIsDefined
<1>2. \A n \in 0..N : IsFiniteSet(S \cap 1..n) /\ C(n) \in Nat
  <2>1. IsFiniteSet(S)
    BY CountIs
  <2> QED
    BY <2>1, FS_Subset, FS_CardinalityType
<1>3. 0 \in T
  <2>1. S \cap 1..0 = {} /\ C(0) = 0
    BY FS_EmptySet
  <2>2. s[0][1] = 0 /\ s[0][2] = 1
    BY DEF MeanSums
  <2> QED
    BY <2>1, <2>2
<1>4. \A n \in 1..N : n - 1 \in T => n \in T
  <2> TAKE n \in 1..N
  <2> HAVE n - 1 \in T
  <2>1. PICK P \in Int : P = s[n - 1][1]
    BY <1>1
  <2>2. PICK Q \in Int : Q = s[n - 1][2] /\ Q > 0
    BY <1>1
  <2>3. PICK D \in Int : D = C(n - 1)
    <3>1. C(n - 1) \in Nat
      BY <1>2
    <3> HIDE DEF C
    <3> QED
      BY <3>1
  <2>4. a * (Q * D) <= P * b /\ (S \cap 1..(n - 1) # {} => a * (Q * D) < P * b)
    BY <2>1, <2>2, <2>3
  <2>5. CASE n \in S
    <3>1. S \cap 1..n = (S \cap 1..(n - 1)) \cup {n} /\ n \notin S \cap 1..(n - 1)
      BY <2>5, NextIsAdded
    <3>2. C(n) = D + 1
      <4>1. IsFiniteSet(S \cap 1..(n - 1))
        BY <1>2
      <4> QED
        BY <2>3, <3>1, <4>1, FS_AddElement
    <3>3. PICK u \in Int : u = unit[n]
      OBVIOUS
    <3>4. PICK r \in Int : r = scale * price[n]
      OBVIOUS
    <3>5. u > 0 /\ a * u < r * b
      BY <2>5, <3>3, <3>4
    <3>6. a * ((Q * u) * (D + 1)) < (P * u + r * Q) * b
      BY <2>2, <2>4, <3>5, OneMoreRatio
    <3>7. s[n][1] = P * u + r * Q /\ s[n][2] = Q * u
      <4>1. s[n] = MeanStep(s[n - 1], scale, price[n], unit[n])
        BY <2>5 DEF MeanSums
      <4>2. s[n][1] = s[n - 1][1] * unit[n] + scale * price[n] * s[n - 1][2]
        BY <4>1 DEF MeanStep
      <4>3. s[n][2] = s[n - 1][2] * unit[n]
        BY <4>1 DEF MeanStep
      <4> QED
        BY <2>1, <2>2, <3>3, <3>4, <4>2, <4>3
    <3>8. a * (s[n][2] * C(n)) < s[n][1] * b
      <4> HIDE DEF C
      <4> QED
        BY <3>2, <3>6, <3>7
    <3>9. a * (s[n][2] * C(n)) <= s[n][1] * b
      <4>1. PICK x \in Int : x = a * ((Q * u) * (D + 1))
        OBVIOUS
      <4>2. PICK y \in Int : y = (P * u + r * Q) * b
        OBVIOUS
      <4>3. x <= y
        BY <3>6, <4>1, <4>2
      <4> HIDE DEF C
      <4> QED
        BY <3>2, <3>7, <4>1, <4>2, <4>3
    <3> HIDE DEF C
    <3> QED
      BY <3>8, <3>9
  <2>6. CASE n \notin S
    <3>1. S \cap 1..n = S \cap 1..(n - 1)
      BY <2>6, NextIsAdded
    <3>2. s[n] = s[n - 1]
      BY <2>6 DEF MeanSums
    <3>3. s[n][1] = P /\ s[n][2] = Q /\ C(n) = D
      BY <2>1, <2>2, <2>3, <3>1, <3>2
    <3> HIDE DEF C
    <3>4. a * (s[n][2] * C(n)) <= s[n][1] * b
      BY <2>4, <3>3
    <3>5. S \cap 1..n # {} => a * (s[n][2] * C(n)) < s[n][1] * b
      BY <2>4, <3>1, <3>3
    <3> QED
      BY <3>4, <3>5
  <2> QED
    BY <2>5, <2>6
<1>5. N \in T
  <2> HIDE DEF T
  <2> QED
    BY <1>3, <1>4, ReachesEnd
<1>6. S \cap 1..N = S
  OBVIOUS
<1> QED
  BY <1>5, <1>6

LEMMA IsWithin ==
  ASSUME NEW N \in Nat, NEW price \in [1..N -> Int], NEW unit \in [1..N -> Int],
         NEW scale \in Int, NEW S, S \subseteq 1..N, With(unit, S) # {},
         NEW x \in Int, NEW y \in Int,
         ~ \A i \in With(unit, S) : x * unit[i] < (scale * price[i]) * y,
         ~ \A i \in With(unit, S) : (scale * price[i]) * y < x * unit[i]
  PROVE  Within(<<x, y>>, Costs(scale, price, unit, S))
<1> DEFINE cost(i) == <<scale * price[i], unit[i]>>
           costs == Costs(scale, price, unit, S)
<1>1. \A i \in With(unit, S) : unit[i] > 0 /\ unit[i] \in Int /\ price[i] \in Int
  BY DEF With
<1>2. \A i \in With(unit, S) : Ratio(scale * price[i], unit[i]) = cost(i)
  <2> TAKE i \in With(unit, S)
  <2>1. PICK u \in Int : u = unit[i] /\ u > 0
    BY <1>1
  <2>2. u # 0
    BY <2>1
  <2> QED
    BY <2>1, <2>2 DEF Ratio
<1>3. \A i \in With(unit, S) : cost(i) \in costs
  <2> TAKE i \in With(unit, S)
  <2>1. Ratio(scale * price[i], unit[i]) \in costs
    BY DEF Costs
  <2> QED
    BY <1>2, <2>1
<1>4. <<x, y>> # None
  <2>1. <<x, y>> \in Int \X Int
    OBVIOUS
  <2> QED
    BY <2>1, NoneAssumption
<1>5. \E c \in costs : AtMost(c, <<x, y>>)
  <2>1. PICK i \in With(unit, S) : ~(x * unit[i] < (scale * price[i]) * y)
    OBVIOUS
  <2>2. (scale * price[i]) * y <= x * unit[i]
    <3>1. PICK u \in Int, p \in Int : u = unit[i] /\ p = price[i]
      BY <1>1
    <3>2. PICK l \in Int : l = (scale * p) * y
      OBVIOUS
    <3>3. PICK r \in Int : r = x * u
      OBVIOUS
    <3> QED
      BY <2>1, <3>1, <3>2, <3>3
  <2>3. AtMost(cost(i), <<x, y>>)
    BY <2>2 DEF AtMost
  <2> HIDE DEF cost, costs
  <2> QED
    BY <1>3, <2>3
<1>6. \E c \in costs : AtMost(<<x, y>>, c)
  <2>1. PICK i \in With(unit, S) : ~((scale * price[i]) * y < x * unit[i])
    OBVIOUS
  <2>2. x * unit[i] <= (scale * price[i]) * y
    <3>1. PICK u \in Int, p \in Int : u = unit[i] /\ p = price[i]
      BY <1>1
    <3>2. PICK l \in Int : l = (scale * p) * y
      OBVIOUS
    <3>3. PICK r \in Int : r = x * u
      OBVIOUS
    <3> QED
      BY <2>1, <3>1, <3>2, <3>3
  <2>3. AtMost(<<x, y>>, cost(i))
    BY <2>2 DEF AtMost
  <2> HIDE DEF cost, costs
  <2> QED
    BY <1>3, <2>3
<1>7. costs # {}
  <2> HIDE DEF costs, cost
  <2> QED
    BY <1>3
<1> QED
  BY <1>4, <1>5, <1>6, <1>7 DEF Within

LEMMA TotalOfNone ==
  ASSUME NEW N \in Nat, NEW a \in [1..N -> Int]
  PROVE  Total(a, {}) = 0
<1>1. PICK c : Picks(c, N, a, {})
  BY PickedColumn
<1>2. c \in [1..N -> Int] /\ \A i \in 1..N : c[i] = 0
  BY <1>1 DEF Picks
<1>3. SumOf(c) = 0
  BY <1>2, SumOfZeros
<1> QED
  BY <1>1, <1>3 DEF Picks

LEMMA PooledIsWithin ==
  ASSUME NEW N \in Nat, NEW price \in [1..N -> Int], NEW unit \in [1..N -> Int],
         NEW scale \in Int, NEW S, S \subseteq 1..N
  PROVE  Within(Pooled(scale, price, unit, S), Costs(scale, price, unit, S))
<1> DEFINE W == With(unit, S)
<1>1. W \subseteq 1..N /\ \A i \in W : unit[i] > 0
  BY DEF With
<1> HIDE DEF W
<1>2. CASE W = {}
  <2>1. Total(unit, W) = 0
    BY <1>2, TotalOfNone
  <2>2. Pooled(scale, price, unit, S) = None
    BY <2>1 DEF Pooled, Ratio, W
  <2>3. Costs(scale, price, unit, S) = {}
    BY <1>2 DEF Costs, W
  <2> QED
    BY <2>2, <2>3 DEF Within
<1>3. CASE W # {}
  <2>1. PICK y \in Int : y = Total(unit, W)
    BY TotalIsInt
  <2>2. y > 0
    BY <1>1, <1>3, <2>1, TotalIsPositive
  <2>3. PICK t \in Int : t = Total(price, W)
    BY TotalIsInt
  <2>4. PICK x \in Int : x = scale * t
    OBVIOUS
  <2>5. PICK z \in Int : z = scale * y
    OBVIOUS
  <2>6. x * y = z * t
    BY <2>4, <2>5
  <2>7. ~ \A i \in W : x * unit[i] < (scale * price[i]) * y
    <3> SUFFICES ASSUME \A i \in W : x * unit[i] < (scale * price[i]) * y
                 PROVE  FALSE
      OBVIOUS
    <3>1. \A i \in W : x * unit[i] < z * price[i]
      <4> TAKE i \in W
      <4>1. PICK p \in Int : p = price[i]
        BY <1>1
      <4>2. (scale * p) * y = z * p
        BY <2>5
      <4>3. x * unit[i] < (scale * price[i]) * y
        OBVIOUS
      <4> QED
        BY <4>1, <4>2, <4>3
    <3>2. x * Total(unit, W) < z * Total(price, W)
      BY <1>1, <1>3, <3>1, TotalsCompare
    <3>3. x * y < z * t
      BY <2>1, <2>3, <3>2
    <3>4. x * y \in Int
      OBVIOUS
    <3> QED
      BY <2>6, <3>3, <3>4
  <2>8. ~ \A i \in W : (scale * price[i]) * y < x * unit[i]
    <3> SUFFICES ASSUME \A i \in W : (scale * price[i]) * y < x * unit[i]
                 PROVE  FALSE
      OBVIOUS
    <3>1. \A i \in W : z * price[i] < x * unit[i]
      <4> TAKE i \in W
      <4>1. PICK p \in Int : p = price[i]
        BY <1>1
      <4>2. (scale * p) * y = z * p
        BY <2>5
      <4>3. (scale * price[i]) * y < x * unit[i]
        OBVIOUS
      <4> QED
        BY <4>1, <4>2, <4>3
    <3>2. z * Total(price, W) < x * Total(unit, W)
      BY <1>1, <1>3, <3>1, TotalsCompare
    <3>3. z * t < x * y
      BY <2>1, <2>3, <3>2
    <3>4. x * y \in Int
      OBVIOUS
    <3> QED
      BY <2>6, <3>3, <3>4
  <2>9. Within(<<x, y>>, Costs(scale, price, unit, S))
    BY <1>3, <2>7, <2>8, IsWithin DEF W
  <2>10. Pooled(scale, price, unit, S) = <<x, y>>
    BY <2>1, <2>2, <2>3, <2>4 DEF Pooled, Ratio, W
  <2> QED
    BY <2>9, <2>10
<1> QED
  BY <1>2, <1>3

LEMMA PerPostIsWithin ==
  ASSUME NEW N \in Nat, NEW price \in [1..N -> Int], NEW unit \in [1..N -> Int],
         NEW scale \in Int, NEW S, S \subseteq 1..N
  PROVE  Within(PerPost(scale, price, unit, S), Costs(scale, price, unit, S))
<1> DEFINE W == With(unit, S)
<1>1. W \subseteq 1..N /\ \A i \in W : unit[i] > 0
  BY DEF With
<1> HIDE DEF W
<1>2. PICK s : MeanSums(s, N, scale, price, unit, W)
  BY MeanIs
<1> \A n \in 0..N : s[n][1] \in Int /\ s[n][2] \in Int /\ s[n][2] > 0
  BY <1>1, <1>2, MeanIsDefined
<1>3. PICK P \in Int : P = s[N][1]
  OBVIOUS
<1>4. PICK Q \in Int : Q = s[N][2] /\ Q > 0
  OBVIOUS
<1>5. IsFiniteSet(W) /\ Cardinality(W) \in Nat
  BY <1>1, CountIs
<1>6. PICK C \in Nat : C = Cardinality(W)
  BY <1>5
<1>7. PerPost(scale, price, unit, S) = Ratio(P, Q * C)
  BY <1>2, <1>3, <1>4, <1>6 DEF MeanSums, PerPost, W
<1>8. CASE W = {}
  <2>1. C = 0
    BY <1>6, <1>8, FS_EmptySet
  <2>2. Q * C = 0
    BY <2>1
  <2>3. PerPost(scale, price, unit, S) = None
    BY <1>7, <2>2 DEF Ratio
  <2>4. Costs(scale, price, unit, S) = {}
    BY <1>8 DEF Costs, W
  <2> QED
    BY <2>3, <2>4 DEF Within
<1>9. CASE W # {}
  <2>1. C # 0
    BY <1>5, <1>6, <1>9, FS_EmptySet
  <2>2. PICK y \in Int : y = Q * C
    OBVIOUS
  <2>3. y > 0
    BY <1>4, <2>1, <2>2
  <2>4. ~ \A i \in W : P * unit[i] < (scale * price[i]) * y
    <3> SUFFICES ASSUME \A i \in W : P * unit[i] < (scale * price[i]) * y
                 PROVE  FALSE
      OBVIOUS
    <3>1. \A i \in W : unit[i] > 0 /\ P * unit[i] < (scale * price[i]) * y
      BY <1>1
    <3>2. P * (s[N][2] * Cardinality(W)) < s[N][1] * y
      BY <1>1, <1>2, <1>9, <3>1, MeanIsAbove
    <3>3. P * y < P * y
      BY <1>3, <1>4, <1>6, <2>2, <3>2
    <3>4. P * y \in Int
      OBVIOUS
    <3> QED
      BY <3>3, <3>4
  <2>5. ~ \A i \in W : (scale * price[i]) * y < P * unit[i]
    <3> SUFFICES ASSUME \A i \in W : (scale * price[i]) * y < P * unit[i]
                 PROVE  FALSE
      OBVIOUS
    <3>1. PICK a \in Int : a = -P
      OBVIOUS
    <3>2. PICK b \in Int : b = -y
      OBVIOUS
    <3>3. \A i \in W : unit[i] > 0 /\ a * unit[i] < (scale * price[i]) * b
      <4> TAKE i \in W
      <4>1. PICK u \in Int : u = unit[i]
        BY <1>1
      <4>2. PICK p \in Int : p = scale * price[i]
        BY <1>1
      <4>3. p * y < P * u
        BY <4>1, <4>2
      <4>4. PICK l \in Int : l = p * y
        OBVIOUS
      <4>5. PICK r \in Int : r = P * u
        OBVIOUS
      <4>6. a * u = -r /\ p * b = -l
        BY <3>1, <3>2, <4>4, <4>5
      <4>7. -r < -l
        BY <4>3, <4>4, <4>5
      <4>8. a * u < p * b
        BY <4>6, <4>7
      <4> QED
        BY <1>1, <4>1, <4>2, <4>8
    <3>4. a * (s[N][2] * Cardinality(W)) < s[N][1] * b
      BY <1>1, <1>2, <1>9, <3>3, MeanIsAbove
    <3>5. a * y < P * b
      BY <1>3, <1>4, <1>6, <2>2, <3>4
    <3>6. a * y = P * b
      BY <3>1, <3>2
    <3>7. P * b \in Int
      OBVIOUS
    <3> QED
      BY <3>5, <3>6, <3>7
  <2>6. Within(<<P, y>>, Costs(scale, price, unit, S))
    BY <1>9, <2>4, <2>5, IsWithin DEF W
  <2>7. PerPost(scale, price, unit, S) = <<P, y>>
    BY <1>7, <2>2, <2>3 DEF Ratio
  <2> QED
    BY <2>6, <2>7
<1> QED
  BY <1>8, <1>9

-----------------------------------------------------------------------------
(* Groups of posts. *)

LEMMA ColumnsOfPosts ==
  ASSUME NEW rows \in Seq(Posts)
  PROVE  /\ Len(rows) \in Nat /\ DOMAIN rows = 1..Len(rows)
         /\ Prices(rows) \in [1..Len(rows) -> Int]
         /\ Views(rows) \in [1..Len(rows) -> Int]
         /\ Engagements(rows) \in [1..Len(rows) -> Int]
         /\ Active(rows) \subseteq 1..Len(rows)
<1>1. Len(rows) \in Nat /\ DOMAIN rows = 1..Len(rows) /\ \A i \in 1..Len(rows) : rows[i] \in Posts
  OBVIOUS
<1>2. \A p \in Posts : p.price \in Int /\ p.views \in Int /\ p.eng \in Int
  BY DEF Posts
<1> QED
  BY <1>1, <1>2 DEF Prices, Views, Engagements, Active

LEMMA CostsAreWithin ==
  ASSUME NEW rows \in Seq(Posts), NEW S, S \subseteq 1..Len(rows)
  PROVE  \A scale \in Int :
         /\ Within(Pooled(scale, Prices(rows), Views(rows), S),
                   Costs(scale, Prices(rows), Views(rows), S))
         /\ Within(PerPost(scale, Prices(rows), Views(rows), S),
                   Costs(scale, Prices(rows), Views(rows), S))
         /\ Within(Pooled(scale, Prices(rows), Engagements(rows), S),
                   Costs(scale, Prices(rows), Engagements(rows), S))
         /\ Within(PerPost(scale, Prices(rows), Engagements(rows), S),
                   Costs(scale, Prices(rows), Engagements(rows), S))
<1>1. PICK N \in Nat : N = Len(rows)
  BY ColumnsOfPosts
<1>2. PICK price \in [1..N -> Int] : price = Prices(rows)
  BY <1>1, ColumnsOfPosts
<1>3. PICK views \in [1..N -> Int] : views = Views(rows)
  BY <1>1, ColumnsOfPosts
<1>4. PICK eng \in [1..N -> Int] : eng = Engagements(rows)
  BY <1>1, ColumnsOfPosts
<1>5. S \subseteq 1..N
  BY <1>1
<1> TAKE scale \in Int
<1>6. /\ Within(Pooled(scale, price, views, S), Costs(scale, price, views, S))
      /\ Within(Pooled(scale, price, eng, S), Costs(scale, price, eng, S))
  BY <1>5, PooledIsWithin
<1>7. /\ Within(PerPost(scale, price, views, S), Costs(scale, price, views, S))
      /\ Within(PerPost(scale, price, eng, S), Costs(scale, price, eng, S))
  BY <1>5, PerPostIsWithin
<1> QED
  BY <1>2, <1>3, <1>4, <1>6, <1>7

LEMMA CpeIsWithin ==
  ASSUME NEW rows \in Seq(Posts), NEW S, S \subseteq 1..Len(rows), NEW m,
         m.cpePooled = Pooled(1, Prices(rows), Engagements(rows), S),
         m.cpePerPost = PerPost(1, Prices(rows), Engagements(rows), S)
  PROVE  CpeWithin(m, rows, S)
<1> DEFINE costs == Costs(1, Prices(rows), Engagements(rows), S)
<1>1. \A scale \in Int :
        /\ Within(Pooled(scale, Prices(rows), Engagements(rows), S), Costs(scale, Prices(rows), Engagements(rows), S))
        /\ Within(PerPost(scale, Prices(rows), Engagements(rows), S), Costs(scale, Prices(rows), Engagements(rows), S))
  BY CostsAreWithin
<1>2. Within(m.cpePooled, costs) /\ Within(m.cpePerPost, costs)
  BY <1>1
<1> HIDE DEF costs
<1>3. \A v \in {m.cpePooled, m.cpePerPost} : Within(v, costs)
  BY <1>2
<1> QED
  BY <1>3 DEF CpeWithin, costs

LEMMA CpmIsWithin ==
  ASSUME NEW rows \in Seq(Posts), NEW S, S \subseteq 1..Len(rows), NEW m,
         m.cpmPooled = Pooled(1000, Prices(rows), Views(rows), S),
         m.cpmPerPost = PerPost(1000, Prices(rows), Views(rows), S)
  PROVE  CpmWithin(m, rows, S)
<1> DEFINE costs == Costs(1000, Prices(rows), Views(rows), S)
<1>1. \A scale \in Int :
        /\ Within(Pooled(scale, Prices(rows), Views(rows), S), Costs(scale, Prices(rows), Views(rows), S))
        /\ Within(PerPost(scale, Prices(rows), Views(rows), S), Costs(scale, Prices(rows), Views(rows), S))
  BY ONLY rows \in Seq(Posts), S \subseteq 1..Len(rows), CostsAreWithin
<1>2. Within(m.cpmPooled, costs) /\ Within(m.cpmPerPost, costs)
  BY <1>1
<1> HIDE DEF costs
<1>3. \A v \in {m.cpmPooled, m.cpmPerPost} : Within(v, costs)
  BY <1>2
<1> QED
  BY <1>3 DEF CpmWithin, costs

LEMMA TierIs ==
  ASSUME NEW p \in Posts, NEW mode
  PROVE  Tier(p, mode) \in Tiers \cup {None}
<1>1. \A f : TierFromFanbase(f) \in Tiers
  BY DEF TierFromFanbase, Tiers
<1>2. \A l \in DOMAIN TierOfLevel : TierOfLevel[l] \in Tiers
  BY DEF TierOfLevel, Tiers
<1> QED
  BY <1>1, <1>2 DEF Tier

LEMMA GroupIs ==
  ASSUME NEW p \in Posts, NEW mode
  PROVE  /\ GroupOf(p, mode) \in (Tiers \X Coops) \cup {None}
         /\ \A t \in Tiers, c \in Coops :
              GroupOf(p, mode) = <<t, c>> <=> Tier(p, mode) = t /\ Coop(p) = c
         /\ GroupOf(p, mode) = None <=> Tier(p, mode) = None \/ Coop(p) = None
<1>1. Coop(p) \in Coops \cup {None}
  BY DEF Coop, Coops
<1>2. None \notin Tiers /\ None \notin Coops /\ None \notin Tiers \X Coops
  BY NoneAssumption DEF Tiers, Coops
<1>3. Tier(p, mode) \in Tiers \cup {None}
  BY TierIs
<1>4. CASE Tier(p, mode) = None \/ Coop(p) = None
  <2>1. GroupOf(p, mode) = None
    BY <1>4 DEF GroupOf
  <2>2. \A t \in Tiers, c \in Coops : <<t, c>> # None
    BY <1>2
  <2> QED
    BY <1>2, <1>4, <2>1, <2>2
<1>5. CASE ~(Tier(p, mode) = None \/ Coop(p) = None)
  <2>1. GroupOf(p, mode) = <<Tier(p, mode), Coop(p)>>
    BY <1>5 DEF GroupOf
  <2>2. <<Tier(p, mode), Coop(p)>> \in Tiers \X Coops
    BY <1>1, <1>3, <1>5
  <2> QED
    BY <1>2, <1>5, <2>1, <2>2
<1> QED
  BY <1>4, <1>5

Grouped(rows, mode, g) == {i \in Active(rows) : GroupOf(rows[i], mode) = g}
LEMMA MembersAre ==
  ASSUME NEW rows \in Seq(Posts), NEW mode, NEW g \in Tiers \X Coops
  PROVE  Members(rows, mode, g[1], g[2]) = Grouped(rows, mode, g)
<1>1. PICK t \in Tiers, c \in Coops : g = <<t, c>>
  OBVIOUS
<1>2. \A i \in Active(rows) : rows[i] \in Posts
  BY DEF Active
<1>3. \A i \in Active(rows) :
        GroupOf(rows[i], mode) = <<t, c>> <=> Tier(rows[i], mode) = t /\ Coop(rows[i]) = c
  BY <1>2, GroupIs
<1> QED
  BY <1>1, <1>3 DEF Members, Grouped

LEMMA FiguresOfGroup ==
  ASSUME NEW rows \in Seq(Posts), NEW mode, NEW g \in Tiers \X Coops,
         NEW S, S = {i \in DOMAIN rows : rows[i].complete /\ GroupOf(rows[i], mode) = g}
  PROVE  /\ CpmWithin(Metrics(rows, Members(rows, mode, g[1], g[2])), rows, S)
         /\ CpeWithin(Metrics(rows, Members(rows, mode, g[1], g[2])), rows, S)
<1>1. S = Members(rows, mode, g[1], g[2])
  <2>1. S = Grouped(rows, mode, g)
    BY DEF Grouped, Active
  <2> QED
    BY <2>1, MembersAre
<1>2. S \subseteq 1..Len(rows)
  OBVIOUS
<1>3. /\ Metrics(rows, S).cpePooled = Pooled(1, Prices(rows), Engagements(rows), S)
      /\ Metrics(rows, S).cpePerPost = PerPost(1, Prices(rows), Engagements(rows), S)
      /\ Metrics(rows, S).cpmPooled = Pooled(1000, Prices(rows), Views(rows), S)
      /\ Metrics(rows, S).cpmPerPost = PerPost(1000, Prices(rows), Views(rows), S)
  BY DEF Metrics
<1>4. CpeWithin(Metrics(rows, S), rows, S)
  BY <1>2, <1>3, CpeIsWithin
<1>5. CpmWithin(Metrics(rows, S), rows, S)
  BY <1>2, <1>3, CpmIsWithin
<1> QED
  BY <1>1, <1>4, <1>5

LEMMA AveragesHold ==
  ASSUME NEW x \in Analyses, task = [op |-> "analyze", in |-> x], result = Report(x)
  PROVE  AveragesLieBetween
<1> DEFINE rows == x.rows
           groups == Groups(rows, x.mode)
           agencies == Agencies(rows)
           Group(g)  == {i \in DOMAIN rows : rows[i].complete /\ GroupOf(rows[i], x.mode) = g}
           Agency(a) == {i \in DOMAIN rows : rows[i].complete /\ rows[i].mcn = a}
<1>1. rows \in Seq(Posts)
  <2>1. x \in [rows : Seq(Posts), mode : {"label", "fanbase"}]
    BY AnalysesAssumption
  <2> QED
    BY <2>1
<1>2. result.groups = groups /\ result.agencies = agencies
  BY DEF Report
<1>3. ASSUME NEW g \in DOMAIN groups
      PROVE  CpmWithin(groups[g], rows, Group(g)) /\ CpeWithin(groups[g], rows, Group(g))
  <2>1. /\ g \in Tiers \X Coops
        /\ groups[g] = Metrics(rows, Members(rows, x.mode, g[1], g[2]))
    BY DEF Groups
  <2> HIDE DEF groups
  <2> QED
    BY <1>1, <2>1, FiguresOfGroup
<1>4. ASSUME NEW a \in DOMAIN agencies
      PROVE  CpeWithin(agencies[a], rows, Agency(a))
  <2> DEFINE S == Clients(rows, a)
  <2>1. agencies[a] = AgencyFigures(rows, S)
    BY DEF Agencies
  <2>2. Agency(a) = S
    BY DEF Clients, Active
  <2>3. S \subseteq 1..Len(rows)
    BY <1>1, ColumnsOfPosts DEF Clients
  <2> HIDE DEF S, agencies, Agency, rows
  <2>4. /\ AgencyFigures(rows, S).cpePooled = Pooled(1, Prices(rows), Engagements(rows), S)
        /\ AgencyFigures(rows, S).cpePerPost = PerPost(1, Prices(rows), Engagements(rows), S)
    BY DEF AgencyFigures
  <2>5. CpeWithin(AgencyFigures(rows, S), rows, S)
    BY <1>1, <2>3, <2>4, CpeIsWithin
  <2> QED
    BY <2>1, <2>2, <2>5
<1> HIDE DEF groups, agencies
<1> QED
  BY <1>2, <1>3, <1>4 DEF AveragesLieBetween

-----------------------------------------------------------------------------
(* The two paths. *)

LEMMA SameAsItself ==
  ASSUME NEW r
  PROVE  SameRatio(r, r)
BY DEF SameRatio

LEMMA QuotientIsPooled ==
  ASSUME NEW N \in Nat, NEW price \in [1..N -> Int], NEW unit \in [1..N -> Int],
         NEW scale \in Int, NEW S, S \subseteq 1..N
  PROVE  Quotient(scale, price, unit, S) = Pooled(scale, price, unit, S)
<1> DEFINE W == With(unit, S)
<1>1. W \subseteq 1..N /\ \A i \in W : unit[i] > 0
  BY DEF With
<1> HIDE DEF W
<1>2. CASE W = {}
  <2>1. Total(unit, W) = 0
    BY <1>2, TotalOfNone
  <2> QED
    BY <1>2, <2>1 DEF Quotient, Pooled, Ratio, W
<1>3. CASE W # {}
  <2>1. Total(unit, W) # 0
    <3>1. Total(unit, W) \in Int /\ Total(unit, W) > 0
      BY <1>1, <1>3, TotalIsPositive
    <3> QED
      BY <3>1
  <2> QED
    BY <1>3, <2>1 DEF Quotient, Pooled, Ratio, W
<1> QED
  BY <1>2, <1>3

LEMMA MeanIsPerPost ==
  ASSUME NEW N \in Nat, NEW price \in [1..N -> Int], NEW unit \in [1..N -> Int],
         NEW scale \in Int, NEW S, S \subseteq 1..N
  PROVE  Mean(scale, price, unit, S) = PerPost(scale, price, unit, S)
<1>1. CASE With(unit, S) = {}
  <2>1. Within(PerPost(scale, price, unit, S), Costs(scale, price, unit, S))
    BY PerPostIsWithin
  <2>2. Costs(scale, price, unit, S) = {}
    BY <1>1 DEF Costs
  <2> QED
    BY <1>1, <2>1, <2>2 DEF Within, Mean
<1>2. CASE With(unit, S) # {}
  BY <1>2 DEF Mean
<1> QED
  BY <1>1, <1>2

(* Groups, seen from either side. *)
LEMMA GroupsAre ==
  ASSUME NEW rows \in Seq(Posts), NEW mode
  PROVE  /\ DOMAIN Groups(rows, mode) = DOMAIN FrameOfGroups(rows, mode)
         /\ DOMAIN Groups(rows, mode) = {g \in Tiers \X Coops : Members(rows, mode, g[1], g[2]) # {}}
<1> DEFINE D == {g \in Tiers \X Coops : Members(rows, mode, g[1], g[2]) # {}}
           E == {GroupOf(rows[i], mode) : i \in Active(rows)} \ {None}
<1>1. DOMAIN Groups(rows, mode) = D
  BY DEF Groups
<1>2. DOMAIN FrameOfGroups(rows, mode) = E
  BY DEF FrameOfGroups
<1>3. \A i \in Active(rows) : GroupOf(rows[i], mode) \in (Tiers \X Coops) \cup {None}
  <2> TAKE i \in Active(rows)
  <2>1. rows[i] \in Posts
    BY DEF Active
  <2> QED
    BY <2>1, GroupIs
<1>4. \A g \in Tiers \X Coops : Members(rows, mode, g[1], g[2]) # {}
                               <=> \E i \in Active(rows) : GroupOf(rows[i], mode) = g
  <2> TAKE g \in Tiers \X Coops
  <2>1. Members(rows, mode, g[1], g[2]) = Grouped(rows, mode, g)
    BY MembersAre
  <2> QED
    BY <2>1 DEF Grouped
<1>5. None \notin Tiers \X Coops
  BY NoneAssumption DEF Tiers, Coops
<1>6. \A g : g \in D <=> g \in E
  <2> TAKE g
  <2>1. g \in D <=> g \in Tiers \X Coops /\ \E i \in Active(rows) : GroupOf(rows[i], mode) = g
    BY <1>4
  <2>2. g \in E <=> g # None /\ \E i \in Active(rows) : GroupOf(rows[i], mode) = g
    OBVIOUS
  <2> HIDE DEF D, E
  <2> QED
    BY <1>3, <1>5, <2>1, <2>2
<1>7. D = E
  BY <1>6
<1> QED
  BY <1>1, <1>2, <1>7

LEMMA PathsCompute ==
  ASSUME NEW N \in Nat, NEW price \in [1..N -> Int], NEW unit \in [1..N -> Int],
         NEW S, S \subseteq 1..N
  PROVE  \A scale \in Int :
           /\ Quotient(scale, price, unit, S) = Pooled(scale, price, unit, S)
           /\ Mean(scale, price, unit, S) = PerPost(scale, price, unit, S)
<1> TAKE scale \in Int
<1>1. Quotient(scale, price, unit, S) = Pooled(scale, price, unit, S)
  BY QuotientIsPooled
<1>2. Mean(scale, price, unit, S) = PerPost(scale, price, unit, S)
  BY MeanIsPerPost
<1> QED
  BY <1>1, <1>2

LEMMA PathsComputeCosts ==
  ASSUME NEW rows \in Seq(Posts), NEW S, S \subseteq 1..Len(rows), NEW scale \in Int
  PROVE  /\ Quotient(scale, Prices(rows), Views(rows), S) = Pooled(scale, Prices(rows), Views(rows), S)
         /\ Mean(scale, Prices(rows), Views(rows), S) = PerPost(scale, Prices(rows), Views(rows), S)
         /\ Quotient(scale, Prices(rows), Engagements(rows), S)
              = Pooled(scale, Prices(rows), Engagements(rows), S)
         /\ Mean(scale, Prices(rows), Engagements(rows), S)
              = PerPost(scale, Prices(rows), Engagements(rows), S)
<1>1. PICK N \in Nat : N = Len(rows)
  BY ColumnsOfPosts
<1>2. PICK price \in [1..N -> Int] : price = Prices(rows)
  BY <1>1, ColumnsOfPosts
<1>3. PICK views \in [1..N -> Int] : views = Views(rows)
  BY <1>1, ColumnsOfPosts
<1>4. PICK eng \in [1..N -> Int] : eng = Engagements(rows)
  BY <1>1, ColumnsOfPosts
<1>5. S \subseteq 1..N
  BY <1>1
<1>6. /\ Quotient(scale, price, views, S) = Pooled(scale, price, views, S)
      /\ Mean(scale, price, views, S) = PerPost(scale, price, views, S)
  BY <1>5, PathsCompute
<1>7. /\ Quotient(scale, price, eng, S) = Pooled(scale, price, eng, S)
      /\ Mean(scale, price, eng, S) = PerPost(scale, price, eng, S)
  BY <1>5, PathsCompute
<1> QED
  BY <1>2, <1>3, <1>4, <1>6, <1>7

LEMMA PathsAgreeOnGroup ==
  ASSUME NEW rows \in Seq(Posts), NEW mode, NEW g \in DOMAIN FrameOfGroups(rows, mode)
  PROVE  SameOfGroup(Groups(rows, mode)[g], FrameOfGroups(rows, mode)[g])
<1> DEFINE S == {i \in Active(rows) : GroupOf(rows[i], mode) = g}
           price == Prices(rows)
           views == Views(rows)
           eng   == Engagements(rows)
<1>1. g \in Tiers \X Coops /\ Members(rows, mode, g[1], g[2]) # {}
  BY GroupsAre
<1>2. S = Members(rows, mode, g[1], g[2])
  <2>1. S = Grouped(rows, mode, g)
    BY DEF Grouped
  <2> HIDE DEF S
  <2> QED
    BY <1>1, <2>1, MembersAre
<1>3. S # {} /\ S \subseteq 1..Len(rows)
  <2>1. Active(rows) \subseteq 1..Len(rows)
    BY ColumnsOfPosts
  <2> QED
    BY <1>1, <1>2, <2>1
<1>4. Groups(rows, mode)[g] = Metrics(rows, S)
  BY <1>1, <1>2 DEF Groups
<1>5. FrameOfGroups(rows, mode)[g] =
        [n |-> Cardinality(S), avgPrice |-> <<Total(price, S), Cardinality(S)>>,
         cpmPooled  |-> Quotient(1000, price, views, S),
         cpePooled  |-> Quotient(1, price, eng, S),
         cpmPerPost |-> Mean(1000, price, views, S), cpePerPost |-> Mean(1, price, eng, S)]
  BY DEF FrameOfGroups
<1> HIDE DEF S
<1>6. Ratio(Total(price, S), Cardinality(S)) = <<Total(price, S), Cardinality(S)>>
  <2>1. Cardinality(S) # 0
    <3>1. IsFiniteSet(S)
      BY <1>3, ColumnsOfPosts, CountIs
    <3> QED
      BY <1>3, <3>1, FS_EmptySet
  <2> QED
    BY <2>1 DEF Ratio
<1>8. \A scale \in Int :
        /\ Quotient(scale, price, views, S) = Pooled(scale, price, views, S)
        /\ Mean(scale, price, views, S) = PerPost(scale, price, views, S)
        /\ Quotient(scale, price, eng, S) = Pooled(scale, price, eng, S)
        /\ Mean(scale, price, eng, S) = PerPost(scale, price, eng, S)
  BY <1>3, PathsComputeCosts
<1> HIDE DEF price, views, eng
<1>9. /\ Quotient(1000, price, views, S) = Pooled(1000, price, views, S)
      /\ Mean(1000, price, views, S) = PerPost(1000, price, views, S)
      /\ Quotient(1, price, eng, S) = Pooled(1, price, eng, S)
      /\ Mean(1, price, eng, S) = PerPost(1, price, eng, S)
  BY <1>8
<1>10. Metrics(rows, S) =
         [n |-> Cardinality(S), spend |-> Total(price, S),
          avgPrice   |-> Ratio(Total(price, S), Cardinality(S)),
          cpmPooled  |-> Pooled(1000, price, views, S), cpePooled  |-> Pooled(1, price, eng, S),
          cpmPerPost |-> PerPost(1000, price, views, S), cpePerPost |-> PerPost(1, price, eng, S)]
  BY DEF Metrics, price, views, eng
<1> QED
  BY <1>4, <1>5, <1>6, <1>9, <1>10, SameAsItself DEF SameOfGroup

LEMMA PathsAgreeOnAgency ==
  ASSUME NEW rows \in Seq(Posts), NEW a \in DOMAIN FrameOfAgencies(rows)
  PROVE  SameOfAgency(Agencies(rows)[a], FrameOfAgencies(rows)[a])
<1> DEFINE S == {i \in Active(rows) : rows[i].mcn = a}
           price == Prices(rows)
           eng   == Engagements(rows)
<1>1. Agencies(rows)[a] = AgencyFigures(rows, S)
  BY DEF Agencies, FrameOfAgencies, Clients
<1>2. FrameOfAgencies(rows)[a] =
        [n |-> Cardinality(S), spend |-> Total(price, S),
         cpePooled |-> Quotient(1, price, eng, S), cpePerPost |-> Mean(1, price, eng, S)]
  BY DEF FrameOfAgencies
<1>3. S \subseteq 1..Len(rows)
  <2>1. Active(rows) \subseteq 1..Len(rows)
    BY ColumnsOfPosts
  <2> QED
    BY <2>1
<1> HIDE DEF S, price, eng
<1>4. price \in [1..Len(rows) -> Int] /\ eng \in [1..Len(rows) -> Int] /\ Len(rows) \in Nat
  BY ColumnsOfPosts DEF price, eng
<1>5. Quotient(1, price, eng, S) = Pooled(1, price, eng, S)
  <2>1. \A scale \in Int : Quotient(scale, price, eng, S) = Pooled(scale, price, eng, S)
    BY <1>3, <1>4, QuotientIsPooled
  <2> QED
    BY <2>1
<1>6. Mean(1, price, eng, S) = PerPost(1, price, eng, S)
  <2>1. \A scale \in Int : Mean(scale, price, eng, S) = PerPost(scale, price, eng, S)
    BY <1>3, <1>4, MeanIsPerPost
  <2> QED
    BY <2>1
<1>7. AgencyFigures(rows, S) =
        [n |-> Cardinality(S), spend |-> Total(price, S),
         cpePooled  |-> Pooled(1, price, eng, S), cpePerPost |-> PerPost(1, price, eng, S)]
  BY DEF AgencyFigures, price, eng
<1> QED
  BY <1>1, <1>2, <1>5, <1>6, <1>7, SameAsItself DEF SameOfAgency

LEMMA PathsAgree ==
  ASSUME NEW rows \in Seq(Posts), NEW mode
  PROVE  DualPathAgrees(rows, mode)
<1>1. DOMAIN Agencies(rows) = DOMAIN FrameOfAgencies(rows)
  BY DEF Agencies, FrameOfAgencies
<1> QED
  BY <1>1, GroupsAre, PathsAgreeOnGroup, PathsAgreeOnAgency DEF DualPathAgrees

-----------------------------------------------------------------------------
(* The totals. *)

Slice(rows, mode, k) == Grouped(rows, mode, Slices[k])

LEMMA SlicesAre ==
  /\ DOMAIN Slices = 1..9 /\ Slices[9] = None
  /\ \A k \in 1..8 : Slices[k] \in Tiers \X Coops /\ Slices[k] # None
  /\ \A j, k \in 1..9 : Slices[j] = Slices[k] => j = k
  /\ \A g \in (Tiers \X Coops) \cup {None} : \E k \in 1..9 : Slices[k] = g
<1>1. None \notin Tiers \X Coops
  BY NoneAssumption DEF Tiers, Coops
<1>2. DOMAIN Slices = 1..9 /\ Slices[9] = None
  BY DEF Slices
<1>3. /\ Slices[1] = <<"TOP", "SOFT">> /\ Slices[2] = <<"TOP", "PAID">>
      /\ Slices[3] = <<"MID", "SOFT">> /\ Slices[4] = <<"MID", "PAID">>
      /\ Slices[5] = <<"BOT", "SOFT">> /\ Slices[6] = <<"BOT", "PAID">>
      /\ Slices[7] = <<"KOC", "SOFT">> /\ Slices[8] = <<"KOC", "PAID">>
  BY DEF Slices
<1>4. \A k \in 1..8 : Slices[k] \in Tiers \X Coops
  <2>1. \A k \in 1..8 : k \in {1, 2, 3, 4, 5, 6, 7, 8}
    OBVIOUS
  <2> QED
    BY <1>3, <2>1 DEF Tiers, Coops
<1>5. \A k \in 1..9 : k \in {1, 2, 3, 4, 5, 6, 7, 8, 9}
  OBVIOUS
<1>6. \A j, k \in 1..9 : Slices[j] = Slices[k] => j = k
  <2>1. \A j \in 1..8 : Slices[j] # Slices[9]
    BY <1>1, <1>2, <1>4
  <2>2. \A j, k \in 1..8 : Slices[j] = Slices[k] => j = k
    <3>1. \A k \in 1..8 : k \in {1, 2, 3, 4, 5, 6, 7, 8}
      OBVIOUS
    <3> QED
      BY <1>3, <3>1
  <2>3. \A k \in 1..9 : k = 9 \/ k \in 1..8
    OBVIOUS
  <2> QED
    BY <2>1, <2>2, <2>3
<1>7. \A g \in Tiers \X Coops : \E k \in 1..9 : Slices[k] = g
  BY <1>3 DEF Tiers, Coops
<1> QED
  BY <1>1, <1>2, <1>4, <1>6, <1>7

(* Each active row is in one slice. *)
Labels(label, rows, mode) ==
  /\ label \in [1..Len(rows) -> 0..9]
  /\ Active(rows) = {i \in 1..Len(rows) : label[i] # 0}
  /\ \A k \in 1..9 : Slice(rows, mode, k) = {i \in 1..Len(rows) : label[i] = k}
LEMMA RowsAreLabelled ==
  ASSUME NEW rows \in Seq(Posts), NEW mode
  PROVE  \E label : Labels(label, rows, mode)
<1> DEFINE N == Len(rows)
           of(i) == CHOOSE k \in 1..9 : Slices[k] = GroupOf(rows[i], mode)
           label == [i \in 1..N |-> IF i \in Active(rows) THEN of(i) ELSE 0]
<1>1. N \in Nat /\ Active(rows) \subseteq 1..N
  BY ColumnsOfPosts
<1>2. ASSUME NEW i \in Active(rows)
      PROVE  of(i) \in 1..9 /\ Slices[of(i)] = GroupOf(rows[i], mode)
  <2>1. rows[i] \in Posts
    BY DEF Active
  <2>2. GroupOf(rows[i], mode) \in (Tiers \X Coops) \cup {None}
    BY <2>1, GroupIs
  <2>3. \E k \in 1..9 : Slices[k] = GroupOf(rows[i], mode)
    BY <2>2, SlicesAre
  <2> QED
    BY <2>3
<1> HIDE DEF of, N
<1>3. \A i \in 1..N : label[i] \in 0..9 /\ (label[i] # 0 <=> i \in Active(rows))
  <2> TAKE i \in 1..N
  <2>1. CASE i \in Active(rows)
    <3>1. label[i] = of(i)
      BY <2>1
    <3> HIDE DEF label
    <3>2. of(i) \in 1..9
      BY <1>2, <2>1
    <3> QED
      BY <2>1, <3>1, <3>2
  <2>2. CASE i \notin Active(rows)
    BY <2>2
  <2> QED
    BY <2>1, <2>2
<1>4. \A i \in Active(rows) : label[i] = of(i)
  BY <1>1
<1>5. label \in [1..N -> 0..9]
  <2>1. label = [i \in 1..N |-> label[i]]
    OBVIOUS
  <2> HIDE DEF label
  <2> QED
    BY <1>3, <2>1
<1> HIDE DEF label
<1>6. Active(rows) = {i \in 1..N : label[i] # 0}
  BY <1>1, <1>3
<1>7. ASSUME NEW k \in 1..9
      PROVE  Slice(rows, mode, k) = {i \in 1..N : label[i] = k}
  <2>1. \A i \in Active(rows) : GroupOf(rows[i], mode) = Slices[k] <=> of(i) = k
    <3> TAKE i \in Active(rows)
    <3>1. PICK j \in 1..9 : j = of(i) /\ Slices[j] = GroupOf(rows[i], mode)
      BY <1>2
    <3>2. Slices[j] = Slices[k] <=> j = k
      BY SlicesAre
    <3> QED
      BY <3>1, <3>2
  <2>2. \A i \in 1..N : label[i] = k => i \in Active(rows)
    <3> k # 0
      OBVIOUS
    <3> QED
      BY <1>3
  <2>3. \A i : i \in Slice(rows, mode, k) <=> i \in Active(rows) /\ of(i) = k
    BY <2>1 DEF Slice, Grouped
  <2> QED
    BY <1>1, <1>4, <2>2, <2>3
<1> QED
  BY <1>5, <1>6, <1>7 DEF Labels, N

(* What is counted and spent in the slices. *)
LEMMA SlicesOfRows ==
  ASSUME NEW rows \in Seq(Posts), NEW mode, NEW k \in 1..9
  PROVE  /\ Slice(rows, mode, k) \subseteq 1..Len(rows)
         /\ Slices[k] = None => Unclassified(rows, mode) = Slice(rows, mode, k)
         /\ Slices[k] # None =>
              /\ Slices[k] \in DOMAIN Groups(rows, mode) <=> Slice(rows, mode, k) # {}
              /\ Slices[k] \in DOMAIN Groups(rows, mode) =>
                    /\ Groups(rows, mode)[Slices[k]].n = Cardinality(Slice(rows, mode, k))
                    /\ Groups(rows, mode)[Slices[k]].spend = Total(Prices(rows), Slice(rows, mode, k))
<1> DEFINE g == Slices[k]
           S == Slice(rows, mode, k)
<1>1. S \subseteq 1..Len(rows)
  <2>1. Active(rows) \subseteq 1..Len(rows)
    BY ColumnsOfPosts
  <2> QED
    BY <2>1 DEF Slice, Grouped
<1>2. g = None => Unclassified(rows, mode) = S
  BY DEF Slice, Grouped, Unclassified
<1>3. CASE g # None
  <2>1. g \in Tiers \X Coops
    <3>1. k \in 1..8
      BY <1>3, SlicesAre
    <3> QED
      BY <3>1, SlicesAre
  <2>2. Members(rows, mode, g[1], g[2]) = S
    BY <2>1, MembersAre DEF Slice
  <2> HIDE DEF g, S
  <2>3. DOMAIN Groups(rows, mode) = {h \in Tiers \X Coops : Members(rows, mode, h[1], h[2]) # {}}
    BY GroupsAre
  <2>4. g \in DOMAIN Groups(rows, mode) <=> S # {}
    BY <2>1, <2>2, <2>3
  <2>5. ASSUME g \in DOMAIN Groups(rows, mode)
        PROVE  /\ Groups(rows, mode)[g].n = Cardinality(S)
               /\ Groups(rows, mode)[g].spend = Total(Prices(rows), S)
    <3>1. Groups(rows, mode)[g] = Metrics(rows, Members(rows, mode, g[1], g[2]))
      BY <2>5 DEF Groups
    <3>2. Groups(rows, mode)[g] = Metrics(rows, S)
      BY <2>2, <3>1
    <3> QED
      BY <3>2 DEF Metrics
  <2> QED
    BY <1>1, <1>3, <2>4, <2>5 DEF g, S
<1> QED
  BY <1>1, <1>2, <1>3

LEMMA TotalsReconcile ==
  ASSUME NEW rows \in Seq(Posts), NEW mode, Active(rows) # {}
  PROVE  Reconciles(rows, mode)
<1> DEFINE N      == Len(rows)
           n      == Cardinality(Active(rows))
           groups == Groups(rows, mode)
           loose  == Unclassified(rows, mode)
           price  == Prices(rows)
           Drawn  == {k \in DOMAIN Slices :
                        IF Slices[k] = None THEN loose # {} ELSE Slices[k] \in DOMAIN groups}
           count  == [k \in DOMAIN Slices |->
                        IF Slices[k] = None THEN Cardinality(loose)
                        ELSE IF k \in Drawn THEN groups[Slices[k]].n ELSE 0]
           spend  == [k \in DOMAIN Slices |->
                        IF Slices[k] = None THEN Total(price, loose)
                        ELSE IF k \in Drawn THEN groups[Slices[k]].spend ELSE 0]
           up     == [k \in DOMAIN Slices |-> ShareUp(count[k], n)]
           down   == [k \in DOMAIN Slices |-> ShareDown(count[k], n)]
           S(k)   == Slice(rows, mode, k)
<1>1. N \in Nat /\ price \in [1..N -> Int] /\ Active(rows) \subseteq 1..N
  BY ColumnsOfPosts
<1>2. n \in Nat /\ n > 0
  <2>1. IsFiniteSet(Active(rows)) /\ n \in Nat
    BY <1>1, CountIs
  <2>2. n # 0
    BY <2>1, FS_EmptySet
  <2> HIDE DEF n
  <2> QED
    BY <2>1, <2>2
<1>3. DOMAIN Slices = 1..9
  BY SlicesAre
<1>4. ASSUME NEW k \in 1..9
      PROVE  /\ S(k) \subseteq 1..N
             /\ k \in Drawn <=> S(k) # {}
             /\ count[k] = Cardinality(S(k)) /\ spend[k] = Total(price, S(k))
  <2>1. S(k) \subseteq 1..N
    BY SlicesOfRows
  <2>2. CASE Slices[k] = None
    <3>1. loose = S(k)
      BY <2>2, SlicesOfRows
    <3> QED
      BY <1>3, <2>1, <2>2, <3>1
  <2>3. CASE Slices[k] # None
    <3>1. k \in Drawn <=> Slices[k] \in DOMAIN groups
      BY <1>3, <2>3
    <3>2. k \in Drawn <=> S(k) # {}
      BY <2>3, <3>1, SlicesOfRows
    <3>3. CASE k \in Drawn
      <4>1. groups[Slices[k]].n = Cardinality(S(k)) /\ groups[Slices[k]].spend = Total(price, S(k))
        BY <2>3, <3>1, <3>3, SlicesOfRows
      <4>2. count[k] = groups[Slices[k]].n /\ spend[k] = groups[Slices[k]].spend
        BY <1>3, <2>3, <3>3
      <4> QED
        BY <2>1, <3>2, <4>1, <4>2
    <3>4. CASE k \notin Drawn
      <4>1. count[k] = 0 /\ spend[k] = 0
        BY <1>3, <2>3, <3>4
      <4>2. S(k) = {}
        BY <3>2, <3>4
      <4>3. Cardinality(S(k)) = 0 /\ Total(price, S(k)) = 0
        BY <1>1, <4>2, FS_EmptySet, TotalOfNone
      <4> QED
        BY <2>1, <3>2, <4>1, <4>3
    <3> QED
      BY <3>3, <3>4
  <2> QED
    BY <2>2, <2>3
<1>5. Drawn \subseteq 1..9
  BY <1>3
<1>6. DOMAIN count = 1..9 /\ DOMAIN spend = 1..9 /\ DOMAIN up = 1..9 /\ DOMAIN down = 1..9
  BY <1>3
<1>7. /\ count = [k \in 1..9 |-> count[k]] /\ spend = [k \in 1..9 |-> spend[k]]
      /\ up = [k \in 1..9 |-> ShareUp(count[k], n)] /\ down = [k \in 1..9 |-> ShareDown(count[k], n)]
  BY <1>3
<1> HIDE DEF count, spend, up, down, Drawn, groups, loose, price, S, N, n
<1>8. \A k \in 1..9 : Cardinality(S(k)) \in Nat /\ Cardinality(S(k)) = Total(Ones(N), S(k))
  BY <1>1, <1>4, CountIs
<1>9. count \in [1..9 -> Int]
  BY <1>4, <1>7, <1>8
<1>10. spend \in [1..9 -> Int]
  <2>1. \A k \in 1..9 : Total(price, S(k)) \in Int
    BY <1>1, TotalIsInt
  <2> QED
    BY <1>4, <1>7, <2>1
<1>11. PICK label : Labels(label, rows, mode)
  BY RowsAreLabelled
<1>12. /\ label \in [1..N -> 0..9]
       /\ Active(rows) = {i \in 1..N : label[i] # 0}
       /\ \A k \in 1..9 : S(k) = {i \in 1..N : label[i] = k}
  BY <1>11 DEF Labels, S, N
<1>13. PICK K \in Nat : K = 9
  OBVIOUS
<1>14. Ones(N) \in [1..N -> Int]
  BY DEF Ones
<1>15. SumOf(count) = n
  <2>1. \A k \in 1..K : count[k] = Total(Ones(N), {i \in 1..N : label[i] = k})
    BY <1>4, <1>8, <1>12, <1>13
  <2>2. SumOf(count) = Total(Ones(N), Active(rows))
    <3>1. Sliced(count, K, Ones(N), N, label, Active(rows))
      BY <1>9, <1>12, <1>13, <2>1 DEF Sliced
    <3>2. K \in Nat /\ N \in Nat
      BY <1>1
    <3> QED
      BY <1>14, <3>1, <3>2, SlicesAddUp
  <2>3. n = Total(Ones(N), Active(rows))
    BY <1>1, CountIs DEF n
  <2> QED
    BY <2>2, <2>3
<1>16. SumOf(spend) = Total(price, Active(rows))
  <2>1. \A k \in 1..K : spend[k] = Total(price, {i \in 1..N : label[i] = k})
    BY <1>4, <1>12, <1>13
  <2>2. Sliced(spend, K, price, N, label, Active(rows))
    BY <1>10, <1>12, <1>13, <2>1 DEF Sliced
  <2> QED
    BY <1>1, <2>2, SlicesAddUp
<1>17. \A k \in 1..K : k \notin Drawn => count[k] = 0
  BY <1>4, <1>13, FS_EmptySet
<1>18. Tolerated(Total(up, Drawn), Cardinality(Drawn))
  <2>1. \A k \in 1..9 : Rounds(up[k], count[k], n)
    <3> TAKE k \in 1..9
    <3>1. PICK c \in Int : c = count[k]
      BY <1>9
    <3>2. Rounds(ShareUp(c, n), c, n)
      BY <1>2, UpIsClose
    <3>3. up[k] = ShareUp(c, n)
      BY <1>7, <3>1
    <3> QED
      BY <3>1, <3>2, <3>3
  <2>2. up \in [1..9 -> Int]
    <3>1. up = [k \in 1..9 |-> up[k]]
      BY <1>6, <1>7
    <3> QED
      BY <2>1, <3>1 DEF Rounds
  <2>4. AreShares(up, count, n, K, Drawn)
    BY <1>9, <1>13, <1>15, <1>17, <2>1, <2>2 DEF AreShares
  <2> QED
    BY <1>2, <1>5, <1>13, <2>4, SharesAddUp
<1>19. Tolerated(Total(down, Drawn), Cardinality(Drawn))
  <2>1. \A k \in 1..9 : Rounds(down[k], count[k], n)
    <3> TAKE k \in 1..9
    <3>1. PICK c \in Int : c = count[k]
      BY <1>9
    <3>2. Rounds(ShareDown(c, n), c, n)
      BY <1>2, DownIsClose
    <3>3. down[k] = ShareDown(c, n)
      BY <1>7, <3>1
    <3> QED
      BY <3>1, <3>2, <3>3
  <2>2. down \in [1..9 -> Int]
    <3>1. down = [k \in 1..9 |-> down[k]]
      BY <1>6, <1>7
    <3> QED
      BY <2>1, <3>1 DEF Rounds
  <2>4. AreShares(down, count, n, K, Drawn)
    BY <1>9, <1>13, <1>15, <1>17, <2>1, <2>2 DEF AreShares
  <2> QED
    BY <1>2, <1>5, <1>13, <2>4, SharesAddUp
<1> QED
  BY <1>15, <1>16, <1>18, <1>19
     DEF Reconciles, count, spend, up, down, Drawn, groups, loose, price, n

-----------------------------------------------------------------------------
(* The unit of the fan base. *)

LEMMA EitherUnitIsKnown ==
  ASSUME NEW f, EitherUnit(f)
  PROVE  f # None
BY DEF EitherUnit

LEMMA EitherUnitIs ==
  ASSUME NEW f \in Int, EitherUnit(f)
  PROVE  /\ f \div 1000 \in Int /\ f \div 1000 # None /\ f # None
         /\ Followers(f \div 1000) = Followers(f)
<1>1. f >= 10000 /\ f % 1000 = 0 /\ f \div 1000 < 10000
  BY DEF EitherUnit
<1>2. PICK k \in Int : k = f \div 1000
  OBVIOUS
<1>3. f = 1000 * k /\ k < 10000
  BY <1>1, <1>2
<1>4. Followers(f) = f
  BY <1>1 DEF Followers
<1>5. Followers(k) = 1000 * k
  BY <1>3 DEF Followers
<1>6. k # None /\ f # None
  BY NoneAssumption
<1> QED
  BY <1>2, <1>3, <1>4, <1>5, <1>6

LEMMA TiersAreAlike ==
  ASSUME NEW p \in Posts, NEW mode
  PROVE  /\ InThousands(p) \in Posts
         /\ InThousands(p).price = p.price /\ InThousands(p).views = p.views
         /\ InThousands(p).eng = p.eng /\ InThousands(p).complete = p.complete
         /\ InThousands(p).mcn = p.mcn
         /\ Tier(InThousands(p), mode) = Tier(p, mode) /\ Coop(InThousands(p)) = Coop(p)
<1>1. CASE EitherUnit(p.fan)
  <2>1. p.fan \in Int
    <3>1. p.fan \in Int \cup {None}
      BY DEF Posts
    <3>2. p.fan # None
      BY <1>1, EitherUnitIsKnown
    <3> QED
      BY <3>1, <3>2
  <2>2. PICK k \in Int : k = p.fan \div 1000
    BY <2>1
  <2>3. k # None /\ p.fan # None /\ Followers(k) = Followers(p.fan)
    BY <1>1, <2>1, <2>2, EitherUnitIs
  <2> DEFINE q == [p EXCEPT !.fan = k]
  <2>4. InThousands(p) = q
    BY <1>1, <2>2 DEF InThousands
  <2>5. /\ q \in Posts /\ q.price = p.price /\ q.views = p.views /\ q.eng = p.eng
        /\ q.complete = p.complete /\ q.mcn = p.mcn
        /\ q.type = p.type /\ q.level = p.level /\ q.fan = k
    BY DEF Posts
  <2> HIDE DEF q
  <2>6. Tier(q, mode) = Tier(p, mode)
    BY <2>3, <2>5 DEF Tier
  <2>7. Coop(q) = Coop(p)
    BY <2>5 DEF Coop
  <2> QED
    BY <2>4, <2>5, <2>6, <2>7
<1>2. CASE ~EitherUnit(p.fan)
  BY <1>2 DEF InThousands
<1> QED
  BY <1>1, <1>2

Rescaled(rows) == [i \in DOMAIN rows |-> InThousands(rows[i])]

LEMMA RowsAreAlike ==
  ASSUME NEW rows \in Seq(Posts), NEW mode
  PROVE  /\ Rescaled(rows) \in Seq(Posts)
         /\ Prices(Rescaled(rows)) = Prices(rows) /\ Views(Rescaled(rows)) = Views(rows)
         /\ Engagements(Rescaled(rows)) = Engagements(rows)
         /\ Active(Rescaled(rows)) = Active(rows)
         /\ \A i \in Active(rows) :
              /\ Rescaled(rows)[i].mcn = rows[i].mcn
              /\ Tier(Rescaled(rows)[i], mode) = Tier(rows[i], mode)
              /\ Coop(Rescaled(rows)[i]) = Coop(rows[i])
<1> DEFINE R == Rescaled(rows)
<1>1. DOMAIN R = DOMAIN rows /\ \A i \in DOMAIN rows : R[i] = InThousands(rows[i])
  BY DEF Rescaled
<1>2. Len(rows) \in Nat /\ DOMAIN rows = 1..Len(rows) /\ \A i \in DOMAIN rows : rows[i] \in Posts
  OBVIOUS
<1>3. \A i \in DOMAIN rows :
        /\ R[i] \in Posts /\ R[i].price = rows[i].price /\ R[i].views = rows[i].views
        /\ R[i].eng = rows[i].eng /\ R[i].complete = rows[i].complete /\ R[i].mcn = rows[i].mcn
        /\ Tier(R[i], mode) = Tier(rows[i], mode) /\ Coop(R[i]) = Coop(rows[i])
  <2> HIDE DEF R
  <2> QED
    BY <1>1, <1>2, TiersAreAlike
<1>4. R \in Seq(Posts)
  <2>1. R = [i \in 1..Len(rows) |-> R[i]]
    BY <1>2 DEF Rescaled
  <2> HIDE DEF R
  <2> QED
    BY <1>2, <1>3, <2>1
<1> HIDE DEF R
<1>5. Prices(R) = Prices(rows) /\ Views(R) = Views(rows) /\ Engagements(R) = Engagements(rows)
  BY <1>1, <1>3 DEF Prices, Views, Engagements
<1>6. Active(R) = Active(rows) /\ Active(rows) \subseteq DOMAIN rows
  BY <1>1, <1>3 DEF Active
<1> QED
  BY <1>3, <1>4, <1>5, <1>6 DEF R

LEMMA ReportsAreAlike ==
  ASSUME NEW rows \in Seq(Posts), NEW mode
  PROVE  /\ Groups(Rescaled(rows), mode) = Groups(rows, mode)
         /\ Agencies(Rescaled(rows)) = Agencies(rows)
         /\ Unclassified(Rescaled(rows), mode) = Unclassified(rows, mode)
<1> DEFINE R == Rescaled(rows)
<1>1. /\ Prices(R) = Prices(rows) /\ Views(R) = Views(rows) /\ Engagements(R) = Engagements(rows)
      /\ Active(R) = Active(rows)
      /\ \A i \in Active(rows) : /\ R[i].mcn = rows[i].mcn
                                 /\ Tier(R[i], mode) = Tier(rows[i], mode)
                                 /\ Coop(R[i]) = Coop(rows[i])
  BY RowsAreAlike
<1> HIDE DEF R
<1>2. \A t, c : Members(R, mode, t, c) = Members(rows, mode, t, c)
  BY <1>1 DEF Members
<1>3. \A S : Metrics(R, S) = Metrics(rows, S)
  BY <1>1 DEF Metrics
<1>4. Groups(R, mode) = Groups(rows, mode)
  BY <1>2, <1>3 DEF Groups
<1>5. \A a : Clients(R, a) = Clients(rows, a)
  BY <1>1 DEF Clients
<1>6. \A S : AgencyFigures(R, S) = AgencyFigures(rows, S)
  BY <1>1 DEF AgencyFigures
<1>7. Agencies(R) = Agencies(rows)
  <2>1. {R[i].mcn : i \in Active(R)} = {rows[i].mcn : i \in Active(rows)}
    BY <1>1
  <2> QED
    BY <1>5, <1>6, <2>1 DEF Agencies
<1>8. \A i \in Active(rows) : GroupOf(R[i], mode) = GroupOf(rows[i], mode)
  BY <1>1 DEF GroupOf
<1>9. Unclassified(R, mode) = Unclassified(rows, mode)
  BY <1>1, <1>8 DEF Unclassified
<1> QED
  BY <1>4, <1>7, <1>9 DEF R

(* A report is verified if it is about anything. *)
LEMMA VerifiedIs ==
  ASSUME NEW rows \in Seq(Posts), NEW mode
  PROVE  /\ Verified(rows, mode) \in BOOLEAN
         /\ Verified(rows, mode) <=> Active(rows) # {}
<1>1. CASE Active(rows) # {}
  BY <1>1, PathsAgree, TotalsReconcile DEF Verified
<1>2. CASE Active(rows) = {}
  <2>1. ~Tolerated(0, 0)
    BY DEF Tolerated
  <2>2. ~Reconciles(rows, mode)
    BY <1>2, <2>1 DEF Reconciles
  <2> QED
    BY <1>2, <2>2 DEF Verified
<1>3. Verified(rows, mode) \in BOOLEAN
  BY DEF Verified
<1> QED
  BY <1>1, <1>2, <1>3

LEMMA UnitHolds ==
  ASSUME NEW x \in Analyses, task = [op |-> "analyze", in |-> x], result = Report(x)
  PROVE  UnitDoesNotMatter
<1> DEFINE rows == x.rows
           y == [x EXCEPT !.rows = [i \in DOMAIN @ |-> InThousands(@[i])]]
<1>1. x \in [rows : Seq(Posts), mode : {"label", "fanbase"}]
  BY AnalysesAssumption
<1>2. y.rows = Rescaled(rows) /\ y.mode = x.mode
  BY <1>1 DEF Rescaled
<1>3. rows \in Seq(Posts)
  BY <1>1
<1> HIDE DEF rows, y
<1>4. Active(Rescaled(rows)) = Active(rows) /\ Rescaled(rows) \in Seq(Posts)
  BY <1>3, RowsAreAlike
<1>5. Verified(Rescaled(rows), x.mode) = Verified(rows, x.mode)
  BY <1>3, <1>4, VerifiedIs
<1>6. Report(y) = Report(x)
  BY <1>2, <1>3, <1>5, ReportsAreAlike DEF Report, rows
<1>7. y = [task.in EXCEPT !.rows = [i \in DOMAIN @ |-> InThousands(@[i])]]
  BY DEF y
<1> QED
  BY <1>6, <1>7 DEF UnitDoesNotMatter

-----------------------------------------------------------------------------
(* The efficiency report is what its function makes of a sheet. *)

AnalysisOutcome ==
  task.op = "analyze" =>
    \E x \in Analyses : /\ task = [op |-> "analyze", in |-> x]
                        /\ result \in {NoResult, Report(x)}

(* What Analyze leaves is a report about its input, and no other step       *)
(* touches it (analysis.py 693-797).                                        *)
THEOREM AnalysisOutcomeHolds == Spec => []AnalysisOutcome
<1>1. Init => AnalysisOutcome
  BY DEF Init, AnalysisOutcome
<1>2. AnalysisOutcome /\ [Next]_vars => AnalysisOutcome'
  <2> SUFFICES ASSUME AnalysisOutcome, [Next]_vars, task.op = "analyze"
               PROVE  AnalysisOutcome'
    BY DEF Next, vars, Analyze, Annotate, Propose, Approve, UploadAgain, ModelFails,
           ModelRambles, ModelAnswers, Converse, AnalysisOutcome
  <2>1. PICK x \in Analyses : /\ task = [op |-> "analyze", in |-> x]
                             /\ result \in {NoResult, Report(x)}
    BY DEF AnalysisOutcome
  <2>2. CASE Analyze
    <3>1. task' = task /\ result' = Report(x)
      BY <2>1, <2>2 DEF Analyze
    <3> QED
      BY <2>1, <3>1 DEF AnalysisOutcome
  <2>3. CASE UNCHANGED vars
    BY <2>1, <2>3 DEF vars, AnalysisOutcome
  <2> QED
    BY <2>2, <2>3 DEF Next, Annotate, Propose, Approve, ModelFails, ModelRambles,
                      ModelAnswers, Converse
<1> QED
  BY <1>1, <1>2, PTL DEF Spec

(* A report about at least one complete post passes its own cross-check:    *)
(* the two computations agree figure for figure, the slices add up to the   *)
(* totals, and the tolerance admits the rounding of every share, whatever   *)
(* the posts are (analysis.py 627-690).                                     *)
THEOREM ReportsAreNotWithheld == Spec => []VerificationPasses
<1>1. AnalysisOutcome => VerificationPasses
  <2> SUFFICES ASSUME AnalysisOutcome, Done("analyze"), Active(task.in.rows) # {}
               PROVE  result.verified
    BY DEF VerificationPasses
  <2>1. PICK x \in Analyses : task = [op |-> "analyze", in |-> x] /\ result = Report(x)
    BY DEF AnalysisOutcome, Done
  <2>2. x \in [rows : Seq(Posts), mode : {"label", "fanbase"}]
    BY AnalysesAssumption
  <2>3. Verified(x.rows, x.mode)
    BY <2>1, <2>2, VerifiedIs
  <2> QED
    BY <2>1, <2>3 DEF Report
<1> QED
  BY <1>1, AnalysisOutcomeHolds, PTL

(* No figure lies outside what the posts of its group cost, and a sheet     *)
(* that counts followers gives the report of one that counts thousands of   *)
(* them (analysis.py 104-110, 487-576).                                     *)
THEOREM FiguresTellOfPosts == Spec => []FiguresAreFaithful
<1>1. AnalysisOutcome => FiguresAreFaithful
  <2>1. CASE ~Done("analyze")
    BY <2>1 DEF FiguresAreFaithful, AveragesLieBetween, UnitDoesNotMatter
  <2>2. ASSUME AnalysisOutcome, Done("analyze")
        PROVE  FiguresAreFaithful
    <3>1. PICK x \in Analyses : task = [op |-> "analyze", in |-> x] /\ result = Report(x)
      BY <2>2 DEF AnalysisOutcome, Done
    <3> QED
      BY <3>1, AveragesHold, UnitHolds DEF FiguresAreFaithful
  <2> QED
    BY <2>1, <2>2
<1> QED
  BY <1>1, AnalysisOutcomeHolds, PTL

=============================================================================
