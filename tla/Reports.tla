------------------------------- MODULE Reports ------------------------------
(***************************************************************************)
(* What the program makes of finished data, one task at a time: the        *)
(* efficiency report, the annotated workbook, the adjudication of doubtful *)
(* rows and the mapping of unfamiliar headers.  The first two and the last *)
(* are functions of their input; an adjudication is a dialogue with a      *)
(* model that may answer anything, and approved mappings are met again by  *)
(* a later upload.                                                         *)
(***************************************************************************)
EXTENDS Efficiency, Export, HeaderMap, Adjudication

CONSTANTS Analyses,    \* [rows, mode]
          Exports,     \* [sheet, verdicts, overrides]
          Proposals,   \* [answer, sheet, row]: of the model, about that header row
          Mappings,    \* [approvals, later]: a sequence of [kind, wb, m], m to
                       \* be approved for wb, and later uploads [kind, wb]
          Dialogues,   \* sequences of verdicts
          NoResult

(* The verdicts of a run are of rows below its header row, and every cell   *)
(* of the sheet is of one of its rows.                                      *)
ASSUME ExportsAssumption ==
  \A x \in Exports :
    /\ DOMAIN x.sheet \subseteq Rows \X Nat /\ IsFiniteSet(DOMAIN x.sheet)
    /\ DOMAIN x.verdicts \subseteq Rows \ {HeaderRow}
    /\ DOMAIN x.overrides = DOMAIN x.verdicts

(* The cells of a report are read as numbers and words; a request chooses   *)
(* one of two ways to find the tiers.                                       *)
ASSUME AnalysesAssumption ==
  \A x \in Analyses : x \in [rows : Seq(Posts), mode : {"label", "fanbase"}]

ASSUME MappingsAssumption ==
  /\ \A x \in Proposals :
       Len(x.answer) \in Nat /\ DOMAIN x.answer = 1..Len(x.answer)
  /\ \A x \in Mappings :
       /\ Len(x.approvals) \in Nat /\ DOMAIN x.approvals = 1..Len(x.approvals)
       /\ \A n \in DOMAIN x.approvals :
            LET a == x.approvals[n]
            IN  a.kind \in {"plog", "eff"} /\ IsWorkbook(a.wb) /\ IsMapping(a.wb, a.m)
       /\ \A u \in x.later : u.kind \in {"plog", "eff"} /\ IsWorkbook(u.wb)

ASSUME DialoguesAssumption ==
  \A verdicts \in Dialogues : verdicts \in Seq([status : STRING, candidates : BOOLEAN])

VARIABLES task,     \* [op, in]
          result

vars == <<task, result>>

Init ==
  /\ result = NoResult
  /\ \/ \E x \in Analyses  : task = [op |-> "analyze", in |-> x]
     \/ \E x \in Exports   : task = [op |-> "export", in |-> x]
     \/ \E x \in Proposals : task = [op |-> "propose", in |-> x]
     \/ \E x \in Mappings  : task = [op |-> "map", in |-> x]
     \/ \E x \in Dialogues : task = [op |-> "adjudicate", in |-> x]

Report(x) ==
  [groups   |-> Groups(x.rows, x.mode),
   agencies |-> Agencies(x.rows),
   loose    |-> Cardinality(Unclassified(x.rows, x.mode)),
   verified |-> Verified(x.rows, x.mode)]

(* analyze; a report whose cross-check fails is not shown. *)
Analyze ==
  /\ task.op = "analyze" /\ result = NoResult
  /\ result' = Report(task.in)
  /\ UNCHANGED task

Annotate ==
  /\ task.op = "export" /\ result = NoResult
  /\ result' = Annotated(task.in.sheet, task.in.verdicts, task.in.overrides)
  /\ UNCHANGED task

(* propose, column_choices and the form they fill. *)
Propose ==
  /\ task.op = "propose" /\ result = NoResult
  /\ result' = Preselected(Clamped(task.in.answer),
                           Offered(task.in.sheet, task.in.row))
  /\ UNCHANGED task

(* _apply_remap_run, _apply_remap_eff: the form is checked, the headers are *)
(* rewritten, the mapping is remembered -- before the copy is parsed.  The  *)
(* audits of several uploads may wait at once.                              *)
Made     == IF result = NoResult THEN 0 ELSE result.made
Approved == IF result = NoResult THEN <<>> ELSE result.approved
Approve ==
  /\ task.op = "map" /\ Made < Len(task.in.approvals)
  /\ result # NoResult => result.later = NoResult
  /\ LET a == task.in.approvals[Made + 1]
     IN  /\ Parse(a.kind, a.wb) = NoParse
         /\ Acceptable(a.kind, a.m.columns)
         /\ result' = [made     |-> Made + 1,
                       approved |-> Remember(Approved, a.kind, a.wb, a.m),
                       parse    |-> Parse(a.kind, Applied(a.wb, a.m)),
                       later    |-> NoResult]
  /\ UNCHANGED task

UploadAgain(u, trouble) ==
  /\ task.op = "map" /\ result # NoResult
  /\ result.later = NoResult
  /\ result' = [result EXCEPT !.later =
                  [kind |-> u.kind, wb |-> u.wb, trouble |-> trouble,
                   outcome |-> Upload(u.kind, result.approved, u.wb, trouble)]]
  /\ UNCHANGED task

(* adjudicate: one call to the model.  calls is history. *)
Begun == IF result # NoResult THEN result
         ELSE [dialogue |-> Fresh(task.in),
               calls |-> [k \in 1..NumberOfChunks(task.in) |-> 0]]

Converse(dialogue) ==
  /\ task.op = "adjudicate" /\ ~Over(task.in, Begun.dialogue)
  /\ result' = [dialogue |-> dialogue,
                calls |-> [Begun.calls EXCEPT ![Begun.dialogue.chunk] = @ + 1]]
  /\ UNCHANGED task

ModelFails   == Converse(CallRaises(task.in, Begun.dialogue))
ModelRambles == Converse(Malformed(task.in, Begun.dialogue))
ModelAnswers ==
  /\ task.op = "adjudicate"
  /\ \E S \in SUBSET DOMAIN task.in : \E items \in [S -> Answers] :
       Converse(Answered(task.in, Begun.dialogue, items))

Next ==
  \/ Analyze \/ Annotate \/ Propose \/ Approve
  \/ task.op = "map" /\ \E u \in task.in.later, t \in Troubles : UploadAgain(u, t)
  \/ ModelFails \/ ModelRambles \/ ModelAnswers

Spec == Init /\ [][Next]_vars

-----------------------------------------------------------------------------
Done(op) == task.op = op /\ result # NoResult

(* A report about at least one complete post is never withheld: the two     *)
(* computations group alike, groups and unclassified posts add up to the    *)
(* totals, and the tolerance admits every way the shares can round          *)
(* (analysis.py 627-690).                                                   *)
VerificationPasses ==
  Done("analyze") /\ Active(task.in.rows) # {} => result.verified

(* Neither the pooled nor the per-post figure of a group or an agency lies  *)
(* outside what its posts cost, and a group has both figures or neither:    *)
(* a post without views or engagement is in neither side of a ratio         *)
(* (analysis.py 489-576).                                                   *)
Costs(scale, price, unit, S) == {Ratio(scale * price[i], unit[i]) : i \in With(unit, S)}
Within(value, costs) ==
  IF costs = {} THEN value = None
  ELSE /\ value # None
       /\ \E c \in costs : AtMost(c, value)
       /\ \E c \in costs : AtMost(value, c)
CpeWithin(m, rows, S) ==
  \A v \in {m.cpePooled, m.cpePerPost} : Within(v, Costs(1, Prices(rows), Engagements(rows), S))
CpmWithin(m, rows, S) ==
  \A v \in {m.cpmPooled, m.cpmPerPost} : Within(v, Costs(1000, Prices(rows), Views(rows), S))
AveragesLieBetween ==
  Done("analyze") =>
    LET rows     == task.in.rows
        Group(g)  == {i \in DOMAIN rows : rows[i].complete /\ GroupOf(rows[i], task.in.mode) = g}
        Agency(a) == {i \in DOMAIN rows : rows[i].complete /\ rows[i].mcn = a}
    IN  /\ \A g \in DOMAIN result.groups :
             CpmWithin(result.groups[g], rows, Group(g)) /\ CpeWithin(result.groups[g], rows, Group(g))
        /\ \A a \in DOMAIN result.agencies : CpeWithin(result.agencies[a], rows, Agency(a))

(* A sheet that counts followers and one that counts thousands of them give *)
(* the same report, wherever both readings are possible (analysis.py        *)
(* 104-110, 185-188, 237-247).                                              *)
EitherUnit(f) == f # None /\ f >= 10000 /\ f % 1000 = 0 /\ f \div 1000 < 10000
InThousands(p) == IF EitherUnit(p.fan) THEN [p EXCEPT !.fan = @ \div 1000] ELSE p
UnitDoesNotMatter ==
  Done("analyze") =>
    result = Report([task.in EXCEPT !.rows = [i \in DOMAIN @ |-> InThousands(@[i])]])

(* Both: a figure tells of the posts and not of how the sheet is filled in. *)
FiguresAreFaithful == AveragesLieBetween /\ UnitDoesNotMatter

(* Every cell a person filled is as it was, except an S cell that an        *)
(* override replaces (export.py 63-67, 85-96, 113-122).                     *)
NothingOverwritten ==
  Done("export") =>
    \A rc \in DOMAIN task.in.sheet :
      task.in.sheet[rc] # Blank =>
        \/ result[rc] = task.in.sheet[rc]
        \/ rc[2] = S_COL /\ rc[1] \in DOMAIN task.in.overrides
           /\ task.in.overrides[rc[1]] # Blank

(* The export audits itself: one column, which holds nothing else, has a    *)
(* STATUS cell for every verdict row, from which can be read the pipeline's *)
(* verdict, and what stood in S before; where S says something else than    *)
(* the verdict, it says why.  S shows what a person chose, but for an S cell*)
(* that was filled: choosing a match does not blank it (export.py 85-141).  *)
ExportAuditsItself ==
  Done("export") =>
    \E c \in {rc[2] : rc \in DOMAIN result} :
      /\ result[<<HeaderRow, c>>] = "STATUS"
      /\ \A r \in Rows \ ({HeaderRow} \cup DOMAIN task.in.verdicts) :
           result[<<r, c>>] = Blank
      /\ \A r \in DOMAIN task.in.verdicts :
        LET status == result[<<r, c>>]
            before == At(task.in.sheet, r, S_COL)
        IN  /\ status.verdict = task.in.verdicts[r]
            /\ before # Blank => before \in {result[<<r, S_COL>>], status.replaced}
            /\ result[<<r, S_COL>>] # ColumnS(status.verdict)
                 => status.override \/ status.disagrees
            /\ LET chosen == task.in.overrides[r] IN
               chosen # Blank => \/ result[<<r, S_COL>>] = ColumnS(chosen)
                                 \/ chosen = "matched" /\ before # Blank

(* What is put before the auditor can be approved as it stands as soon as   *)
(* every required field has a column, and the auditor sees what is in it    *)
(* (mapper.py 205-242, remap_audit.html 33-41, remap/routes.py 64-87).      *)
ProposalCanBeApproved ==
  Done("propose") =>
    /\ \A kind \in {"plog", "eff"} :
         Required(kind) \subseteq DOMAIN result => Acceptable(kind, result)
    /\ \A k \in DOMAIN result :
         k \in Fields /\ result[k] \in Offered(task.in.sheet, task.in.row)

(* After an approval the unchanged parser binds every mapped field to the   *)
(* approved column of the approved row; only the efficiency analyzer, which *)
(* looks at one sheet, may refuse the workbook instead (mapper.py 247-266). *)
Honours(parse, m) ==
  /\ parse.sheet = m.sheet /\ parse.row = m.row
  /\ \A k \in DOMAIN m.columns : parse.columns[k] = m.columns[k]
MappingIsHonoured ==
  Done("map") =>
    LET a == task.in.approvals[result.made]
    IN  \/ Honours(result.parse, a.m)
        \/ a.kind = "eff" /\ result.parse = NoParse

(* Both: from the proposal to the parser, a field has the column it was     *)
(* given, and no other field has it.                                        *)
FieldsKeepTheirColumns == ProposalCanBeApproved /\ MappingIsHonoured

(* A later upload is put to a person exactly when no parser reads it, none  *)
(* of its rows looks like one that was approved for its kind of workbook -- *)
(* letter for letter, whatever else is in the file -- and nothing goes      *)
(* wrong; it asks nobody and is read as approved when one does, by an       *)
(* approval that no later one of that layout replaced.  An approved row     *)
(* without any text is not remembered (mapper.py 75-126, 270-295,           *)
(* service.py 46-71).                                                       *)
LooksAlike(wb, m, other) ==
  \E s \in DOMAIN wb \cap 1..MAX_SHEETS :
    /\ wb[s].name = m.sheet /\ m.row \in DOMAIN wb[s].rows
    /\ \A c \in 1..SAMPLE_COLS :
         wb[s].rows[m.row][c].text = SheetNamed(other, m.sheet).rows[m.row][c].text
    /\ \E c \in 1..SAMPLE_COLS : wb[s].rows[m.row][c].text # EmptyKey
Alike(approvals, made, kind, wb) ==
  {n \in 1..made : approvals[n].kind = kind /\ LooksAlike(wb, approvals[n].m, approvals[n].wb)}
Replaces(b, a) == b.m.sheet = a.m.sheet /\ b.m.row = a.m.row
ApprovalIsRemembered ==
  Done("map") /\ result.later # NoResult =>
    LET up      == result.later
        unknown == Parse(up.kind, up.wb) = NoParse
        as      == task.in.approvals
        alike   == Alike(as, result.made, up.kind, up.wb)
    IN  /\ up.outcome.how = "audit" <=>
             unknown /\ alike = {} /\ up.trouble \notin {"lookup", "proposal"}
        /\ up.outcome.how = "cached" <=>
             unknown /\ alike # {} /\ up.trouble \notin {"lookup", "apply"}
        /\ up.outcome.how = "cached" =>
             \E n \in alike :
               /\ \A k \in alike : k > n => ~Replaces(as[k], as[n])
               /\ \/ Honours(up.outcome.parse, as[n].m)
                  \/ up.kind = "eff" /\ up.outcome.parse = NoParse

(* Whatever the model says, only rows of the residue get an answer, each    *)
(* row one from its own chunk, and an answer or a failure but not both; a   *)
(* note that the model is unsure comes with that answer (adjudicator.py     *)
(* 127-181).                                                                *)
AnswersStayInTheirRows ==
  Done("adjudicate") =>
    \A r \in DOMAIN task.in :
      LET touched == \/ result.dialogue.answer[r] # NoAnswer
                     \/ result.dialogue.note[r] # "none"
      IN  /\ touched => task.in[r].status \in {"REVIEW", "LINK_ERROR"}
          /\ touched => \E k \in 1..(result.dialogue.chunk - 1) : r \in Chunk(task.in, k)
          /\ result.dialogue.answer[r] = NoAnswer \/ result.dialogue.note[r] \in {"none", "unsure"}
          /\ result.dialogue.note[r] = "unsure" => result.dialogue.answer[r] = "UNSURE"

(* A failed call costs one chunk its answers and no other chunk its turn,   *)
(* no chunk is asked more than twice, and the chunks are all of the residue *)
(* (adjudicator.py 124-134, 151-178).                                       *)
EveryChunkIsAsked ==
  Done("adjudicate") /\ Over(task.in, result.dialogue) =>
    /\ \A r \in Asked(task.in) : \E k \in DOMAIN result.calls : r \in Chunk(task.in, k)
    /\ \A k \in DOMAIN result.calls : result.calls[k] \in {1, 2}
    /\ \A r \in DOMAIN task.in :
         result.dialogue.note[r] = "malformed" =>
           \E k \in DOMAIN result.calls : r \in Chunk(task.in, k) /\ result.calls[k] = 2

(* Both: every chunk gets its turn and only its own answers.                *)
EveryChunkGetsItsAnswers == AnswersStayInTheirRows /\ EveryChunkIsAsked

=============================================================================
