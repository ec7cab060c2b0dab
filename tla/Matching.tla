------------------------------ MODULE Matching ------------------------------
(***************************************************************************)
(* How a run decides its rows: run_pipeline, match_row and apply_perimeter *)
(* of app/reconciler/pipeline.py and app/reconciler/reverse_audit.py.      *)
(*                                                                         *)
(* Every row of the tracker (PLOG) has a name and a resolution of its post *)
(* link: a note and possibly its author, or a failure.  It is matched      *)
(* against the rows of the DMR export by note (tier 1) and by author (tier *)
(* 2); names only warn.  A row whose author is unknown borrows the author  *)
(* of the rows with the same name, if there is only one.  What is then     *)
(* missing from the DMR is split by membership in the perimeter lists, and *)
(* the DMR posts of known authors that no row matched are listed.          *)
(*                                                                         *)
(* A name is its normalised form; Ladder says how the blogger of a DMR row *)
(* matches the name of a PLOG row.  Candidate lists, notes and other       *)
(* evidence for the reader are left out.                                   *)
(***************************************************************************)
EXTENDS Naturals, Sequences, FiniteSets

CONSTANTS
  Names, Notes, Authors,  (* what rows and resolutions are made of         *)
  Ladder,                 (* name_ladder: name x blogger -> rung           *)
  None,                   (* a blank cell, an unknown author               *)
  NoList,                 (* a perimeter list that is not checked          *)
  Inputs                  (* the workbooks and resolutions to be matched   *)

(* The rungs of the name ladder: a CJK or normalised substring long enough  *)
(* to count against a verdict, a shorter one, a fuzzy hit, no hit.          *)
Rungs == {"strong", "short", "fuzzy", "none"}

PlogRow    == [name : Names \cup {None}]
DmrRow     == [post : Notes \cup {None}, user : Authors \cup {None}, name : Names,
               near : BOOLEAN]
Resolution == [ok : BOOLEAN, note : Notes \cup {None},
               author : Authors \cup {None}]
List       == SUBSET Authors \cup {NoList}

ASSUME MatchingAssumption ==
  /\ None \notin Names \cup Notes \cup Authors
  /\ Ladder \in [Names \X Names -> Rungs]
  /\ \A i \in Inputs :
       /\ i.plog \in Seq(PlogRow) /\ i.dmr \in Seq(DmrRow)
       /\ i.found \in [DOMAIN i.plog -> Resolution]
       /\ \A k \in DOMAIN i.plog : i.found[k].ok <=> i.found[k].note # None
       /\ i.micro \in List /\ i.macro \in List

VARIABLES
  input,     (* [plog, found, dmr, micro, macro]                           *)
  siblings,  (* sibling_authors                                            *)
  verdicts,  (* the verdicts so far                                        *)
  extra      (* the rows of the DMR reverse_audit lists                    *)

vars == <<input, siblings, verdicts, extra>>

Plog == input.plog
Dmr  == input.dmr

Statuses == {"MATCH", "NO_POST", "NO_BLOGGER", "LINK_ERROR", "REVIEW",
             "NO_POST_IN_PERIMETER", "NO_BLOGGER_NOT_IN_PERIMETER"}
Verdict  == [status : Statuses, author : Authors \cup {None},
             post : Notes \cup {None}, tier : {"id", "sibling", "error"}]

-----------------------------------------------------------------------------
(* The indexes of a DMR export; a row may have no post id and no author. *)

Posts(dmr) == {dmr[k].post : k \in DOMAIN dmr} \ {None}
Users(dmr) == {dmr[k].user : k \in DOMAIN dmr} \ {None}

(* by_post_id: the first row of a post. *)
RowOf(dmr, note) == CHOOSE k \in DOMAIN dmr :
  dmr[k].post = note /\ \A j \in 1..(k - 1) : dmr[j].post # note

(* Tier 1, the note join.  Seeded bug: it asks for the author as well. *)
JoinsWithAuthor(res, dmr) == res.ok /\ \E k \in DOMAIN dmr :
  dmr[k].post = res.note /\ res.author \in {None, dmr[k].user}

Joins(res, dmr) == res.ok /\ res.note \in Posts(dmr)

Rung(name, blogger) == IF name = None THEN "none" ELSE Ladder[name, blogger]
Hits(name, dmr)     == {k \in DOMAIN dmr : Rung(name, dmr[k].name) # "none"}
Strong(name, dmr)   == {k \in DOMAIN dmr : Rung(name, dmr[k].name) = "strong"}

-----------------------------------------------------------------------------
(* sibling_authors: the authors established for a name by a resolution or   *)
(* by the row its note joins.                                               *)

(* Seeded bug: a row its note joins tells nothing. *)
EstablishedByLink(in, k) ==
  IF in.found[k].ok THEN {in.found[k].author} \ {None} ELSE {}

(* Seeded bug: an unknown author is one more author. *)
EstablishedWithBlank(in, k) ==
  LET res == in.found[k] IN
  IF ~res.ok THEN {}
  ELSE {res.author} \cup IF Joins(res, in.dmr)
         THEN {in.dmr[RowOf(in.dmr, res.note)].user} ELSE {}

Established(in, k) ==
  LET res == in.found[k] IN
  IF ~res.ok THEN {}
  ELSE ({res.author} \cup IF Joins(res, in.dmr)
          THEN {in.dmr[RowOf(in.dmr, res.note)].user} ELSE {}) \ {None}

Siblings(in, name) ==
  IF name = None THEN {}
  ELSE UNION {Established(in, k) :
                k \in {j \in DOMAIN in.plog : in.plog[j].name = name}}

-----------------------------------------------------------------------------
(* match_row: note, own author, name and the siblings of the name. *)

(* Tier 2.  A strong name hit on somebody else, and none on the author,     *)
(* contradicts NO_POST; any strong hit contradicts NO_BLOGGER.              *)
Contradicted(name, author, dmr) ==
  IF author \in Users(dmr)
    THEN /\ \E k \in Strong(name, dmr) : dmr[k].user \notin {None, author}
         /\ \A k \in Hits(name, dmr) : dmr[k].user # author
    ELSE Strong(name, dmr) # {}

(* Seeded bug: the name decides where the author is unknown. *)
ByAuthorOrName(name, author, dmr) ==
  IF author = None
    THEN IF Strong(name, dmr) # {} THEN "NO_POST" ELSE "NO_BLOGGER"
  ELSE IF Users(dmr) = {} \/ Contradicted(name, author, dmr) THEN "REVIEW"
  ELSE IF author \in Users(dmr) THEN "NO_POST" ELSE "NO_BLOGGER"

(* Seeded bug: an export with no author column has no bloggers. *)
ByAuthorAlways(name, author, dmr) ==
  IF author = None \/ Contradicted(name, author, dmr) THEN "REVIEW"
  ELSE IF author \in Users(dmr) THEN "NO_POST" ELSE "NO_BLOGGER"

ByAuthor(name, author, dmr) ==
  IF author = None \/ Users(dmr) = {} \/ Contradicted(name, author, dmr)
    THEN "REVIEW"
  ELSE IF author \in Users(dmr) THEN "NO_POST" ELSE "NO_BLOGGER"

Judge(name, res, dmr, sibs) ==
  LET borrowed == res.author = None /\ Cardinality(sibs) = 1
      author   == IF borrowed THEN CHOOSE a \in sibs : TRUE ELSE res.author
  IN CASE ~res.ok ->
            [status |-> "LINK_ERROR", author |-> res.author, post |-> None,
             tier |-> "id"]
       [] Joins(res, dmr) ->
            [status |-> "MATCH", author |-> res.author, post |-> res.note,
             tier |-> "id"]
       [] OTHER ->
            [status |-> ByAuthor(name, author, dmr), author |-> author,
             post |-> None, tier |-> IF borrowed THEN "sibling" ELSE "id"]

(* Seeded bug: the Macro list is looked at only when Micro is not checked.  *)
ListedInPrimary(author, micro, macro) ==
  author \in (IF micro # NoList THEN micro ELSE macro)

(* apply_perimeter: only the author's id moves a verdict. *)
Listed(author, micro, macro) ==
  \E list \in {micro, macro} \ {NoList} : author \in list

Split(v, micro, macro) ==
  IF v.status # "NO_BLOGGER" \/ (micro = NoList /\ macro = NoList) THEN v
  ELSE [v EXCEPT !.status = IF Listed(v.author, micro, macro)
                            THEN "NO_POST_IN_PERIMETER"
                            ELSE "NO_BLOGGER_NOT_IN_PERIMETER"]

-----------------------------------------------------------------------------
Init ==
  /\ input \in Inputs
  /\ siblings = <<>> /\ verdicts = <<>> /\ extra = {}

(* The links are resolved: the siblings of every row's name are known. *)
CollectSiblings ==
  /\ siblings = <<>> /\ Plog # <<>>
  /\ siblings' = [k \in DOMAIN Plog |-> Siblings(input, Plog[k].name)]
  /\ UNCHANGED <<input, verdicts, extra>>

Current == Len(verdicts) + 1
Ready   == siblings # <<>> /\ Current <= Len(Plog)

MatchRow ==
  LET k == Current
      v == Judge(Plog[k].name, input.found[k], Dmr, siblings[k])
  IN /\ Ready
     /\ verdicts' = Append(verdicts, Split(v, input.micro, input.macro))
     /\ UNCHANGED <<input, siblings, extra>>

(* A row that raises becomes REVIEW with no evidence. *)
MatchRowFails ==
  /\ Ready
  /\ verdicts' = Append(verdicts, [status |-> "REVIEW", author |-> None,
                                   post |-> None, tier |-> "error"])
  /\ UNCHANGED <<input, siblings, extra>>

(* reverse_audit: posts of resolved authors, near the campaign's dates,     *)
(* that were not matched.                                                   *)
(* Seeded bug: the last row's post is forgotten. *)
MatchedButLast == {verdicts[k].post : k \in 1..(Len(verdicts) - 1)} \ {None}

Matched  == {verdicts[k].post : k \in DOMAIN verdicts} \ {None}
Resolved == {verdicts[k].author : k \in DOMAIN verdicts} \ {None}

Done == Plog # <<>> /\ Len(verdicts) = Len(Plog)

ReverseAudit ==
  /\ Done
  /\ extra' = {k \in DOMAIN Dmr : /\ Dmr[k].user \in Resolved
                                  /\ Dmr[k].post \notin Matched
                                  /\ Dmr[k].near}
  /\ UNCHANGED <<input, siblings, verdicts>>

Next == CollectSiblings \/ MatchRow \/ MatchRowFails \/ ReverseAudit

Spec == Init /\ [][Next]_vars

-----------------------------------------------------------------------------
TypeOK ==
  /\ input \in Inputs
  /\ siblings \in Seq(SUBSET Authors)
  /\ verdicts \in Seq(Verdict)
  /\ extra \subseteq DOMAIN Dmr

Judged == {k \in DOMAIN verdicts : verdicts[k].tier # "error"}
Absent == {"NO_BLOGGER", "NO_POST_IN_PERIMETER", "NO_BLOGGER_NOT_IN_PERIMETER"}

(* What all the rows of a name say of its author: their links, and the      *)
(* first row of the export with the post of such a link.                    *)
AuthorsOf(name) ==
  {a \in Authors : \E k \in DOMAIN Plog :
     /\ Plog[k].name = name /\ input.found[k].ok
     /\ \/ input.found[k].author = a
        \/ \E d \in DOMAIN Dmr :
             /\ Dmr[d].post = input.found[k].note /\ Dmr[d].user = a
             /\ \A e \in 1..(d - 1) : Dmr[e].post # Dmr[d].post}

(* A row matches exactly when its resolved note is in the export -- no name, *)
(* author or sibling makes or prevents a match.                             *)
MatchIsTheJoin ==
  \A k \in Judged : verdicts[k].status = "MATCH"
                      <=> input.found[k].note \in Posts(Dmr)

(* The rows have the authors that are known of them and the verdicts of the *)
(* join.                                                                    *)
VerdictsAreSound == TypeOK /\ MatchIsTheJoin

(* "The blogger is there but not the post" and "the blogger is not there"   *)
(* rest on an author id that is true of the row: its own, or the only one   *)
(* the rows of the same name have -- and never on an export without ids.    *)
(* Conversely a row whose author is unknown is left to a reviewer only if   *)
(* the rows of its name, those below it too, tell no author or several.     *)
AbsenceNeedsAnId ==
  \A k \in Judged :
    LET v == verdicts[k]  own == input.found[k].author IN
    /\ v.status \in Absent \cup {"NO_POST"} =>
         /\ Users(Dmr) # {}
         /\ v.author # None
         /\ (v.status = "NO_POST") <=> (v.author \in Users(Dmr))
         /\ IF own # None THEN v.author = own
            ELSE Plog[k].name # None /\ AuthorsOf(Plog[k].name) = {v.author}
    /\ v.status = "REVIEW" /\ v.author = None /\ Plog[k].name # None =>
         Cardinality(AuthorsOf(Plog[k].name)) # 1

(* Names never decide: had the bloggers of the export any other names, the  *)
(* verdict would be the same, or a review.                                  *)
Renamed(dmr, f) == [k \in DOMAIN dmr |-> [dmr[k] EXCEPT !.name = f[k]]]

NamesNeverDecide ==
  \A k \in Judged, f \in [DOMAIN Dmr -> Names] :
    LET v == Split(Judge(Plog[k].name, input.found[k], Renamed(Dmr, f),
                         Siblings(input, Plog[k].name)),
                   input.micro, input.macro)
    IN v.status = verdicts[k].status
       \/ "REVIEW" \in {v.status, verdicts[k].status}

(* Checking one more list moves absent bloggers into the perimeter, never   *)
(* out of it, and leaves every other verdict alone.                         *)
MoreListsMoreMembers ==
  \A k \in Judged, micro, macro \in List :
    (micro = input.micro \/ input.micro = NoList)
      /\ (macro = input.macro \/ input.macro = NoList)
    => LET v == Split(Judge(Plog[k].name, input.found[k], Dmr,
                            Siblings(input, Plog[k].name)), micro, macro)
       IN /\ verdicts[k].status = "NO_POST_IN_PERIMETER" => v = verdicts[k]
          /\ verdicts[k].status \notin Absent => v = verdicts[k]

(* What is said of an absence needs an id of the row, and more lists to     *)
(* look in never take a blogger out of the perimeter.                       *)
AbsenceIsEarned == AbsenceNeedsAnId /\ MoreListsMoreMembers

(* The reverse audit lists posts the tracker does not track: none of them   *)
(* is the post of a row that was judged, and each is by a row's author.     *)
ExtrasAreUntracked ==
  \A d \in extra :
    /\ \A k \in Judged : input.found[k].ok => input.found[k].note # Dmr[d].post
    /\ \E k \in Judged : verdicts[k].author = Dmr[d].user
=============================================================================
