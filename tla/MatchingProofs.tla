--------------------------- MODULE MatchingProofs ---------------------------
(***************************************************************************)
(* Proofs about Matching, for any workbooks, resolutions, perimeter lists  *)
(* and any ladder of names.  A run's verdicts are those of a function of   *)
(* its input, row by row; what is proved of that function then holds of    *)
(* every state, however many rows raise.                                   *)
(***************************************************************************)
EXTENDS Matching, FiniteSetTheorems, TLAPS

USE MatchingAssumption

-----------------------------------------------------------------------------
(* Sets of numbers and small sets. *)

(* Of the intervals that end in T, a smallest one ends in the least number. *)
LEMMA LeastExists ==
  ASSUME NEW T, T \subseteq Nat, T # {}
  PROVE  \E x \in T : \A y \in T : x <= y
<1> DEFINE Upto == {0..k : k \in T}
<1>1. Upto \subseteq FiniteSubsetsOf(Nat) /\ Upto # {}
  <2>1. ASSUME NEW k \in T PROVE 0..k \in SUBSET Nat /\ IsFiniteSet(0..k)
    BY FS_Interval
  <2>2. Upto # {}
    <3>1. PICK k \in T : TRUE
      OBVIOUS
    <3>2. 0..k \in Upto
      BY <3>1
    <3> QED
      BY <3>2
  <2> QED
    BY <2>1, <2>2 DEF FiniteSubsetsOf
<1>2. PICK U \in Upto : \A V \in Upto : <<V, U>> \notin StrictSubsetOrdering(Nat)
  <2> HIDE DEF Upto
  <2> QED
    BY <1>1, FS_StrictSubsetOrderingWellFounded, WFMin
<1>3. PICK x \in T : U = 0..x
  OBVIOUS
<1>4. ASSUME NEW y \in T PROVE x <= y
  <2>1. x \in Nat /\ y \in Nat /\ 0..y \in Upto
    OBVIOUS
  <2>2. ASSUME y < x PROVE FALSE
    <3>1. 0..y \subseteq 0..x /\ x \in 0..x /\ x \notin 0..y
      BY <2>1, <2>2
    <3>2. 0..y # 0..x
      BY <3>1
    <3>3. 0..y \in SUBSET Nat /\ 0..x \in SUBSET Nat
      BY <2>1
    <3>4. <<0..y, U>> \in StrictSubsetOrdering(Nat)
      BY <1>3, <3>1, <3>2, <3>3 DEF StrictSubsetOrdering
    <3> QED
      BY <1>2, <2>1, <3>4
  <2> QED
    BY <2>1, <2>2
<1> QED
  BY <1>4

LEMMA TheOnly ==
  ASSUME NEW S, IsFiniteSet(S), Cardinality(S) = 1
  PROVE  S = {CHOOSE a \in S : TRUE}
<1>1. PICK x : S = {x}
  BY FS_Singleton
<1> QED
  BY <1>1

-----------------------------------------------------------------------------
(* What a name's rows tell of its author. *)

(* The first row of a post is one of its rows, and there is no earlier.     *)
LEMMA FirstRow ==
  ASSUME NEW dmr \in Seq(DmrRow), NEW note \in Posts(dmr)
  PROVE  /\ RowOf(dmr, note) \in DOMAIN dmr
         /\ dmr[RowOf(dmr, note)].post = note
         /\ \A j \in 1..(RowOf(dmr, note) - 1) : dmr[j].post # note
<1> DEFINE T == {k \in DOMAIN dmr : dmr[k].post = note}
<1>1. DOMAIN dmr = 1..Len(dmr) /\ Len(dmr) \in Nat
  OBVIOUS
<1>2. T \subseteq Nat /\ T # {}
  BY <1>1 DEF Posts
<1>3. PICK k \in T : \A j \in T : k <= j
  BY <1>2, LeastExists
<1>4. k \in DOMAIN dmr /\ dmr[k].post = note /\ \A j \in 1..(k - 1) : dmr[j].post # note
  <2>1. ASSUME NEW j \in 1..(k - 1) PROVE dmr[j].post # note
    <3>1. j \in DOMAIN dmr /\ ~(k <= j)
      BY <1>1, <1>3
    <3> QED
      BY <1>3, <3>1
  <2> QED
    BY <1>3, <2>1
<1> QED
  BY <1>4 DEF RowOf

(* ... and the only such.                                                   *)
LEMMA FirstRowUnique ==
  ASSUME NEW dmr \in Seq(DmrRow), NEW k \in DOMAIN dmr, dmr[k].post # None,
         \A j \in 1..(k - 1) : dmr[j].post # dmr[k].post
  PROVE  k = RowOf(dmr, dmr[k].post)
<1> DEFINE r == RowOf(dmr, dmr[k].post)
<1>1. r \in DOMAIN dmr /\ dmr[r].post = dmr[k].post
      /\ \A j \in 1..(r - 1) : dmr[j].post # dmr[k].post
  BY FirstRow DEF Posts
<1>2. k \in 1..Len(dmr) /\ r \in 1..Len(dmr) /\ Len(dmr) \in Nat
  BY <1>1
<1>3. ~(r < k) /\ ~(k < r)
  BY <1>1, <1>2
<1> QED
  BY <1>2, <1>3

(* What a name's rows establish is what the definition of the property says. *)
LEMMA SiblingsAreKnown ==
  ASSUME input \in Inputs, NEW name \in Names
  PROVE  Siblings(input, name) = AuthorsOf(name)
<1>1. /\ Plog \in Seq(PlogRow) /\ Dmr \in Seq(DmrRow)
      /\ input.found \in [DOMAIN Plog -> Resolution]
      /\ \A k \in DOMAIN Plog : input.found[k].ok <=> input.found[k].note # None
  BY DEF Plog, Dmr
<1>2. name # None
  OBVIOUS
<1>3. ASSUME NEW a, NEW k \in DOMAIN Plog
      PROVE  a \in Established(input, k) <=>
               /\ a \in Authors /\ input.found[k].ok
               /\ \/ input.found[k].author = a
                  \/ \E d \in DOMAIN Dmr :
                       /\ Dmr[d].post = input.found[k].note /\ Dmr[d].user = a
                       /\ \A e \in 1..(d - 1) : Dmr[e].post # Dmr[d].post
  <2> DEFINE res == input.found[k]  r == RowOf(Dmr, res.note)
  <2>1. res \in Resolution /\ res.author \in Authors \cup {None} /\ None \notin Authors
    BY <1>1 DEF Resolution
  <2>2. CASE Joins(res, Dmr)
    <3>1. res.ok /\ res.note \in Posts(Dmr) /\ res.note # None
      BY <2>2 DEF Joins, Posts
    <3>2. /\ r \in DOMAIN Dmr /\ Dmr[r].post = res.note
          /\ \A e \in 1..(r - 1) : Dmr[e].post # Dmr[r].post
      BY <1>1, <3>1, FirstRow
    <3>3. Dmr[r].user \in Authors \cup {None}
      <4>1. ASSUME NEW d \in DOMAIN Dmr PROVE Dmr[d].user \in Authors \cup {None}
        <5>1. DOMAIN Dmr = 1..Len(Dmr) /\ Dmr[d] \in DmrRow
          BY <1>1
        <5> QED
          BY <5>1 DEF DmrRow
      <4> HIDE DEF r
      <4> QED
        BY <3>2, <4>1
    <3>4. ASSUME NEW d \in DOMAIN Dmr, Dmr[d].post = res.note,
                 \A e \in 1..(d - 1) : Dmr[e].post # Dmr[d].post
          PROVE  d = r
      BY <1>1, <3>1, <3>4, FirstRowUnique
    <3>5. Established(input, k) = {res.author, Dmr[r].user} \ {None}
      BY <2>2, <3>1 DEF Established, Dmr
    <3> QED
      BY <2>1, <3>1, <3>2, <3>3, <3>4, <3>5
  <2>3. CASE ~Joins(res, Dmr)
    <3>1. res.ok => \A d \in DOMAIN Dmr : Dmr[d].post # res.note
      BY <1>1, <2>3 DEF Joins, Posts
    <3>2. Established(input, k) = IF res.ok THEN {res.author} \ {None} ELSE {}
      BY <2>3 DEF Established, Dmr
    <3> QED
      BY <2>1, <3>1, <3>2
  <2> QED
    BY <2>2, <2>3
<1>4. ASSUME NEW a
      PROVE  a \in Siblings(input, name) <=>
               \E k \in DOMAIN Plog : Plog[k].name = name /\ a \in Established(input, k)
  BY <1>2 DEF Siblings, Plog
<1> QED
  BY <1>3, <1>4 DEF AuthorsOf

(* There are finitely many, all of them authors. *)
LEMMA SiblingsFinite ==
  ASSUME input \in Inputs, NEW name \in Names \cup {None}
  PROVE  IsFiniteSet(Siblings(input, name)) /\ Siblings(input, name) \subseteq Authors
<1>1. CASE name = None
  BY <1>1, FS_EmptySet DEF Siblings
<1>2. CASE name # None
  <2> DEFINE Rows == {j \in DOMAIN Plog : Plog[j].name = name}
             All  == {Established(input, k) : k \in Rows}
             f    == [k \in Rows |-> Established(input, k)]
  <2>1. Siblings(input, name) = UNION All
    BY <1>2 DEF Siblings, Plog
  <2>2. IsFiniteSet(Rows)
    <3>1. Plog \in Seq(PlogRow)
      BY DEF Plog
    <3>2. DOMAIN Plog = 1..Len(Plog) /\ 1 \in Int /\ Len(Plog) \in Int
      BY <3>1
    <3>3. IsFiniteSet(DOMAIN Plog)
      BY <3>2, FS_Interval
    <3> QED
      BY <3>3, FS_Subset
  <2>3. f \in Surjection(Rows, All)
    BY DEF Surjection
  <2>4. IsFiniteSet(All)
    <3> HIDE DEF f, All, Rows
    <3> QED
      BY <2>2, <2>3, FS_Surjection
  <2>5. ASSUME NEW k \in Rows PROVE IsFiniteSet(Established(input, k))
    <3> DEFINE a == input.found[k].author
               b == input.dmr[RowOf(input.dmr, input.found[k].note)].user
    <3>1. IsFiniteSet({a} \cup {b})
      BY FS_Singleton, FS_Union
    <3>2. Established(input, k) \subseteq {a} \cup {b}
      BY DEF Established
    <3> QED
      BY <3>1, <3>2, FS_Subset
  <2>6. \A T \in All : IsFiniteSet(T)
    BY <2>5
  <2>7. IsFiniteSet(UNION All)
    <3> HIDE DEF All
    <3> QED
      BY <2>4, <2>6, FS_UNION
  <2>8. Siblings(input, name) \subseteq Authors
    <3>1. CASE name \in Names
      BY <3>1, SiblingsAreKnown DEF AuthorsOf
    <3> QED
      BY <1>2, <3>1
  <2> QED
    BY <2>1, <2>7, <2>8
<1> QED
  BY <1>1, <1>2

-----------------------------------------------------------------------------
(* Rows, one by one. *)

(* What a row that does not raise is told where the lists are micro and     *)
(* macro, and the error of one that does.                                   *)
ToldOf(k, micro, macro) ==
  Split(Judge(Plog[k].name, input.found[k], Dmr, Siblings(input, Plog[k].name)), micro, macro)
Told(k)  == ToldOf(k, input.micro, input.macro)
RowError == [status |-> "REVIEW", author |-> None, post |-> None, tier |-> "error"]

(* The author it is judged by. *)
Lent(k)   == input.found[k].author = None
               /\ Cardinality(Siblings(input, Plog[k].name)) = 1
Author(k) == IF Lent(k) THEN CHOOSE a \in Siblings(input, Plog[k].name) : TRUE
                        ELSE input.found[k].author

LEMMA RowInput ==
  ASSUME input \in Inputs, NEW k \in DOMAIN Plog
  PROVE  /\ Plog[k].name \in Names \cup {None}
         /\ input.found[k] \in Resolution
         /\ input.found[k].author \in Authors \cup {None}
         /\ input.found[k].note \in Notes \cup {None}
         /\ input.found[k].ok <=> input.found[k].note # None
         /\ Dmr \in Seq(DmrRow)
         /\ input.micro \in List /\ input.macro \in List
<1>1. /\ Plog \in Seq(PlogRow) /\ Dmr \in Seq(DmrRow)
      /\ input.found \in [DOMAIN Plog -> Resolution]
      /\ input.found[k].ok <=> input.found[k].note # None
      /\ input.micro \in List /\ input.macro \in List
  BY DEF Plog, Dmr
<1>2. Plog[k] \in PlogRow /\ input.found[k] \in Resolution
  BY <1>1
<1> QED
  BY <1>1, <1>2 DEF PlogRow, Resolution

(* A lent author is the only one the rows of the name tell. *)
LEMMA AuthorKnown ==
  ASSUME input \in Inputs, NEW k \in DOMAIN Plog
  PROVE  /\ Author(k) \in Authors \cup {None}
         /\ Lent(k) => /\ Author(k) # None /\ Plog[k].name # None
                       /\ AuthorsOf(Plog[k].name) = {Author(k)}
         /\ ~Lent(k) => Author(k) = input.found[k].author
<1> DEFINE S == Siblings(input, Plog[k].name)
<1>1. /\ Plog[k].name \in Names \cup {None} /\ None \notin Authors
      /\ input.found[k].author \in Authors \cup {None}
  BY RowInput
<1>2. IsFiniteSet(S) /\ S \subseteq Authors
  BY <1>1, SiblingsFinite
<1>3. ASSUME Lent(k)
      PROVE  /\ Author(k) \in Authors
             /\ Plog[k].name # None /\ AuthorsOf(Plog[k].name) = {Author(k)}
  <2>1. S = {Author(k)}
    BY <1>2, <1>3, TheOnly DEF Lent, Author
  <2>2. Plog[k].name # None
    BY <2>1 DEF Siblings
  <2>3. S = AuthorsOf(Plog[k].name)
    BY <1>1, <2>2, SiblingsAreKnown
  <2> QED
    BY <1>2, <2>1, <2>2, <2>3
<1>4. ~Lent(k) => Author(k) = input.found[k].author
  BY DEF Author
<1> QED
  BY <1>1, <1>3, <1>4

(* The status of a row whose note is known and not in the export.           *)
Base(k) == ByAuthor(Plog[k].name, Author(k), Dmr)
Absence(k, micro, macro) ==
  IF Base(k) # "NO_BLOGGER" \/ (micro = NoList /\ macro = NoList) THEN Base(k)
  ELSE IF Listed(Author(k), micro, macro) THEN "NO_POST_IN_PERIMETER"
                                          ELSE "NO_BLOGGER_NOT_IN_PERIMETER"

LEMMA ToldIs ==
  ASSUME NEW k, NEW micro, NEW macro
  PROVE  LET res == input.found[k] IN
         ToldOf(k, micro, macro) =
           IF ~res.ok
             THEN [status |-> "LINK_ERROR", author |-> res.author, post |-> None, tier |-> "id"]
           ELSE IF Joins(res, Dmr)
             THEN [status |-> "MATCH", author |-> res.author, post |-> res.note, tier |-> "id"]
           ELSE [status |-> Absence(k, micro, macro), author |-> Author(k), post |-> None,
                 tier |-> IF Lent(k) THEN "sibling" ELSE "id"]
<1> DEFINE res == input.found[k]
           sibs == Siblings(input, Plog[k].name)
           v == Judge(Plog[k].name, res, Dmr, sibs)
<1>1. CASE ~res.ok
  <2>1. v = [status |-> "LINK_ERROR", author |-> res.author, post |-> None, tier |-> "id"]
    BY <1>1 DEF Judge, Joins
  <2>2. v.status # "NO_BLOGGER"
    BY <2>1
  <2> QED
    BY <1>1, <2>1, <2>2 DEF ToldOf, Split
<1>2. CASE res.ok /\ Joins(res, Dmr)
  <2>1. v = [status |-> "MATCH", author |-> res.author, post |-> res.note, tier |-> "id"]
    BY <1>2 DEF Judge
  <2>2. v.status # "NO_BLOGGER"
    BY <2>1
  <2> QED
    BY <1>2, <2>1, <2>2 DEF ToldOf, Split
<1>3. CASE res.ok /\ ~Joins(res, Dmr)
  <2>1. v = [status |-> Base(k), author |-> Author(k), post |-> None,
             tier |-> IF Lent(k) THEN "sibling" ELSE "id"]
    BY <1>3 DEF Judge, Base, Author, Lent
  <2>2. v.status = Base(k) /\ v.author = Author(k)
    BY <2>1
  <2>3. ToldOf(k, micro, macro) =
          IF Base(k) # "NO_BLOGGER" \/ (micro = NoList /\ macro = NoList) THEN v
          ELSE [v EXCEPT !.status = IF Listed(Author(k), micro, macro)
                                    THEN "NO_POST_IN_PERIMETER"
                                    ELSE "NO_BLOGGER_NOT_IN_PERIMETER"]
    BY <2>2 DEF ToldOf, Split
  <2> HIDE DEF v
  <2>4. ASSUME NEW t
        PROVE  [v EXCEPT !.status = t] =
                 [status |-> t, author |-> Author(k), post |-> None,
                  tier |-> IF Lent(k) THEN "sibling" ELSE "id"]
    BY <2>1
  <2> QED
    BY <1>3, <2>1, <2>3, <2>4 DEF Absence
<1> QED
  BY <1>1, <1>2, <1>3

(* With an id of the row and ids in the export, the join decides or names   *)
(* contradict it; without, the row is left to a reviewer.                   *)
LEMMA BaseIs ==
  ASSUME NEW k
  PROVE  /\ Base(k) \in {"REVIEW", "NO_POST", "NO_BLOGGER"}
         /\ Base(k) # "REVIEW" =>
              /\ Author(k) # None /\ Users(Dmr) # {}
              /\ Base(k) = "NO_POST" <=> Author(k) \in Users(Dmr)
         /\ Author(k) = None => Base(k) = "REVIEW"
BY DEF Base, ByAuthor

LEMMA AbsenceIs ==
  ASSUME NEW k, NEW micro, NEW macro
  PROVE  /\ Absence(k, micro, macro) \in Absent \cup {"REVIEW", "NO_POST"}
         /\ Absence(k, micro, macro) \in {"REVIEW", "NO_POST"}
              => Absence(k, micro, macro) = Base(k)
         /\ Absence(k, micro, macro) \in Absent => Base(k) = "NO_BLOGGER"
BY BaseIs DEF Absence, Absent

LEMMA ToldTyped ==
  ASSUME input \in Inputs, NEW k \in DOMAIN Plog
  PROVE  Told(k) \in Verdict /\ Told(k).tier # "error"
<1> DEFINE res == input.found[k]
<1>1. /\ res.author \in Authors \cup {None} /\ res.note \in Notes \cup {None}
      /\ Author(k) \in Authors \cup {None}
  BY RowInput, AuthorKnown
<1>2. Absence(k, input.micro, input.macro) \in Statuses
  BY AbsenceIs DEF Absent, Statuses
<1>3. /\ {"LINK_ERROR", "MATCH"} \subseteq Statuses
      /\ (IF Lent(k) THEN "sibling" ELSE "id") \in {"id", "sibling"}
  BY DEF Statuses
<1> QED
  BY <1>1, <1>2, <1>3, ToldIs DEF Told, Verdict

(* A row matches exactly when its note is in the export.                    *)
LEMMA ToldMatch ==
  ASSUME input \in Inputs, NEW k \in DOMAIN Plog
  PROVE  /\ Told(k).status = "MATCH" <=> input.found[k].note \in Posts(Dmr)
         /\ Told(k).status = "MATCH" => Told(k).post = input.found[k].note
<1> DEFINE res == input.found[k]
<1>1. /\ res.ok <=> res.note # None
      /\ Dmr \in Seq(DmrRow)
  BY RowInput
<1>2. Posts(Dmr) \subseteq Notes
  <2>1. ASSUME NEW d \in DOMAIN Dmr PROVE Dmr[d].post \in Notes \cup {None}
    <3>1. DOMAIN Dmr = 1..Len(Dmr) /\ Dmr[d] \in DmrRow
      BY <1>1
    <3> QED
      BY <3>1 DEF DmrRow
  <2> QED
    BY <2>1 DEF Posts
<1>3. res.note \in Posts(Dmr) <=> Joins(res, Dmr)
  BY <1>1, <1>2 DEF Joins
<1>4. Absence(k, input.micro, input.macro) # "MATCH"
  BY AbsenceIs DEF Absent
<1>5. CASE ~res.ok
  <2>1. Told(k).status = "LINK_ERROR"
    BY <1>5, ToldIs DEF Told
  <2> QED
    BY <1>3, <1>5, <2>1 DEF Joins
<1>6. CASE res.ok /\ Joins(res, Dmr)
  BY <1>3, <1>6, ToldIs DEF Told
<1>7. CASE res.ok /\ ~Joins(res, Dmr)
  <2>1. Told(k).status = Absence(k, input.micro, input.macro)
    BY <1>7, ToldIs DEF Told
  <2> QED
    BY <1>3, <1>4, <1>7, <2>1
<1> QED
  BY <1>5, <1>6, <1>7

(* A status that is not LINK_ERROR or MATCH is that of an absence.          *)
LEMMA ToldAbsence ==
  ASSUME NEW k, Told(k).status \in Absent \cup {"NO_POST", "REVIEW"}
  PROVE  /\ Told(k).author = Author(k)
         /\ Told(k).status = Absence(k, input.micro, input.macro)
         /\ input.found[k].ok /\ ~Joins(input.found[k], Dmr)
<1> DEFINE res == input.found[k]
<1>1. "LINK_ERROR" \notin Absent \cup {"NO_POST", "REVIEW"}
      /\ "MATCH" \notin Absent \cup {"NO_POST", "REVIEW"}
  BY DEF Absent
<1>2. CASE ~res.ok
  <2>1. Told(k).status = "LINK_ERROR"
    BY <1>2, ToldIs DEF Told
  <2> QED
    BY <1>1, <2>1
<1>3. CASE res.ok /\ Joins(res, Dmr)
  <2>1. Told(k).status = "MATCH"
    BY <1>3, ToldIs DEF Told
  <2> QED
    BY <1>1, <2>1
<1>4. CASE res.ok /\ ~Joins(res, Dmr)
  BY <1>4, ToldIs DEF Told
<1> QED
  BY <1>2, <1>3, <1>4

LEMMA ToldAbsenceEarned ==
  ASSUME input \in Inputs, NEW k \in DOMAIN Plog
  PROVE  /\ Told(k).status \in Absent \cup {"NO_POST"} =>
              /\ Users(Dmr) # {}
              /\ Told(k).author # None
              /\ Told(k).status = "NO_POST" <=> Told(k).author \in Users(Dmr)
              /\ IF input.found[k].author # None
                   THEN Told(k).author = input.found[k].author
                   ELSE /\ Plog[k].name # None
                        /\ AuthorsOf(Plog[k].name) = {Told(k).author}
         /\ Told(k).status = "REVIEW" /\ Told(k).author = None /\ Plog[k].name # None =>
              Cardinality(AuthorsOf(Plog[k].name)) # 1
<1>1. ASSUME Told(k).status \in Absent \cup {"NO_POST"}
      PROVE  /\ Users(Dmr) # {}
             /\ Told(k).author # None
             /\ Told(k).status = "NO_POST" <=> Told(k).author \in Users(Dmr)
             /\ IF input.found[k].author # None
                  THEN Told(k).author = input.found[k].author
                  ELSE /\ Plog[k].name # None
                       /\ AuthorsOf(Plog[k].name) = {Told(k).author}
  <2>1. /\ Told(k).author = Author(k)
        /\ Told(k).status = Absence(k, input.micro, input.macro)
    BY <1>1, ToldAbsence
  <2>2. /\ Base(k) # "REVIEW"
        /\ Told(k).status = "NO_POST" <=> Base(k) = "NO_POST"
    BY <1>1, <2>1, AbsenceIs DEF Absent
  <2>3. /\ Author(k) # None /\ Users(Dmr) # {}
        /\ Base(k) = "NO_POST" <=> Author(k) \in Users(Dmr)
    BY <2>2, BaseIs
  <2>4. CASE Lent(k)
    BY <2>1, <2>2, <2>3, <2>4, AuthorKnown DEF Lent
  <2>5. CASE ~Lent(k)
    BY <2>1, <2>2, <2>3, <2>5, AuthorKnown
  <2> QED
    BY <2>4, <2>5
<1>2. ASSUME Told(k).status = "REVIEW", Told(k).author = None, Plog[k].name # None
      PROVE  Cardinality(AuthorsOf(Plog[k].name)) # 1
  <2>1. Author(k) = None
    BY <1>2, ToldAbsence
  <2>2. ~Lent(k) /\ input.found[k].author = None
    BY <2>1, AuthorKnown
  <2>3. Siblings(input, Plog[k].name) = AuthorsOf(Plog[k].name)
    BY <1>2, RowInput, SiblingsAreKnown
  <2> QED
    BY <2>2, <2>3 DEF Lent
<1> QED
  BY <1>1, <1>2

(* One more list moves a row of a blogger who is absent, and only that.     *)
LEMMA ToldMoreLists ==
  ASSUME NEW k, NEW micro, NEW macro,
         micro = input.micro \/ input.micro = NoList,
         macro = input.macro \/ input.macro = NoList
  PROVE  /\ Told(k).status = "NO_POST_IN_PERIMETER" => ToldOf(k, micro, macro) = Told(k)
         /\ Told(k).status \notin Absent => ToldOf(k, micro, macro) = Told(k)
<1> DEFINE res == input.found[k]
<1>1. CASE ~res.ok \/ Joins(res, Dmr)
  BY <1>1, ToldIs DEF Told, Joins
<1>2. CASE res.ok /\ ~Joins(res, Dmr)
  <2>1. Told(k).status = Absence(k, input.micro, input.macro)
    BY <1>2, ToldIs DEF Told
  <2>2. ASSUME Absence(k, input.micro, input.macro) = Absence(k, micro, macro)
        PROVE  ToldOf(k, micro, macro) = Told(k)
    BY <1>2, <2>2, ToldIs DEF Told
  <2>3. CASE Told(k).status = "NO_POST_IN_PERIMETER"
    <3>1. /\ Base(k) = "NO_BLOGGER" /\ ~(input.micro = NoList /\ input.macro = NoList)
          /\ Listed(Author(k), input.micro, input.macro)
      BY <2>1, <2>3, BaseIs DEF Absence
    <3>2. Listed(Author(k), micro, macro) /\ ~(micro = NoList /\ macro = NoList)
      BY <3>1 DEF Listed
    <3> QED
      BY <2>2, <3>1, <3>2 DEF Absence
  <2>4. CASE Told(k).status \notin Absent
    <3>1. Base(k) # "NO_BLOGGER"
      BY <2>1, <2>4, BaseIs DEF Absence, Absent
    <3> QED
      BY <2>2, <3>1 DEF Absence
  <2> QED
    BY <2>3, <2>4
<1> QED
  BY <1>1, <1>2

-----------------------------------------------------------------------------
(* The invariant: the run goes through the rows in order, and tells each    *)
(* what it is told.                                                         *)

Progress ==
  /\ input \in Inputs
  /\ siblings \in {<<>>, [k \in DOMAIN Plog |-> Siblings(input, Plog[k].name)]}
  /\ verdicts \in Seq(Verdict)
  /\ Len(verdicts) <= Len(Plog)
  /\ \A k \in DOMAIN verdicts : verdicts[k] = RowError \/ verdicts[k] = Told(k)
  /\ extra # {} => Len(verdicts) = Len(Plog)
  /\ extra \subseteq {k \in DOMAIN Dmr : Dmr[k].user \in Resolved /\ Dmr[k].post \notin Matched}

LEMMA InitProgress == Init => Progress
<1> SUFFICES ASSUME Init PROVE Progress
  OBVIOUS
<1>1. Plog \in Seq(PlogRow)
  BY DEF Init, Plog
<1>2. Len(Plog) \in Nat /\ verdicts = <<>> /\ Len(verdicts) = 0 /\ verdicts \in Seq(Verdict)
      /\ DOMAIN verdicts = {}
  BY <1>1 DEF Init
<1> QED
  BY <1>2 DEF Init, Progress

LEMMA RowStep ==
  ASSUME Progress, Ready, UNCHANGED <<input, siblings, extra>>,
         NEW v \in {RowError, Told(Current)}, verdicts' = Append(verdicts, v)
  PROVE  Progress'
<1>1. Plog \in Seq(PlogRow) /\ Plog' = Plog /\ Dmr' = Dmr
  BY DEF Progress, Plog, Dmr
<1>2. /\ Len(Plog) \in Nat /\ Len(verdicts) \in Nat /\ DOMAIN verdicts = 1..Len(verdicts)
      /\ Current = Len(verdicts) + 1 /\ Current <= Len(Plog) /\ Current \in DOMAIN Plog
  BY <1>1 DEF Progress, Ready, Current
<1>3. v \in Verdict
  <2>1. RowError \in Verdict
    BY DEF RowError, Verdict, Statuses
  <2> QED
    BY <1>2, <2>1, ToldTyped DEF Progress
<1>4. /\ verdicts' \in Seq(Verdict) /\ Len(verdicts') = Current
      /\ DOMAIN verdicts' = 1..Current
      /\ verdicts'[Current] = v
      /\ \A k \in DOMAIN verdicts : verdicts'[k] = verdicts[k]
  BY <1>2, <1>3 DEF Progress
<1>5. \A k : Told(k)' = Told(k)
  BY DEF Told, ToldOf, Plog, Dmr, Siblings, Established
<1>6. \A k \in DOMAIN verdicts' : verdicts'[k] = RowError \/ verdicts'[k] = Told(k)
  <2>1. \A k \in DOMAIN verdicts' : k = Current \/ k \in DOMAIN verdicts
    BY <1>2, <1>4
  <2> QED
    BY <1>4, <2>1 DEF Progress
<1>7. extra = {}
  BY <1>2 DEF Progress
<1>8. siblings' \in {<<>>, [k \in DOMAIN Plog' |-> Siblings(input', Plog'[k].name)]}
  BY <1>1 DEF Progress
<1> QED
  BY <1>1, <1>2, <1>4, <1>5, <1>6, <1>7, <1>8 DEF Progress, RowError

(* What rows are told is a matter of the input alone. *)
LEMMA ToldStays ==
  ASSUME UNCHANGED input
  PROVE  /\ Plog' = Plog /\ Dmr' = Dmr
         /\ \A name : Siblings(input, name)' = Siblings(input, name)
         /\ \A k : Told(k)' = Told(k)
BY DEF Told, ToldOf, Plog, Dmr

LEMMA NextProgress == Progress /\ [Next]_vars => Progress'
<1> SUFFICES ASSUME Progress, [Next]_vars PROVE Progress'
  OBVIOUS
<1>1. CASE UNCHANGED vars
  <2>1. UNCHANGED <<input, siblings, verdicts, extra>>
    BY <1>1 DEF vars
  <2>2. Resolved' = Resolved /\ Matched' = Matched
    BY <2>1 DEF Resolved, Matched
  <2> QED
    BY <2>1, <2>2, ToldStays DEF Progress, RowError
<1>2. CASE CollectSiblings
  <2>1. UNCHANGED <<input, verdicts, extra>>
        /\ siblings' = [k \in DOMAIN Plog |-> Siblings(input, Plog[k].name)]
    BY <1>2 DEF CollectSiblings
  <2> QED
    BY <2>1 DEF Progress, Plog, Dmr, Told, ToldOf, RowError, Resolved, Matched
<1>3. CASE MatchRow
  <2>1. /\ Ready /\ UNCHANGED <<input, siblings, extra>> /\ Current \in DOMAIN Plog
        /\ siblings = [k \in DOMAIN Plog |-> Siblings(input, Plog[k].name)]
    <3>1. Plog \in Seq(PlogRow)
      BY DEF Progress, Plog
    <3> QED
      BY <1>3, <3>1 DEF MatchRow, Ready, Current, Progress
  <2>2. siblings[Current] = Siblings(input, Plog[Current].name)
    BY <2>1
  <2>3. verdicts' = Append(verdicts, Told(Current))
    BY <1>3, <2>2 DEF MatchRow, Told, ToldOf
  <2> QED
    BY <2>1, <2>3, RowStep
<1>4. CASE MatchRowFails
  BY <1>4, RowStep DEF MatchRowFails, RowError
<1>5. CASE ReverseAudit
  <2>1. UNCHANGED <<input, siblings, verdicts>> /\ Len(verdicts) = Len(Plog)
        /\ extra' \subseteq {k \in DOMAIN Dmr : Dmr[k].user \in Resolved
                                              /\ Dmr[k].post \notin Matched}
    BY <1>5 DEF ReverseAudit, Done
  <2> QED
    <3>1. Resolved' = Resolved /\ Matched' = Matched
      BY <2>1 DEF Resolved, Matched
    <3> QED
      BY <2>1, <3>1, ToldStays DEF Progress, RowError
<1> QED
  BY <1>1, <1>2, <1>3, <1>4, <1>5 DEF Next

LEMMA AlwaysProgress == Spec => []Progress
  BY InitProgress, NextProgress, PTL DEF Spec

(* A row that was judged is told what it is told. *)
LEMMA JudgedTold ==
  ASSUME Progress, NEW k \in Judged
  PROVE  k \in DOMAIN Plog /\ verdicts[k] = Told(k)
<1>1. Plog \in Seq(PlogRow) /\ k \in DOMAIN verdicts /\ verdicts[k].tier # "error"
  BY DEF Progress, Plog, Judged
<1>2. k \in DOMAIN Plog
  BY <1>1 DEF Progress
<1> QED
  BY <1>1, <1>2 DEF Progress, RowError

-----------------------------------------------------------------------------
(* For any workbooks: a row that was judged matches exactly when its note   *)
(* is in the export, whatever its name, its author and its siblings.        *)
THEOREM VerdictsAlwaysSound == Spec => []VerdictsAreSound
<1>1. Progress => VerdictsAreSound
  <2> SUFFICES ASSUME Progress PROVE VerdictsAreSound
    OBVIOUS
  <2>1. MatchIsTheJoin
    BY JudgedTold, ToldMatch DEF MatchIsTheJoin, Progress
  <2>2. siblings \in Seq(SUBSET Authors)
    <3>1. Plog \in Seq(PlogRow) /\ DOMAIN Plog = 1..Len(Plog) /\ Len(Plog) \in Nat
      BY DEF Progress, Plog
    <3>2. \A k \in DOMAIN Plog : Siblings(input, Plog[k].name) \in SUBSET Authors
      BY RowInput, SiblingsFinite DEF Progress
    <3> QED
      <4>1. [k \in DOMAIN Plog |-> Siblings(input, Plog[k].name)] \in Seq(SUBSET Authors)
        BY <3>1, <3>2
      <4>2. <<>> \in Seq(SUBSET Authors)
        OBVIOUS
      <4> QED
        BY <4>1, <4>2 DEF Progress
  <2> QED
    BY <2>1, <2>2 DEF Progress, VerdictsAreSound, TypeOK
<1> QED
  BY <1>1, AlwaysProgress, PTL

(* For any workbooks and lists: an absence rests on an id of the row, and   *)
(* more lists never take a blogger out of the perimeter.                    *)
THEOREM AbsenceAlwaysEarned == Spec => []AbsenceIsEarned
<1>1. Progress => AbsenceIsEarned
  <2> SUFFICES ASSUME Progress PROVE AbsenceIsEarned
    OBVIOUS
  <2>1. AbsenceNeedsAnId
    BY JudgedTold, ToldAbsenceEarned, ZenonT(30) DEF AbsenceNeedsAnId, Progress
  <2>2. MoreListsMoreMembers
    <3>1. ASSUME NEW k \in Judged, NEW micro \in List, NEW macro \in List,
                 micro = input.micro \/ input.micro = NoList,
                 macro = input.macro \/ input.macro = NoList
          PROVE  LET v == Split(Judge(Plog[k].name, input.found[k], Dmr,
                                      Siblings(input, Plog[k].name)), micro, macro)
                 IN /\ verdicts[k].status = "NO_POST_IN_PERIMETER" => v = verdicts[k]
                    /\ verdicts[k].status \notin Absent => v = verdicts[k]
      <4>1. verdicts[k] = Told(k)
        BY JudgedTold
      <4>2. /\ Told(k).status = "NO_POST_IN_PERIMETER" => ToldOf(k, micro, macro) = Told(k)
            /\ Told(k).status \notin Absent => ToldOf(k, micro, macro) = Told(k)
        BY <3>1, ToldMoreLists
      <4> QED
        BY <4>1, <4>2 DEF ToldOf
    <3> QED
      BY <3>1 DEF MoreListsMoreMembers
  <2> QED
    BY <2>1, <2>2 DEF AbsenceIsEarned
<1> QED
  BY <1>1, AlwaysProgress, PTL

(* For any workbooks: the posts that the reverse audit lists are tracked by *)
(* no row that was judged, and each is by the author of one.                *)
THEOREM ExtrasAlwaysUntracked == Spec => []ExtrasAreUntracked
<1>1. Progress => ExtrasAreUntracked
  <2> SUFFICES ASSUME Progress, NEW d \in extra
               PROVE  /\ \A k \in Judged : input.found[k].ok => input.found[k].note # Dmr[d].post
                      /\ \E k \in Judged : verdicts[k].author = Dmr[d].user
    BY DEF ExtrasAreUntracked
  <2>1. /\ d \in DOMAIN Dmr /\ Dmr[d].user \in Resolved /\ Dmr[d].post \notin Matched
    BY DEF Progress
  <2>2. ASSUME NEW k \in Judged, input.found[k].ok, input.found[k].note = Dmr[d].post
        PROVE  FALSE
    <3>1. k \in DOMAIN Plog /\ verdicts[k] = Told(k) /\ k \in DOMAIN verdicts
      BY JudgedTold DEF Judged
    <3>2. Dmr[d].post \in Posts(Dmr) /\ Dmr[d].post # None
      BY <2>1, <2>2, <3>1, RowInput DEF Progress, Posts
    <3>3. verdicts[k].post = Dmr[d].post
      BY <2>2, <3>1, <3>2, ToldMatch DEF Progress
    <3> QED
      BY <2>1, <3>1, <3>2, <3>3 DEF Matched
  <2>3. PICK k \in DOMAIN verdicts : verdicts[k].author = Dmr[d].user /\ Dmr[d].user # None
    BY <2>1 DEF Resolved
  <2>4. k \in Judged
    <3>1. verdicts[k] # RowError
      BY <2>3 DEF RowError
    <3>2. k \in DOMAIN Plog
      BY <2>3 DEF Progress, Plog
    <3>3. verdicts[k].tier # "error"
      BY <3>1, <3>2, ToldTyped DEF Progress
    <3> QED
      BY <2>3, <3>3 DEF Judged
  <2> QED
    BY <2>2, <2>3, <2>4
<1> QED
  BY <1>1, AlwaysProgress, PTL

-----------------------------------------------------------------------------
(* Other names.                                                             *)

LEMMA RenamedKeepsIds ==
  ASSUME NEW dmr \in Seq(DmrRow), NEW f
  PROVE  /\ Posts(Renamed(dmr, f)) = Posts(dmr)
         /\ Users(Renamed(dmr, f)) = Users(dmr)
<1> DEFINE other == Renamed(dmr, f)
<1>1. DOMAIN dmr = 1..Len(dmr) /\ \A k \in DOMAIN dmr : dmr[k] \in DmrRow
  OBVIOUS
<1>2. DOMAIN other = DOMAIN dmr
  BY DEF Renamed
<1>3. ASSUME NEW k \in DOMAIN dmr
      PROVE  other[k].post = dmr[k].post /\ other[k].user = dmr[k].user
  <2>1. other[k] = [dmr[k] EXCEPT !.name = f[k]]
    BY DEF Renamed
  <2>2. dmr[k] \in DmrRow
    BY <1>1
  <2> HIDE DEF other
  <2> QED
    BY <2>1, <2>2 DEF DmrRow
<1>4. Posts(other) = Posts(dmr) /\ Users(other) = Users(dmr)
  <2> HIDE DEF other
  <2> QED
    BY <1>2, <1>3, SMTT(60) DEF Posts, Users
<1> QED
  BY <1>4

(* The status a row is told of an export: where names do not contradict the *)
(* ids, it is a matter of the ids.                                          *)
ById(k) ==
  LET res == input.found[k]
      author == Author(k)
      found == IF author \in Users(Dmr) THEN "NO_POST" ELSE "NO_BLOGGER"
  IN IF ~res.ok THEN "LINK_ERROR"
     ELSE IF Joins(res, Dmr) THEN "MATCH"
     ELSE IF found = "NO_BLOGGER" /\ ~(input.micro = NoList /\ input.macro = NoList)
       THEN IF Listed(author, input.micro, input.macro)
            THEN "NO_POST_IN_PERIMETER" ELSE "NO_BLOGGER_NOT_IN_PERIMETER"
     ELSE found

LEMMA StatusById ==
  ASSUME NEW k, NEW dmr, Posts(dmr) = Posts(Dmr), Users(dmr) = Users(Dmr)
  PROVE  Split(Judge(Plog[k].name, input.found[k], dmr, Siblings(input, Plog[k].name)),
               input.micro, input.macro).status \in {"REVIEW", ById(k)}
<1> DEFINE res == input.found[k]
           v == Judge(Plog[k].name, res, dmr, Siblings(input, Plog[k].name))
           t == Split(v, input.micro, input.macro)
<1>1. Joins(res, dmr) = Joins(res, Dmr)
  BY DEF Joins
<1>2. CASE ~res.ok
  <2>1. v = [status |-> "LINK_ERROR", author |-> res.author, post |-> None, tier |-> "id"]
    BY <1>2 DEF Judge, Joins
  <2>2. v.status = "LINK_ERROR"
    BY <2>1
  <2> QED
    BY <1>2, <2>2 DEF Split, ById
<1>3. CASE res.ok /\ Joins(res, Dmr)
  <2>1. v = [status |-> "MATCH", author |-> res.author, post |-> res.note, tier |-> "id"]
    BY <1>1, <1>3 DEF Judge
  <2>2. v.status = "MATCH"
    BY <2>1
  <2> QED
    BY <1>3, <2>2 DEF Split, ById
<1>4. CASE res.ok /\ ~Joins(res, Dmr)
  <2> DEFINE b == ByAuthor(Plog[k].name, Author(k), dmr)
             found == IF Author(k) \in Users(Dmr) THEN "NO_POST" ELSE "NO_BLOGGER"
  <2>1. v = [status |-> b, author |-> Author(k), post |-> None,
             tier |-> IF Lent(k) THEN "sibling" ELSE "id"]
    BY <1>1, <1>4 DEF Judge, Author, Lent
  <2>2. b \in {"REVIEW", found}
    BY DEF ByAuthor
  <2>3. v.status = b /\ v.author = Author(k)
    BY <2>1
  <2>4. t.status = IF b # "NO_BLOGGER" \/ (input.micro = NoList /\ input.macro = NoList) THEN b
                   ELSE IF Listed(Author(k), input.micro, input.macro)
                        THEN "NO_POST_IN_PERIMETER" ELSE "NO_BLOGGER_NOT_IN_PERIMETER"
    <3> HIDE DEF b
    <3>1. \A s : [v EXCEPT !.status = s].status = s
      <4> HIDE DEF v
      <4> QED
        BY <2>1
    <3> HIDE DEF v
    <3> QED
      BY <2>3, <3>1 DEF Split
  <2> HIDE DEF b
  <2> QED
    BY <1>4, <2>2, <2>4 DEF ById
<1> QED
  BY <1>2, <1>3, <1>4

(* For any workbooks and any ladder: had the bloggers of the export other   *)
(* names, a row that was judged would have the same verdict, or a review.   *)
THEOREM NamesDecideNothing == Spec => []NamesNeverDecide
<1>1. Progress => NamesNeverDecide
  <2> SUFFICES ASSUME Progress, NEW k \in Judged, NEW f \in [DOMAIN Dmr -> Names]
               PROVE  LET v == Split(Judge(Plog[k].name, input.found[k], Renamed(Dmr, f),
                                           Siblings(input, Plog[k].name)),
                                     input.micro, input.macro)
                      IN v.status = verdicts[k].status
                         \/ "REVIEW" \in {v.status, verdicts[k].status}
    BY DEF NamesNeverDecide
  <2>1. Dmr \in Seq(DmrRow)
    BY DEF Progress, Dmr
  <2>2. verdicts[k].status \in {"REVIEW", ById(k)}
    BY JudgedTold, StatusById DEF Told, ToldOf
  <2> QED
    BY <2>1, <2>2, RenamedKeepsIds, StatusById
<1> QED
  BY <1>1, AlwaysProgress, PTL
=============================================================================
