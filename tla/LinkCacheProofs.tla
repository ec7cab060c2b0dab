--------------------------- MODULE LinkCacheProofs ---------------------------
(***************************************************************************)
(* Proofs about LinkCache, for any links, any number of resolver threads   *)
(* and any settings of the breakers.  The runs show that the cache keeps   *)
(* its promises when there is one thread and breaks them when two look up  *)
(* one link; what is proved is that this is the only way: threads that     *)
(* look up different links never disturb each other.                       *)
(***************************************************************************)
EXTENDS LinkCache, TLAPS

USE LinkCacheAssumption

(* No two lookups under way are of one link. *)
NoOverlap ==
  \A v, w \in Lookups :
    v # w => lookup[v].link # lookup[w].link \/ lookup[v].link = NoLink

-----------------------------------------------------------------------------
(* Types. *)

LEMMA InitTyped == Init => TypeOK
  BY DEF Init, TypeOK, Idle, NoRow, LookupState, CacheRow, Stages, Breakers

LEMMA BreakersTyped ==
  ASSUME TypeOK, NEW b \in Breakers, NEW ok \in BOOLEAN,
         Pass(b) \/ Skip(b) \/ Score(b, ok)
  PROVE  breaker' \in [Breakers -> [fails : 0..MaxFails, skipped : 0..(ReprobeEvery - 1)]]
<1> DEFINE B == [fails : 0..MaxFails, skipped : 0..(ReprobeEvery - 1)]
<1>1. breaker[b] \in B /\ breaker[b].fails \in 0..MaxFails
      /\ breaker[b].skipped \in 0..(ReprobeEvery - 1)
  BY DEF TypeOK
<1>2. CASE Pass(b)
  BY <1>1, <1>2 DEF Pass, TypeOK
<1>3. CASE Skip(b)
  <2>1. breaker[b].skipped + 1 \in 0..(ReprobeEvery - 1)
    BY <1>1, <1>3 DEF Skip, Tries
  <2> QED
    BY <1>1, <1>3, <2>1 DEF Skip, TypeOK
<1>4. CASE Score(b, ok)
  BY <1>1, <1>4 DEF Score, TypeOK
<1> QED
  BY <1>2, <1>3, <1>4

(* Every lookup under way has a link. *)
LinksNamed == \A w \in Lookups : lookup[w].at # "idle" => lookup[w].link \in Links

LEMMA StepTyped ==
  ASSUME TypeOK, LinksNamed, NEW w \in Lookups, Step(w)
  PROVE  TypeOK' /\ LinksNamed'
<1> DEFINE q == lookup[w]
<1>1. q \in LookupState /\ (q.at # "idle" => q.link \in Links)
  BY DEF TypeOK, LinksNamed
<1>2. Idle \in LookupState
  BY DEF Idle, NoRow, LookupState, CacheRow, Stages
<1>3. \A v \in Lookups \ {w} : lookup'[v] = lookup[v]
  BY DEF Step, ReadCache, Resolved, Return, Goto, TryDirect, SkipDirect, WalkEnds, PageEnds,
         AuthorAnswers, PayAnswers, StoreResolution, TryPage, SkipPage, CheckAuthor,
         MergeReads, MergeWrites, DatabaseFails, Backstop, TypeOK
<1>4. lookup' = [lookup EXCEPT ![w] = lookup'[w]]
  BY DEF Step, ReadCache, Resolved, Return, Goto, TryDirect, SkipDirect, WalkEnds, PageEnds,
         AuthorAnswers, PayAnswers, StoreResolution, TryPage, SkipPage, CheckAuthor,
         MergeReads, MergeWrites, DatabaseFails, Backstop, TypeOK
<1>5. q.at # "idle"
  BY DEF Step, ReadCache, TryDirect, SkipDirect, WalkEnds, PageEnds, AuthorAnswers,
         PayAnswers, StoreResolution, TryPage, SkipPage, CheckAuthor, MergeReads,
         MergeWrites, DatabaseFails, Backstop, At
<1>6. q.link \in Links /\ cache[q.link] \in CacheRow
  BY <1>1, <1>5 DEF TypeOK
<1>7. lookup'[w] \in LookupState /\ (lookup'[w].at # "idle" => lookup'[w].link \in Links)
  <2>1. ASSUME Resolved(w, q.author) \/ Resolved(w, cache[q.link].author)
        PROVE  lookup'[w] \in {Idle, [[q EXCEPT !.at = "page"] EXCEPT !.ok = TRUE]}
    BY <2>1 DEF Resolved, Return, TypeOK
  <2>2. ASSUME NEW s, Goto(w, s)
        PROVE  lookup'[w] = [q EXCEPT !.at = s]
    BY <2>2 DEF Goto, TypeOK
  <2>3. ASSUME Return(w)
        PROVE  lookup'[w] = Idle
    BY <2>3 DEF Return, TypeOK
  <2>4. ASSUME NEW s \in Stages
        PROVE  /\ [q EXCEPT !.at = s] \in LookupState
               /\ [q EXCEPT !.at = s].link = q.link
               /\ [[q EXCEPT !.at = s] EXCEPT !.ok = TRUE] \in LookupState
               /\ [[q EXCEPT !.at = s] EXCEPT !.ok = TRUE].link = q.link
    BY <1>1 DEF LookupState
  <2>5. Idle.at = "idle"
    BY DEF Idle
  <2>6. {"direct", "walk", "pay", "put", "page", "fetch", "check", "payAuthor", "merge"}
          \subseteq Stages
    BY DEF Stages
  <2>7. CASE ReadCache(w)
    <3>1. lookup'[w] \in {Idle, [[q EXCEPT !.at = "page"] EXCEPT !.ok = TRUE],
                          [[q EXCEPT !.at = "put"] EXCEPT !.ok = TRUE],
                          [q EXCEPT !.at = "direct"]}
      BY <2>1, <2>2, <2>3, <2>7 DEF ReadCache, TypeOK
    <3> QED
      BY <1>2, <1>6, <2>4, <2>5, <2>6, <3>1
  <2>8. CASE StoreResolution(w)
    <3>1. lookup'[w] \in {Idle, [[q EXCEPT !.at = "page"] EXCEPT !.ok = TRUE]}
      BY <2>1, <2>3, <2>8 DEF StoreResolution
    <3> QED
      BY <1>2, <1>6, <2>4, <2>5, <2>6, <3>1
  <2>9. CASE TryDirect(w) \/ SkipDirect(w) \/ TryPage(w) \/ SkipPage(w) \/ CheckAuthor(w)
    <3>1. \/ lookup'[w] = Idle
          \/ \E s \in Stages : lookup'[w] = [q EXCEPT !.at = s]
      BY <2>2, <2>3, <2>6, <2>9 DEF TryDirect, SkipDirect, TryPage, SkipPage, CheckAuthor
    <3> QED
      BY <1>2, <1>6, <2>4, <2>5, <3>1
  <2>10. ASSUME NEW found \in BOOLEAN, WalkEnds(w, found)
         PROVE  lookup'[w] \in LookupState /\ lookup'[w].link \in Links
    <3>1. lookup'[w] \in {[[q EXCEPT !.at = "put"] EXCEPT !.ok = TRUE], [q EXCEPT !.at = "pay"]}
      BY <2>2, <2>10 DEF WalkEnds, TypeOK
    <3> QED
      BY <1>6, <2>4, <2>6, <3>1
  <2>11. ASSUME NEW found \in BOOLEAN, PageEnds(w, found)
         PROVE  lookup'[w] \in LookupState /\ lookup'[w].link \in Links
    <3>1. lookup'[w] \in {[[q EXCEPT !.at = "merge"] EXCEPT !.author = TRUE],
                          [q EXCEPT !.at = "check"]}
      BY <2>2, <2>11 DEF PageEnds, TypeOK
    <3>2. /\ [[q EXCEPT !.at = "merge"] EXCEPT !.author = TRUE] \in LookupState
          /\ [[q EXCEPT !.at = "merge"] EXCEPT !.author = TRUE].link = q.link
      BY <1>1, <2>6 DEF LookupState
    <3> QED
      BY <1>6, <2>4, <2>6, <3>1, <3>2
  <2>12. ASSUME NEW found \in BOOLEAN, AuthorAnswers(w, found)
         PROVE  lookup'[w] \in LookupState /\ lookup'[w].link \in Links
    <3>1. lookup'[w] = [[[q EXCEPT !.at = "merge"] EXCEPT !.author = found]
                         EXCEPT !.failed = ~found]
      BY <2>12 DEF AuthorAnswers, TypeOK
    <3> QED
      BY <1>1, <1>6, <2>6, <3>1 DEF LookupState
  <2>13. ASSUME NEW ok \in BOOLEAN, NEW author \in BOOLEAN, PayAnswers(w, ok, author)
         PROVE  lookup'[w] \in LookupState /\ lookup'[w].link \in Links
    <3>1. lookup'[w] = [[[q EXCEPT !.at = "put"] EXCEPT !.ok = ok] EXCEPT !.author = author]
      BY <2>13 DEF PayAnswers, TypeOK
    <3> QED
      BY <1>1, <1>6, <2>6, <3>1 DEF LookupState
  <2>14. CASE MergeReads(w)
    <3>1. lookup'[w] = [[q EXCEPT !.at = "write"] EXCEPT !.row = cache[q.link]]
      BY <2>14 DEF MergeReads, TypeOK
    <3>2. "write" \in Stages
      BY DEF Stages
    <3> QED
      BY <1>1, <1>6, <3>1, <3>2 DEF LookupState
  <2>15. CASE MergeWrites(w) \/ Backstop(w)
    BY <1>2, <2>3, <2>5, <2>15 DEF MergeWrites, Backstop
  <2>16. CASE DatabaseFails(w)
    <3>1. lookup'[w] = [q EXCEPT !.at = "raised"] /\ "raised" \in Stages
      BY <2>2, <2>16 DEF DatabaseFails, Stages
    <3> QED
      BY <1>6, <2>4, <3>1
  <2> QED
    BY <2>7, <2>8, <2>9, <2>10, <2>11, <2>12, <2>13, <2>14, <2>15, <2>16 DEF Step
<1>8. cache' \in [Links -> CacheRow]
  <2>1. CASE StoreResolution(w)
    <3>1. [status |-> IF q.ok THEN "ok" ELSE "failed", author |-> q.author,
           fresh |-> TRUE, authorFailed |-> "no"] \in CacheRow
      BY <1>1 DEF CacheRow, LookupState
    <3> QED
      BY <1>6, <2>1, <3>1 DEF StoreResolution, Put, TypeOK
  <2>2. CASE MergeWrites(w)
    <3>1. q.row \in CacheRow
      BY <1>1 DEF LookupState
    <3>2. /\ [q.row EXCEPT !.authorFailed = "fresh"] \in CacheRow
          /\ [q.row EXCEPT !.author = TRUE, !.authorFailed = "no", !.fresh = TRUE] \in CacheRow
      BY <3>1 DEF CacheRow
    <3> QED
      BY <1>6, <2>2, <3>2 DEF MergeWrites, TypeOK
  <2>3. CASE UNCHANGED cache
    BY <2>3 DEF TypeOK
  <2> QED
    BY <2>1, <2>2, <2>3 DEF Step, ReadCache, TryDirect, SkipDirect, WalkEnds, PageEnds,
       AuthorAnswers, PayAnswers, TryPage, SkipPage, CheckAuthor, MergeReads, DatabaseFails, Backstop
<1>9. breaker' \in [Breakers -> [fails : 0..MaxFails, skipped : 0..(ReprobeEvery - 1)]]
  <2>1. "direct" \in Breakers /\ "page" \in Breakers /\ TRUE \in BOOLEAN
    BY DEF Breakers
  <2>2. CASE UNCHANGED breaker
    BY <2>2 DEF TypeOK
  <2>3. CASE Pass("direct") \/ Skip("direct") \/ Pass("page") \/ Skip("page")
    BY <2>1, <2>3, BreakersTyped
  <2>4. CASE \E ok \in BOOLEAN : Score("direct", ok) \/ Score("page", ok)
    BY <2>1, <2>4, BreakersTyped
  <2> QED
    BY <2>2, <2>3, <2>4 DEF Step, ReadCache, TryDirect, SkipDirect, WalkEnds, PageEnds,
       AuthorAnswers, PayAnswers, StoreResolution, TryPage, SkipPage, CheckAuthor,
       MergeReads, MergeWrites, DatabaseFails, Backstop
<1>10. TypeOK'
  BY <1>4, <1>7, <1>8, <1>9 DEF TypeOK
<1>11. LinksNamed'
  BY <1>3, <1>7 DEF LinksNamed
<1> QED
  BY <1>10, <1>11

LEMMA BeginTyped ==
  ASSUME TypeOK, LinksNamed, NEW w \in Lookups, NEW l \in Links,
         NEW retry \in BOOLEAN, NEW wanted \in BOOLEAN, Begin(w, l, retry, wanted)
  PROVE  TypeOK' /\ LinksNamed'
<1>1. [Idle EXCEPT !.at = "read", !.link = l, !.retry = retry, !.wanted = wanted]
        \in LookupState
  BY DEF Idle, NoRow, LookupState, CacheRow, Stages
<1> QED
  BY <1>1 DEF Begin, TypeOK, LinksNamed, Idle

LEMMA AgeTyped ==
  ASSUME TypeOK, LinksNamed, NEW l \in Links, Age(l)
  PROVE  TypeOK' /\ LinksNamed'
<1>1. cache[l] \in CacheRow
  BY DEF TypeOK
<1>2. /\ [cache[l] EXCEPT !.fresh = FALSE] \in CacheRow
      /\ [cache[l] EXCEPT !.authorFailed = "expired"] \in CacheRow
  BY <1>1 DEF CacheRow
<1> QED
  BY <1>2 DEF Age, TypeOK, LinksNamed

LEMMA NextTyped ==
  ASSUME TypeOK, LinksNamed, [Next]_vars
  PROVE  TypeOK' /\ LinksNamed'
<1>1. CASE UNCHANGED vars
  BY <1>1 DEF vars, TypeOK, LinksNamed
<1>2. CASE Next
  BY <1>2, StepTyped, BeginTyped, AgeTyped DEF Next
<1> QED
  BY <1>1, <1>2

(* Whatever lookups overlap, every variable keeps its type; in particular   *)
(* a tripped breaker never skips ReprobeEvery attempts in a row.            *)
THEOREM AlwaysTyped == Spec => []TypeOK
<1>1. Init => TypeOK /\ LinksNamed
  BY InitTyped DEF Init, LinksNamed, Idle
<1>2. TypeOK /\ LinksNamed /\ [Next]_vars => (TypeOK /\ LinksNamed)'
  BY NextTyped
<1> QED
  BY <1>1, <1>2, PTL DEF Spec

-----------------------------------------------------------------------------
(* Lookups that have their links to themselves. *)

Looking   == {"direct", "walk", "pay", "put"}
Enriching == {"page", "fetch", "check", "payAuthor", "merge", "write"}

(* What lookup w has read of its link is still so. *)
Knows(w) ==
  LET q == lookup[w]  row == cache[lookup[w].link] IN
  /\ q.at \in Looking =>
       row.status = "none" \/ (row.status = "failed" /\ (q.retry \/ ~row.fresh))
  /\ q.at = "put" => (q.author => q.ok)
  /\ q.at \in {"read", "direct", "walk", "pay"} => ~q.author
  /\ q.at \in Enriching => row.status = "ok" /\ ~row.author
  /\ q.at = "payAuthor" => q.retry \/ row.authorFailed # "fresh"
  /\ q.at = "write" => q.row.status = "ok"
  /\ q.at = "write" => (q.failed => ~q.row.author)

(* An author is only known of a note that is. *)
AuthorsOfNotes == \A l \in Links : cache[l].author => cache[l].status = "ok"

AloneInv == TypeOK /\ LinksNamed /\ AuthorsOfNotes /\ \A w \in Lookups : Knows(w)

(* A step of one lookup writes no row but its own. *)
LEMMA OthersUndisturbed ==
  ASSUME TypeOK, LinksNamed, NoOverlap, NEW w \in Lookups, Step(w),
         NEW v \in Lookups \ {w}, Knows(v)
  PROVE  Knows(v)'
<1>1. lookup'[v] = lookup[v]
  BY DEF Step, ReadCache, Resolved, Return, Goto, TryDirect, SkipDirect, WalkEnds, PageEnds,
         AuthorAnswers, PayAnswers, StoreResolution, TryPage, SkipPage, CheckAuthor,
         MergeReads, MergeWrites, DatabaseFails, Backstop, TypeOK
<1>2. cache' = [cache EXCEPT ![lookup[w].link] = cache'[lookup[w].link]]
  BY DEF Step, ReadCache, TryDirect, SkipDirect, WalkEnds, PageEnds, AuthorAnswers,
         PayAnswers, StoreResolution, Put, TryPage, SkipPage, CheckAuthor, MergeReads,
         MergeWrites, DatabaseFails, Backstop, TypeOK
<1>3. CASE lookup[v].at = "idle"
  BY <1>1, <1>3 DEF Knows, Looking, Enriching
<1>4. CASE lookup[v].at # "idle"
  <2>1. lookup[v].link \in Links /\ lookup[v].link # lookup[w].link
    BY <1>4 DEF LinksNamed, NoOverlap
  <2>2. cache'[lookup[v].link] = cache[lookup[v].link]
    BY <1>2, <2>1 DEF TypeOK
  <2> QED
    BY <1>1, <2>2 DEF Knows
<1> QED
  BY <1>3, <1>4

(* A step of w keeps what w knows. *)
LEMMA OwnKnowledge ==
  ASSUME AloneInv, NEW w \in Lookups, Step(w)
  PROVE  Knows(w)' /\ AuthorsOfNotes'
<1> DEFINE q == lookup[w]  l == lookup[w].link  row == cache[lookup[w].link]
<1>1. /\ q \in LookupState /\ Knows(w) /\ AuthorsOfNotes
      /\ cache \in [Links -> CacheRow] /\ lookup \in [Lookups -> LookupState]
  BY DEF AloneInv, TypeOK
<1>2. q.at # "idle" /\ l \in Links
  <2>1. q.at # "idle"
    BY DEF Step, ReadCache, TryDirect, SkipDirect, WalkEnds, PageEnds, AuthorAnswers,
           PayAnswers, StoreResolution, TryPage, SkipPage, CheckAuthor, MergeReads,
           MergeWrites, DatabaseFails, Backstop, At
  <2> QED
    BY <2>1 DEF AloneInv, LinksNamed
<1>3. row \in CacheRow /\ row.status \in {"none", "ok", "failed"} /\ (row.author => row.status = "ok")
  BY <1>1, <1>2 DEF AuthorsOfNotes, CacheRow
<1>4. ASSUME Return(w) PROVE Knows(w)'
  <2>1. lookup'[w] = Idle
    BY <1>1, <1>4 DEF Return
  <2> QED
    BY <2>1 DEF Knows, Idle, Looking, Enriching
<1>5. ASSUME UNCHANGED cache PROVE AuthorsOfNotes'
  BY <1>1, <1>5 DEF AuthorsOfNotes
<1>6. CASE ReadCache(w)
  <2>1. UNCHANGED cache /\ q.at = "read" /\ ~q.author
    BY <1>1, <1>6 DEF ReadCache, At, Knows
  <2>2. CASE row.status = "ok" /\ Resolved(w, row.author)
    <3>1. CASE q.wanted /\ ~row.author
      <4>1. lookup'[w] = [[q EXCEPT !.at = "page"] EXCEPT !.ok = TRUE]
        BY <1>1, <2>2, <3>1 DEF Resolved
      <4> QED
        BY <1>1, <1>5, <2>1, <2>2, <3>1, <4>1 DEF Knows, Looking, Enriching, LookupState
    <3> QED
      BY <1>4, <1>5, <2>1, <2>2, <3>1 DEF Resolved
  <2>3. CASE row.status # "ok" /\ ~Settled(w)
    <3>1. row.status = "none" \/ (row.status = "failed" /\ (q.retry \/ ~row.fresh))
      BY <1>3, <2>3 DEF Settled
    <3>2. \/ lookup'[w] = [[q EXCEPT !.at = "put"] EXCEPT !.ok = TRUE]
          \/ lookup'[w] = [q EXCEPT !.at = "direct"]
      BY <1>1, <1>6, <2>3 DEF ReadCache, Goto, Settled
    <3> QED
      BY <1>1, <1>5, <2>1, <3>1, <3>2, ZenonT(30) DEF Knows, Looking, Enriching, LookupState
  <2> QED
    BY <1>4, <1>5, <1>6, <2>1, <2>2, <2>3 DEF ReadCache
<1>7. CASE TryDirect(w) \/ SkipDirect(w)
  <2>1. q.at = "direct" /\ UNCHANGED cache /\ \E s \in {"walk", "pay"} : lookup'[w] = [q EXCEPT !.at = s]
    BY <1>1, <1>7 DEF TryDirect, SkipDirect, Goto, At
  <2> QED
    BY <1>1, <1>5, <2>1 DEF Knows, Looking, Enriching, LookupState
<1>8. ASSUME NEW found \in BOOLEAN, WalkEnds(w, found)
      PROVE  Knows(w)' /\ AuthorsOfNotes'
  <2>1. /\ q.at = "walk" /\ UNCHANGED cache
        /\ lookup'[w] \in {[[q EXCEPT !.at = "put"] EXCEPT !.ok = TRUE], [q EXCEPT !.at = "pay"]}
    BY <1>1, <1>8 DEF WalkEnds, Goto, At
  <2> QED
    BY <1>1, <1>5, <2>1, ZenonT(30) DEF Knows, Looking, Enriching, LookupState
<1>9. ASSUME NEW ok \in BOOLEAN, NEW author \in BOOLEAN, PayAnswers(w, ok, author)
      PROVE  Knows(w)' /\ AuthorsOfNotes'
  <2>1. /\ q.at = "pay" /\ UNCHANGED cache /\ (author => ok)
        /\ lookup'[w] = [[[q EXCEPT !.at = "put"] EXCEPT !.ok = ok] EXCEPT !.author = author]
    BY <1>1, <1>9 DEF PayAnswers, At
  <2> QED
    BY <1>1, <1>5, <2>1 DEF Knows, Looking, Enriching, LookupState
<1>10. CASE StoreResolution(w)
  <2>1. q.at = "put" /\ (q.author => q.ok)
    BY <1>1, <1>10 DEF StoreResolution, At, Knows
  <2>2. /\ \A k \in Links \ {l} : cache'[k] = cache[k]
        /\ cache'[l].status = IF q.ok THEN "ok" ELSE "failed"
        /\ cache'[l].author = q.author
    BY <1>1, <1>2, <1>10 DEF StoreResolution, Put
  <2>3. AuthorsOfNotes'
    BY <1>1, <2>1, <2>2 DEF AuthorsOfNotes
  <2>4. CASE q.ok /\ q.wanted /\ ~q.author
    <3>1. lookup'[w] = [[q EXCEPT !.at = "page"] EXCEPT !.ok = TRUE]
      BY <1>1, <1>10, <2>4 DEF StoreResolution, Resolved
    <3> QED
      BY <1>1, <2>2, <2>3, <2>4, <3>1 DEF Knows, Looking, Enriching, LookupState
  <2> QED
    BY <1>4, <1>10, <2>3, <2>4 DEF StoreResolution, Resolved
<1>11. CASE TryPage(w) \/ SkipPage(w)
  <2>1. q.at = "page" /\ UNCHANGED cache /\ \E s \in {"fetch", "check"} : lookup'[w] = [q EXCEPT !.at = s]
    BY <1>1, <1>11 DEF TryPage, SkipPage, Goto, At
  <2> QED
    BY <1>1, <1>5, <2>1 DEF Knows, Looking, Enriching, LookupState
<1>12. ASSUME NEW found \in BOOLEAN, PageEnds(w, found)
       PROVE  Knows(w)' /\ AuthorsOfNotes'
  <2>1. /\ q.at = "fetch" /\ UNCHANGED cache
        /\ lookup'[w] \in {[[q EXCEPT !.at = "merge"] EXCEPT !.author = TRUE], [q EXCEPT !.at = "check"]}
    BY <1>1, <1>12 DEF PageEnds, Goto, At
  <2> QED
    BY <1>1, <1>5, <2>1, ZenonT(30) DEF Knows, Looking, Enriching, LookupState
<1>13. CASE CheckAuthor(w)
  <2>1. q.at = "check" /\ UNCHANGED cache
    BY <1>13 DEF CheckAuthor, At
  <2>2. CASE row.authorFailed = "fresh" /\ ~q.retry
    BY <1>4, <1>5, <1>13, <2>1, <2>2 DEF CheckAuthor
  <2>3. CASE ~(row.authorFailed = "fresh" /\ ~q.retry)
    <3>1. lookup'[w] = [q EXCEPT !.at = "payAuthor"]
      BY <1>1, <1>13, <2>3 DEF CheckAuthor, Goto
    <3> QED
      BY <1>1, <1>5, <2>1, <2>3, <3>1 DEF Knows, Looking, Enriching, LookupState
  <2> QED
    BY <2>2, <2>3
<1>14. ASSUME NEW found \in BOOLEAN, AuthorAnswers(w, found)
       PROVE  Knows(w)' /\ AuthorsOfNotes'
  <2>1. /\ q.at = "payAuthor" /\ UNCHANGED cache
        /\ lookup'[w] = [[[q EXCEPT !.at = "merge"] EXCEPT !.author = found]
                          EXCEPT !.failed = ~found]
    BY <1>1, <1>14 DEF AuthorAnswers, At
  <2> QED
    BY <1>1, <1>5, <2>1 DEF Knows, Looking, Enriching, LookupState
<1>15. CASE MergeReads(w)
  <2>1. /\ q.at = "merge" /\ UNCHANGED cache
        /\ lookup'[w] = [[q EXCEPT !.at = "write"] EXCEPT !.row = row]
    BY <1>1, <1>15 DEF MergeReads, At
  <2> QED
    BY <1>1, <1>5, <2>1 DEF Knows, Looking, Enriching, LookupState
<1>16. CASE MergeWrites(w)
  <2>1. q.at = "write" /\ q.row.status = "ok" /\ q.row \in CacheRow
    BY <1>1, <1>16 DEF MergeWrites, At, Knows, LookupState
  <2>2. (\A k \in Links \ {l} : cache'[k] = cache[k]) /\ cache'[l].status = "ok"
    BY <1>1, <1>2, <1>16, <2>1 DEF MergeWrites, CacheRow
  <2> QED
    BY <1>1, <1>4, <1>16, <2>2 DEF MergeWrites, AuthorsOfNotes
<1>17. CASE DatabaseFails(w)
  <2>1. UNCHANGED cache /\ lookup'[w] = [q EXCEPT !.at = "raised"]
    BY <1>1, <1>17 DEF DatabaseFails, Goto
  <2> QED
    BY <1>1, <1>5, <2>1 DEF Knows, Looking, Enriching, LookupState
<1>18. CASE Backstop(w)
  BY <1>4, <1>5, <1>18 DEF Backstop
<1> QED
  BY <1>6, <1>7, <1>8, <1>9, <1>10, <1>11, <1>12, <1>13, <1>14, <1>15, <1>16, <1>17,
     <1>18 DEF Step

LEMMA AloneStep ==
  ASSUME AloneInv, NoOverlap, [Next]_vars
  PROVE  AloneInv'
<1>1. TypeOK' /\ LinksNamed'
  BY NextTyped DEF AloneInv
<1>2. CASE UNCHANGED vars
  BY <1>1, <1>2 DEF vars, AloneInv, Knows, AuthorsOfNotes
<1>3. ASSUME NEW w \in Lookups, Step(w)
      PROVE  AloneInv'
  <2>1. Knows(w)' /\ AuthorsOfNotes'
    BY <1>3, OwnKnowledge
  <2>2. \A v \in Lookups \ {w} : Knows(v)'
    BY <1>3, OthersUndisturbed DEF AloneInv
  <2> QED
    BY <1>1, <2>1, <2>2 DEF AloneInv
<1>4. ASSUME NEW w \in Lookups, NEW l \in Links, NEW retry \in BOOLEAN,
             NEW wanted \in BOOLEAN, Begin(w, l, retry, wanted)
      PROVE  AloneInv'
  <2>1. AuthorsOfNotes'
    BY <1>4 DEF Begin, AloneInv, AuthorsOfNotes
  <2>2. ASSUME NEW v \in Lookups PROVE Knows(v)'
    <3>1. CASE v = w
      <4>1. lookup'[w].at = "read" /\ ~lookup'[w].author
        BY <1>4 DEF Begin, AloneInv, TypeOK, Idle
      <4> QED
        BY <3>1, <4>1 DEF Knows, Looking, Enriching
    <3>2. CASE v # w
      <4>1. lookup'[v] = lookup[v] /\ cache' = cache
        BY <1>4, <3>2 DEF Begin, AloneInv, TypeOK
      <4> QED
        BY <4>1 DEF Knows, AloneInv
    <3> QED
      BY <3>1, <3>2
  <2> QED
    BY <1>1, <2>1, <2>2 DEF AloneInv
<1>5. ASSUME NEW l \in Links, Age(l)
      PROVE  AloneInv'
  <2>1. /\ \A k \in Links : /\ cache'[k].status = cache[k].status
                            /\ cache'[k].author = cache[k].author
                            /\ cache'[k].fresh => cache[k].fresh
                            /\ cache'[k].authorFailed = "fresh" => cache[k].authorFailed = "fresh"
        /\ lookup' = lookup
    BY <1>5 DEF Age, AloneInv, TypeOK, CacheRow
  <2>2. AuthorsOfNotes'
    BY <2>1 DEF AloneInv, AuthorsOfNotes
  <2>3. ASSUME NEW v \in Lookups PROVE Knows(v)'
    <3>1. CASE lookup[v].at = "idle"
      BY <2>1, <3>1 DEF Knows, Looking, Enriching
    <3>2. CASE lookup[v].at # "idle"
      <4>1. lookup[v].link \in Links
        BY <3>2 DEF AloneInv, LinksNamed
      <4> QED
        BY <2>1, <4>1 DEF Knows, AloneInv
    <3> QED
      BY <3>1, <3>2
  <2> QED
    BY <1>1, <2>2, <2>3 DEF AloneInv
<1> QED
  BY <1>2, <1>3, <1>4, <1>5 DEF Next

LEMMA InitAlone == Init => AloneInv
<1> SUFFICES ASSUME Init PROVE AloneInv
  OBVIOUS
<1>1. TypeOK
  BY InitTyped
<1>2. \A w \in Lookups : lookup[w].at = "idle"
  BY DEF Init, Idle
<1>3. \A l \in Links : ~cache[l].author
  BY DEF Init, NoRow
<1> QED
  BY <1>1, <1>2, <1>3 DEF AloneInv, LinksNamed, AuthorsOfNotes, Knows, Looking, Enriching

(* The step that CacheIsPermanent allows. *)
Kept == \A l \in Links : /\ cache[l].status = "ok" => cache'[l].status = "ok"
                         /\ cache[l].author => cache'[l].author

LEMMA AloneKept ==
  ASSUME AloneInv, [Next]_vars
  PROVE  Kept
<1> SUFFICES ASSUME NEW l \in Links
             PROVE  /\ cache[l].status = "ok" => cache'[l].status = "ok"
                    /\ cache[l].author => cache'[l].author
  BY DEF Kept
<1>1. CASE UNCHANGED cache
  BY <1>1
<1>2. ASSUME NEW w \in Lookups, StoreResolution(w)
      PROVE  /\ cache[l].status = "ok" => cache'[l].status = "ok"
             /\ cache[l].author => cache'[l].author
  <2>1. Knows(w) /\ lookup[w].at = "put" /\ lookup[w].link \in Links
    BY <1>2 DEF AloneInv, LinksNamed, StoreResolution, At
  <2>2. cache[lookup[w].link].status # "ok" /\ ~cache[lookup[w].link].author
    BY <2>1 DEF Knows, Looking, AloneInv, AuthorsOfNotes
  <2> QED
    BY <1>2, <2>2 DEF StoreResolution, Put, AloneInv, TypeOK
<1>3. ASSUME NEW w \in Lookups, MergeWrites(w)
      PROVE  /\ cache[l].status = "ok" => cache'[l].status = "ok"
             /\ cache[l].author => cache'[l].author
  <2>1. /\ Knows(w) /\ lookup[w].at = "write" /\ lookup[w].link \in Links
        /\ lookup[w].row \in CacheRow
    BY <1>3 DEF AloneInv, LinksNamed, MergeWrites, At, TypeOK, LookupState
  <2>2. ~cache[lookup[w].link].author /\ lookup[w].row.status = "ok"
    BY <2>1 DEF Knows, Enriching
  <2>3. cache'[lookup[w].link].status = "ok"
    BY <1>3, <2>1, <2>2 DEF MergeWrites, AloneInv, TypeOK, CacheRow
  <2> QED
    BY <1>3, <2>1, <2>2, <2>3 DEF MergeWrites, AloneInv, TypeOK
<1>4. ASSUME NEW k \in Links, Age(k)
      PROVE  /\ cache[l].status = "ok" => cache'[l].status = "ok"
             /\ cache[l].author => cache'[l].author
  BY <1>4 DEF Age, AloneInv, TypeOK, CacheRow
<1> QED
  BY <1>1, <1>2, <1>3, <1>4 DEF Next, vars, Begin, Step, ReadCache, TryDirect, SkipDirect,
     WalkEnds, PageEnds, AuthorAnswers, PayAnswers, TryPage, SkipPage, CheckAuthor,
     MergeReads, DatabaseFails, Backstop

(* However many lookups are under way and whatever fails, while no two are  *)
(* of one link: the variables keep their types, and TikHub is paid only     *)
(* when the cache asks for it.                                              *)
THEOREM PaysWhenDue == Spec /\ []NoOverlap => []LookupsAreSound
<1>1. Init => AloneInv
  BY InitAlone
<1>2. AloneInv /\ NoOverlap /\ [Next]_vars => AloneInv'
  BY AloneStep
<1>3. AloneInv => LookupsAreSound
  BY DEF AloneInv, LookupsAreSound, PaysOnlyWhenDue, Knows, Looking, Enriching, At
<1> QED
  BY <1>1, <1>2, <1>3, PTL DEF Spec

(* ... and a success, or an author, is kept: an overlap of two lookups of   *)
(* one link is the only way to lose one (README.md:28-29).                  *)
THEOREM KeepsSuccesses == Spec /\ []NoOverlap => CacheIsPermanent
<1>1. Init => AloneInv
  BY InitAlone
<1>2. AloneInv /\ NoOverlap /\ [Next]_vars => AloneInv'
  BY AloneStep
<1>3. AloneInv /\ [Next]_vars => [Kept]_vars
  BY AloneKept
<1>4. Spec /\ []NoOverlap => [][Kept]_vars
  BY <1>1, <1>2, <1>3, PTL DEF Spec
<1> QED
  BY <1>4 DEF CacheIsPermanent, Kept
=============================================================================
