----------------------------- MODULE LinkCache -----------------------------
(***************************************************************************)
(* Resolving post links through the SQLite link cache and the two circuit  *)
(* breakers: app/reconciler/links.py with the cache functions of           *)
(* app/core/db.py.                                                         *)
(*                                                                         *)
(* A run resolves its rows in a pool of TIKHUB_CONCURRENCY threads, and    *)
(* runs overlap, so one link may be looked up several times at once.  A    *)
(* lookup reads the cache, tries the free redirect walk when its breaker   *)
(* lets it, pays TikHub otherwise, and stores what it found; then, when    *)
(* the row's note is not in the DMR, it looks for the note's author the    *)
(* same way.  The note and the author of a link never change, so what a    *)
(* cache row can hold of them is only "known" or not.  Every database call *)
(* is one step; cache_merge is two of them.                                *)
(***************************************************************************)
EXTENDS Naturals, FiniteSets

CONSTANTS
  Links,        (* normalised, allowed post links                          *)
  Canonical,    (* those that carry the note id in the URL itself          *)
  Lookups,      (* resolver threads                                        *)
  TripAfter,    (* _DirectBreaker.TRIP_AFTER                               *)
  ReprobeEvery, (* _DirectBreaker.REPROBE_EVERY                            *)
  MaxFails,     (* bound: failures in a row are counted up to this many    *)
  NoLink        (* a resolver thread that is free                          *)

ASSUME LinkCacheAssumption ==
  /\ Canonical \subseteq Links
  /\ TripAfter \in Nat \ {0}
  /\ ReprobeEvery \in Nat \ {0}
  /\ MaxFails \in Nat /\ MaxFails >= TripAfter
  /\ NoLink \notin Links

VARIABLES
  cache,    (* table link_cache                                            *)
  breaker,  (* DIRECT_BREAKER and PAGE_BREAKER                             *)
  lookup    (* the resolver threads                                        *)

vars == <<cache, breaker, lookup>>

Breakers == {"direct", "page"}

(* fresh: resolved_at is within FAILED_CACHE_TTL_HOURS; authorFailed: the   *)
(* age of author_failed_at.                                                 *)
CacheRow == [status : {"none", "ok", "failed"}, author : BOOLEAN,
             fresh : BOOLEAN, authorFailed : {"no", "fresh", "expired"}]
NoRow    == [status |-> "none", author |-> FALSE, fresh |-> FALSE,
             authorFailed |-> "no"]

Stages == {"idle", "read", "direct", "walk", "pay", "put",
           "page", "fetch", "check", "payAuthor", "merge", "write", "raised"}

(* retry: retry_failed; wanted: the note is not in the DMR, so its author   *)
(* is; ok, author: the Resolution so far; failed: cache_merge is to record  *)
(* a failed enrichment; row: the row cache_merge read.                      *)
Idle == [at |-> "idle", link |-> NoLink, retry |-> FALSE, wanted |-> FALSE,
         ok |-> FALSE, author |-> FALSE, failed |-> FALSE, row |-> NoRow]

Init ==
  /\ cache = [l \in Links |-> NoRow]
  /\ breaker = [b \in Breakers |-> [fails |-> 0, skipped |-> 0]]
  /\ lookup = [w \in Lookups |-> Idle]

-----------------------------------------------------------------------------
(* Helpers. *)

At(w, s)   == lookup[w].at = s
Goto(w, s) == lookup' = [lookup EXCEPT ![w].at = s]
Return(w)  == lookup' = [lookup EXCEPT ![w] = Idle]

(* The lookup has a resolution; it goes on when ensure_author has to run. *)
Resolved(w, author) ==
  IF lookup[w].wanted /\ ~author
    THEN lookup' = [lookup EXCEPT ![w].at = "page", ![w].ok = TRUE]
    ELSE Return(w)

(* Seeded bug: a tripped breaker does not count what it skips.              *)
SkipUncounted(b) == ~(breaker[b].fails < TripAfter) /\ UNCHANGED breaker

(* should_try: try while closed; when tripped, every ReprobeEvery-th        *)
(* attempt probes.                                                          *)
Closed(b) == breaker[b].fails < TripAfter
Tries(b)  == Closed(b) \/ breaker[b].skipped + 1 >= ReprobeEvery
Pass(b)   == /\ Tries(b)
             /\ breaker' = IF Closed(b) THEN breaker
                           ELSE [breaker EXCEPT ![b].skipped = 0]
Skip(b)   == /\ ~Tries(b)
             /\ breaker' = [breaker EXCEPT ![b].skipped = @ + 1]

(* record(ok): a success starts the count again, and a failed probe of a    *)
(* tripped breaker counts like any other failure.  The program's count has  *)
(* no end; here it stops at MaxFails.                                       *)
Score(b, ok) ==
  breaker' = [breaker EXCEPT ![b].fails =
    IF ok THEN 0 ELSE IF @ < MaxFails THEN @ + 1 ELSE @]

(* cache_put replaces every column of the row. *)
Put(l, status, author) ==
  cache' = [cache EXCEPT ![l] = [status |-> status, author |-> author,
                                 fresh |-> TRUE, authorFailed |-> "no"]]

-----------------------------------------------------------------------------
(* resolve_link. *)

Begin(w, l, retry, wanted) ==
  /\ lookup[w] = Idle
  /\ lookup' = [lookup EXCEPT ![w] = [Idle EXCEPT !.at = "read", !.link = l,
                                      !.retry = retry, !.wanted = wanted]]
  /\ UNCHANGED <<cache, breaker>>

(* Seeded bugs: a failure is never settled; its age is not looked at; a     *)
(* cached success is looked up again on request, like a failure.            *)
SettledNever(w)   == FALSE
SettledForEver(w) == cache[lookup[w].link].status = "failed" /\ ~lookup[w].retry

ReadCacheRetriesAll(w) ==
  LET row == cache[lookup[w].link] IN
  /\ At(w, "read")
  /\ \/ row.status = "ok" /\ ~lookup[w].retry /\ Resolved(w, row.author)
     \/ /\ row.status # "ok" \/ lookup[w].retry
        /\ IF lookup[w].link \in Canonical
             THEN lookup' = [lookup EXCEPT ![w].at = "put", ![w].ok = TRUE]
             ELSE Goto(w, "direct")
  /\ UNCHANGED <<cache, breaker>>

Settled(w) == cache[lookup[w].link].status = "failed"
              /\ cache[lookup[w].link].fresh /\ ~lookup[w].retry

ReadCache(w) ==
  LET row == cache[lookup[w].link] IN
  /\ At(w, "read")
  /\ \/ row.status = "ok" /\ Resolved(w, row.author)
     \/ Settled(w) /\ Return(w)
     \/ /\ row.status # "ok" /\ ~Settled(w)
        /\ IF lookup[w].link \in Canonical
             THEN lookup' = [lookup EXCEPT ![w].at = "put", ![w].ok = TRUE]
             ELSE Goto(w, "direct")
  /\ UNCHANGED <<cache, breaker>>

TryDirect(w) ==
  /\ At(w, "direct")
  /\ Pass("direct")
  /\ Goto(w, "walk")
  /\ UNCHANGED cache

SkipDirect(w) ==
  /\ At(w, "direct")
  /\ Skip("direct")
  /\ Goto(w, "pay")
  /\ UNCHANGED cache

(* direct_resolve walked the redirects to a note id, or did not. *)
WalkEnds(w, found) ==
  /\ At(w, "walk")
  /\ Score("direct", found)
  /\ IF found THEN lookup' = [lookup EXCEPT ![w].at = "put", ![w].ok = TRUE]
              ELSE Goto(w, "pay")
  /\ UNCHANGED cache

(* tikhub_fetch_note: the note, usually with its author, or a failure. *)
PayAnswers(w, ok, author) ==
  /\ At(w, "pay")
  /\ author => ok
  /\ lookup' = [lookup EXCEPT ![w].at = "put", ![w].ok = ok,
                              ![w].author = author]
  /\ UNCHANGED <<cache, breaker>>

StoreResolution(w) ==
  /\ At(w, "put")
  /\ Put(lookup[w].link, IF lookup[w].ok THEN "ok" ELSE "failed",
         lookup[w].author)
  /\ IF lookup[w].ok THEN Resolved(w, lookup[w].author) ELSE Return(w)
  /\ UNCHANGED breaker

-----------------------------------------------------------------------------
(* ensure_author. *)

TryPage(w) ==
  /\ At(w, "page")
  /\ Pass("page")
  /\ Goto(w, "fetch")
  /\ UNCHANGED cache

SkipPage(w) ==
  /\ At(w, "page")
  /\ Skip("page")
  /\ Goto(w, "check")
  /\ UNCHANGED cache

PageEnds(w, found) ==
  /\ At(w, "fetch")
  /\ Score("page", found)
  /\ IF found THEN lookup' = [lookup EXCEPT ![w].at = "merge", ![w].author = TRUE]
              ELSE Goto(w, "check")
  /\ UNCHANGED cache

(* Seeded bug: a failed enrichment settles the author whatever its age.     *)
CheckAuthorForEver(w) ==
  /\ At(w, "check")
  /\ IF cache[lookup[w].link].authorFailed # "no" /\ ~lookup[w].retry
       THEN Return(w)
       ELSE Goto(w, "payAuthor")
  /\ UNCHANGED <<cache, breaker>>

(* A recent failed enrichment is not paid for again. *)
CheckAuthor(w) ==
  /\ At(w, "check")
  /\ IF cache[lookup[w].link].authorFailed = "fresh" /\ ~lookup[w].retry
       THEN Return(w)
       ELSE Goto(w, "payAuthor")
  /\ UNCHANGED <<cache, breaker>>

AuthorAnswers(w, found) ==
  /\ At(w, "payAuthor")
  /\ lookup' = [lookup EXCEPT ![w].at = "merge", ![w].author = found,
                              ![w].failed = ~found]
  /\ UNCHANGED <<cache, breaker>>

(* cache_merge reads the row ... *)
MergeReads(w) ==
  /\ At(w, "merge")
  /\ lookup' = [lookup EXCEPT ![w].at = "write", ![w].row = cache[lookup[w].link]]
  /\ UNCHANGED <<cache, breaker>>

(* Seeded bug: a failed enrichment is recorded with cache_put, which clears *)
(* the rest of the row.                                                     *)
MergeWritesAll(w) ==
  /\ At(w, "write")
  /\ cache' = [cache EXCEPT ![lookup[w].link] =
       [NoRow EXCEPT !.author = ~lookup[w].failed]]
  /\ Return(w)
  /\ UNCHANGED breaker

(* ... and puts it back with the given fields replaced. *)
MergeWrites(w) ==
  LET read == lookup[w].row IN
  /\ At(w, "write")
  /\ cache' = [cache EXCEPT ![lookup[w].link] =
       IF lookup[w].failed
         THEN [read EXCEPT !.authorFailed = "fresh"]
         ELSE [read EXCEPT !.author = TRUE, !.authorFailed = "no", !.fresh = TRUE]]
  /\ Return(w)
  /\ UNCHANGED breaker

(* A database call raises ... *)
DatabaseFails(w) ==
  /\ lookup[w].at \in {"read", "put", "check", "merge", "write"}
  /\ Goto(w, "raised")
  /\ UNCHANGED <<cache, breaker>>

(* ... and the backstop of resolve_link turns it into a failed resolution   *)
(* of this run, stored nowhere; out of ensure_author it ends the run.       *)
Backstop(w) ==
  /\ At(w, "raised")
  /\ Return(w)
  /\ UNCHANGED <<cache, breaker>>

(* FAILED_CACHE_TTL_HOURS pass. *)
Age(l) ==
  /\ \/ /\ cache[l].fresh
        /\ cache' = [cache EXCEPT ![l].fresh = FALSE]
     \/ /\ cache[l].authorFailed = "fresh"
        /\ cache' = [cache EXCEPT ![l].authorFailed = "expired"]
  /\ UNCHANGED <<breaker, lookup>>

-----------------------------------------------------------------------------
Step(w) ==
  \/ ReadCache(w) \/ TryDirect(w) \/ SkipDirect(w)
  \/ \E found \in BOOLEAN : WalkEnds(w, found) \/ PageEnds(w, found)
                            \/ AuthorAnswers(w, found)
  \/ \E ok, author \in BOOLEAN : PayAnswers(w, ok, author)
  \/ StoreResolution(w)
  \/ TryPage(w) \/ SkipPage(w) \/ CheckAuthor(w)
  \/ MergeReads(w) \/ MergeWrites(w) \/ DatabaseFails(w) \/ Backstop(w)

Next ==
  \/ \E w \in Lookups, l \in Links, retry, wanted \in BOOLEAN :
       Begin(w, l, retry, wanted)
  \/ \E w \in Lookups : Step(w)
  \/ \E l \in Links : Age(l)

Spec == Init /\ [][Next]_vars

(* Every network call has a timeout, so a lookup goes on to its end. *)
FairSpec == Spec /\ \A w \in Lookups : WF_vars(Step(w))

-----------------------------------------------------------------------------
LookupState ==
  [at : Stages, link : Links \cup {NoLink}, retry : BOOLEAN, wanted : BOOLEAN,
   ok : BOOLEAN, author : BOOLEAN, failed : BOOLEAN, row : CacheRow]

TypeOK ==
  /\ cache \in [Links -> CacheRow]
  /\ breaker \in [Breakers -> [fails : 0..MaxFails, skipped : 0..(ReprobeEvery - 1)]]
  /\ lookup \in [Lookups -> LookupState]

(* README.md:28-29: a resolved (note_id, author_id) never changes, so        *)
(* successes are cached permanently.  A lookup that has the link to itself  *)
(* keeps that promise; of overlapping lookups, a late failure replaces the  *)
(* success (cache_put replaces the row), and one that resolves the note     *)
(* again clears the author that has been fetched.                           *)
CacheIsPermanent ==
  [][\A l \in Links : /\ cache[l].status = "ok" => cache'[l].status = "ok"
                      /\ cache[l].author => cache'[l].author]_vars

(* README.md:29: failures are retried only after a TTL or on request -- of  *)
(* the note and of the author.  Between reading the cache and paying TikHub *)
(* a lookup tries the free path; what it read still holds when it pays.     *)
PaysOnlyWhenDue ==
  \A w \in Lookups :
    LET row == cache[lookup[w].link] IN
    /\ At(w, "pay") =>
         \/ row.status = "none"
         \/ row.status = "failed" /\ (lookup[w].retry \/ ~row.fresh)
    /\ At(w, "payAuthor") =>
         row.status = "ok" /\ (lookup[w].retry \/ row.authorFailed # "fresh")

(* The variables keep their types -- a breaker has always skipped fewer     *)
(* attempts in a row than it takes to probe -- and every payment was due.   *)
LookupsAreSound == TypeOK /\ PaysOnlyWhenDue

(* README.md:29, the other half: a failure past its TTL, or asked for       *)
(* again, is retried.  A lookup that finds the note's failure due ends by   *)
(* storing a new answer, one that needs an author not recently failed to be *)
(* found ends by recording what it found; whatever the breakers skip and    *)
(* the free paths miss, unless the database fails it.                       *)
DueIsAskedAgain ==
  \A w \in Lookups :
    LET row == cache[lookup[w].link] IN
    /\ At(w, "read") /\ row.status = "failed" /\ (lookup[w].retry \/ ~row.fresh)
         ~> At(w, "put") \/ At(w, "raised")
    /\ At(w, "page") /\ (lookup[w].retry \/ row.authorFailed # "fresh")
         ~> At(w, "merge") \/ At(w, "raised")

(* A tripped breaker is not for ever: where attempts keep being skipped,    *)
(* attempts keep being made, so the free path can recover.                  *)
NeverGivesUp ==
  /\ []<><<\E w \in Lookups : SkipDirect(w)>>_vars
       => []<><<\E w \in Lookups : TryDirect(w)>>_vars
  /\ []<><<\E w \in Lookups : SkipPage(w)>>_vars
       => []<><<\E w \in Lookups : TryPage(w)>>_vars

(* Both: neither an old failure nor a tripped breaker is the last word.     *)
NothingIsGivenUp == DueIsAskedAgain /\ NeverGivesUp
=============================================================================
