# Verification of DiorDMRCheck

The program under `src/` reconciles a tracker of influencer posts (the *PLOG*)
with an export of a social-listening service (the *DMR*).  A user uploads two
workbooks, perhaps approves how unfamiliar headers are to be read, starts a
run, watches it resolve links and match rows in the background, corrects
verdicts by hand and downloads an annotated workbook.  It is one process: an
asyncio event loop serves the requests, threads do the work, SQLite keeps what
must outlive the process, and a maintenance thread removes old uploads.

This directory holds TLA+ models of that program, the TLC configurations that
check them on small instances, and proofs, checked by TLAPS, that the most
important properties of the components hold for every instance: the run pool, the
upload directories, the pending audits, the upload admission with the perimeter
lists, the link cache, the matching, the accounts, and the computations over
finished data (export, header mapping, adjudication).

    tlc -workers 2 -config MCRunPool.cfg MCRunPool      (any run of PROJECT.json)
    tlapm RunPoolProofs.tla

`PROJECT.json` lists the runs, the source lines every definition models, the
hazards the properties are aimed at, the mutants and the theorems.

## The system

| Component | State it keeps | Operations |
|---|---|---|
| Run pool (`reconciler/runs.py`, start route) | `_active`, `_pending`, `_restart_pending` under `_pool_lock`; columns `status`, `phase`, `message`, `options_json`, `result_json` of table `runs` | start, defer, run, record, hand over, recover after a restart |
| Upload directories (`core/uploads.py`, `main.py`, the routes) | files below `UPLOAD_DIR`, `_active_uploads` (leases), `_cleanup_claims`, `_export_stream_slots`, tables `runs` and `overrides` | upload, apply, reject, start, export, override; the sweep by age and by budget |
| Pending audits (`core/token_store.py`) | the entries with their expiry and their claims | put, get, claim, release, pop, discard_expired |
| Link resolution (`reconciler/links.py`) | table `link_cache`, `DIRECT_BREAKER`, `PAGE_BREAKER` | resolve_link, ensure_author, cache_put, cache_merge |
| Matching (`pipeline.py`, `name_match.py`, `reverse_audit.py`) | none between runs; the verdicts of one run | indexes, siblings, tiers 1 to 3, perimeter split, reverse audit |
| Perimeter cache (`perimeter.py`) | table `perimeter_cache`, the settings `current_perimeter*` | parse_and_cache, promote_cached, remove |
| Export (`export.py`) | none; writes a copy of the tracker | write_annotated_xlsx, audit JSON |
| Header mapping (`remap/`) | approved mappings in `settings` | propose, audit, apply, cache |
| Efficiency report (`efficiency/`) | `EFF_REPORTS` (a token store) | parse, classify, validate, metrics, deck |
| Accounts (`auth/`) | tables `users`, `auth_tokens`; signed session cookies | set-up, invite, reset, verify, team administration, login |
| Login throttle (`auth/throttle.py`) | time stamps per address and user | reserve, release, clear, retry_after |
| Admission (`core/uploads.py`) | the upload semaphore, the workbook gate | RequestBodyLimitMiddleware, run_upload_task |
| Adjudication (`adjudicator.py`) | none; annotates verdicts | batches of questions to an LLM |
| Parsing, normalisation, pages, migrations | none | conversions and rendering |

### How they interact

* *Through the table `runs`.*  Upload and apply insert the row, the start route
  and the pool change its status, the sweep reads the status and deletes the
  row, exports and overrides read it.  There are no transactions across two
  calls: every `db.*` call is atomic by itself and nothing more.
* *Through an upload directory.*  A request protects it with a lease; a
  pending audit and a queued or running run protect it by being found when the
  sweep asks; the sweep claims it under `_lifecycle_lock`.
* *Through callbacks.*  The token store calls `cleanup_pending_entry` for what
  it drops; the sweep calls `should_remove` and `on_remove` of `main.py`; the
  pool's threads call the progress writer.
* *Through threads.*  Handlers interleave at `await`; worker threads, resolver
  threads and the maintenance thread interleave everywhere outside a lock.

### What is hard, and what makes each part correct

| Component | Hard | Correct when |
|---|---|---|
| Run pool | a retry meets the errored worker of the same run; a slot falls free between the decision to defer and the append; the database fails anywhere; the process dies | one worker per run, never more than the cap, no idle slot beside a waiting run, no row left queued or running without an owner, a done run is final, service in order |
| Upload directories | the sweep decides outside the lock; protection moves from lease to audit to status; forgetting a row may fail; the process dies in between | leases, slots and claims are not leaked, a row keeps its files, staging keeps an owner but for the named faults |
| Pending audits | two requests apply one audit; expiry and eviction during a claim; a full store | used at most once, by its claimant; reclaimed in the end |
| Link resolution | lookups of one link overlap and store over each other; a breaker that stays open | a success and an author are kept, TikHub is paid only when due, the free path is tried again |
| Matching | duplicates on both sides, missing ids, names that sound alike | a match is the note join and nothing else; absence rests on an id; names only raise doubt |
| Perimeter cache | two starts promote two files; a preview must not promote | the default changes only by a start, to what that run used |
| Export | cells and columns a person has filled | nothing a person wrote is overwritten, except by an override |
| Accounts | the password is hashed, or a mail sent, between reading an account and writing it | links work once, an administrator remains, sessions end with their password, a confirmed address was answered, addresses stay distinct |
| Admission | cancelled requests whose threads go on; permits that pass from a request to a thread | no permit is lost or used twice, no worker outlives its request |
| Header mapping | colliding names; an approval met again by later files | the approved column is the one that is read, now and later |
| Efficiency report | two units of fan base, zero denominators, rounded shares | cross-checks catch errors and nothing else; figures lie between the costs of their posts |
| Adjudication | a model may fail, ramble or answer about other rows | answers stay with their rows, every chunk gets its turn |
| Throttle | overlapping attempts; a success while others are in flight | no reservation is lost or used twice |

## The modules

| Module | Models | Checked by |
|---|---|---|
| `RunPool` | `runs.py`, the start route | `pool_safety`, `pool_service`; proved in `RunPoolProofs` |
| `RunLifecycle` | the promise of the pool to its callers (abstract) | implemented by `RunPool` |
| `Retention` | leases, claims, the sweep, and every request that uses a directory | `retention`, `retention_protected`, `retention_crash`; proved in `RetentionProofs` |
| `TokenStore` | `TokenStore` and the remap routes | `token_store`; proved in `TokenStoreProofs` |
| `AuditTicket` | the promise of the store (abstract) | implemented by `TokenStore` |
| `LinkCache` | `links.py`, the cache functions, the breakers | `link_cache_alone`, `link_cache_overlap`; proved in `LinkCacheProofs` |
| `Matching` | `pipeline.py`, `reverse_audit.py` | `matching`; proved in `MatchingProofs` |
| `Ingest` | admission and the work gate of `core/uploads.py`, `_finish_upload`, the perimeter cache and its promotion | `ingest`; proved in `IngestProofs` |
| `Throttle` | `auth/throttle.py`: the buckets of failed attempts | with `Accounts` |
| `Accounts` | `auth/routes.py`, `auth/service.py`, the tables `users` and `auth_tokens`; extends `Throttle` | `accounts`; proved in `AccountsProofs` |
| `Efficiency` | `efficiency/analysis.py`: tiers, metrics, cross-checks | `reports` |
| `Export` | `export.py` | `reports` |
| `HeaderMap` | `remap/mapper.py`, the header search of the parsers | `reports` |
| `Adjudication` | `adjudicator.py` | `reports` |
| `Reports` | the four above as tasks: one state machine over their inputs | `reports`; proved in `ReportsProofs` |
| `MC*` | the values TLC is given | |

Each module that models code contains, beside the definitions the specification
uses, *seeded bugs*: variants of a step with a slip a change to the code could
make, marked as such.  No specification uses them.  `PROJECT.json` pairs every
property of every passing run with one of them: put in the place of the real
definition it must break the property.  A property no seeded bug breaks would say
nothing about the code.

### RunPool

State.  `status`, `phase`, `message`, `options`, `result` are the columns of the
row; `active`, `pending`, `restartPending`, `poolLocked` are `_active`,
`_pending`, `_restart_pending` and `_pool_lock`; a `thread` is a worker thread
and where it is in `_run_slot`; `request` is the start request the event loop
serves.  A step is one database call or one critical section.  `options_json`
is the member of `Options` that was submitted, and `result` the options a
result was computed with, which is all a property asks of either.

| Action | Code |
|---|---|
| `StartRead`, `StartCommit`, `StartAbort` | the start route reads the row, commits status and options, or fails |
| `AdmitNow`, `AdmitKnown`, `DeferPersist`, `DeferAppend` | `start_run` and `_defer_locked`, which writes the waiting message while it holds the lock and appends afterwards |
| `Load`, `Begin`, `Progress`, `Complete`, `Fail` | `_run` in a worker thread |
| `LoadFails`, `FailUnrecorded` | a database call outside, or inside, the error handler raises |
| `HandToRetry`, `HandToNext`, `FreeSlot` | the `finally` block of `_run_slot` |
| `Crash`, `RecoverOrphans` | the process dies; the next one's lifespan handler |

`faulty` is a history variable: the runs for which a database call of this
process failed.  The properties about ownership except these runs, and only
these: a failure may strand the run it was made for, never another one.

### Retention

`disk`, `row`, `overridden` are what survives; `leases`, `claims`, `audits`,
`auditing`, `freeSlots` are `_active_uploads`, `_cleanup_claims`, the entries
of `PENDING_MAPS` and their claims, and `_export_stream_slots`; `handler` says
where each request in progress is, `sweep` where the maintenance thread is.
The sweep is modelled call by call -- it lists the audits, looks at the leases,
reads the row, claims under the lock, forgets the row, settles, removes --
because what it read may be stale at the next call.  Which directories are old
or over the budget is left open: any may be.  Requests are modelled between
their awaits.  The constant `Features` says which requests and faults an
instance contains, so that a property is checked where it is meant to hold and
a violation has one cause.

### TokenStore

`entries` gives every token in the store the time it was put, which is how many
were put before it; `expired` are those that are past their TTL (time is nothing
but the order in which entries lapse, the oldest first), `claimed` the claims, `payload` what has become of the staged upload, `apply` the apply
requests.  `Put` includes the purge of lapsed entries and the eviction of the
oldest unclaimed one; `Open`, `ClaimMissing`, `ClaimBusy`, `Claim`, `Release`,
`Consume` are an apply request, whose continuation is suspended between claim
and end; `Reject`, `Show`, `DiscardExpired` are the others.

### LinkCache

A note and an author never change, so of a cache row only what is *known*
matters: the status, whether the author is there, whether a failure is within
its TTL.  `lookup` holds a resolver thread's stage and its resolution so far.
Every database call is a step; `cache_merge` is two (`MergeReads`,
`MergeWrites`), as it is in the code.  The network answers or does not.

### Matching

An input is a tracker, an outcome for each of its links, an export and two
lists; `CollectSiblings`, `MatchRow` (or `MatchRowFails`) per row and
`ReverseAudit` are the phases of `run_pipeline`.  Names are normalised forms;
the relation `Ladder` gives the rung on which a blogger's name meets a row's,
so the text of the name ladder is not modelled, what is done with its answer
is.  The candidates, notes and evidence fields shown to a reviewer are left out.

### Ingest

An upload waits for one of the admission slots, saves its files, and hands each
of its perimeter workbooks, one at a time, to a worker thread that first takes a
permit of the gate the run workers use as well.  The handler awaits the thread;
if the client goes away it sets a flag, and waits until the thread has skipped
or finished its work before it cleans up and gives the slot back.  `gate` is
the number of free permits; where each request and each job is decides who holds
one.  `JobStarts`, `JobSkipped`, `JobEnds`, `JobFails` are the thread in
`_run_gated`, `Stopped` the end of a cancelled await, `Submit` and `ClearJob`
the two sides of `run_upload_task`.

The cache keeps, per content and kind, the rows of that kind or what an old
release left (`CacheAfter`); `current` is the default list of a kind.  `Listed`
is the list a preview promises, `Commit` inserts the run with it, `Start` starts
it and promotes what it brought (or dies in between, `CrashInStart`), `Remove`
takes a default away, `PreviewRaises` is the stretch of `_finish_upload` that no
`try` covers (the request is then `broken`, or back at its audit), and `Begin`, `RunParses`, `RunParsed`, `RunEnds` are what a
run loads.  An upload may also end in an audit (`HandToAudit`) and be applied or
rejected later, under the same gate.

### Accounts and Throttle

`users` and `links` are the tables `users` and `auth_tokens`, `sessions` the
cookies handed out, `failures` the throttle's buckets.  A handler that awaits
is divided at its await: `request` says where each is and what it carries over.

| Action | Code |
|---|---|
| `LoginBegin`, `LoginFails`, `LoginSucceeds` | POST /login: reserve in both buckets, compare in a thread, then release and sign in |
| `SetupWrongCode`, `SetupRefused`, `SetupBegin`, `SetupWrites`, `SetupEnds` | POST /setup: read the account, await the hash, write it back, await the mail |
| `TeamAdd`, `ResendInvite`, `TeamDelete`, `TeamPassword`, `TeamEmail`, `TeamVerifyEmail` | the team page, for someone signed in |
| `VerifyEmail`, `AcceptBegin`, `AcceptEnds`, `Forgot` | the links that are mailed; the hash is awaited after the link has been claimed |
| `LinkExpires`, `FailureAges` | time |

A password is the number of its hash, so two passwords are the same exactly if
they were set by the same step; a signature is not forged.  Four history
variables or fields record what the properties speak of and no guard reads:
`answered` (a link sent to this address has been opened), `moved`, a field of the
account (it came to the address it has while a link to another address could still
set its password: every change of the address sets it anew, it goes with the
account, and a set-up that writes a flag it read carries it along), `knew` and `raced` (the password somebody gave, and that it was
replaced while their request was under way).  A fifth, `wiped`, says that
another sign-in has cleared the bucket a login has reserved in.

Of `Throttle` only the numbers in the buckets are kept: which of its entries
`release` takes does not change how many are left, and entries leave the window
one at a time.

### Efficiency, Export, HeaderMap, Adjudication and Reports

These parts keep no state between requests; they are operators over posts,
sheets, workbooks and verdicts, and `Reports` makes of each a task with an
input and a result.  A post is its cooperation words, tier word, fan base,
price, views and engagement; ratios are exact pairs of numbers.  Groups
are sets of row numbers, so that their sums are sums over columns of numbers.
`Groups` and `Agencies` are `compute_metrics`, `FrameOfGroups` and
`FrameOfAgencies` the second computation, `DualPathAgrees` and `Reconciles` the cross-checks; a share that lies exactly
between two tenths may be rounded either way.  A sheet of the export maps cells
to texts.  A cell of a workbook to be mapped is its text (`cell_str`) with the
key the text has as a header (`header_key`): the parsers compare keys, the
signatures of layouts texts, so a header that is spelt in another way is read like
the old one but is not recognised as approved.  Approvals (`Approve`, one file
each) are followed by one later upload (`UploadAgain`), which is read (`known`),
read as approved (`cached`), put to a person (`audit`) or `failed`: the probe of the
approved mappings, their application, the proposal or the keeping of the audit may
each go wrong (`Troubles`).  A `failed` upload is answered as the unreadable file it
is or with an error, and asks nobody.  An
adjudication proceeds call by call: `ModelFails`, `ModelRambles`,
`ModelAnswers`, where the model may answer about any set of rows of the run.

## What the runs check

**pool_safety** -- three runs, three threads, two option values, cap 2, any
database call may fail, the process may die.  Three runs over two slots are the
least that fill the pool and leave one waiting; a third thread lets a broken
cap show; two option values let a stale read show.  It checks the inductive
invariant `Inv`, which holds the type invariant and `WaitsInOnePlace` and
`RunningNotShownWaiting` among others, and `OneWorkerPerRun`, `ConcurrencyCap`,
`WorkConserving`, `RowsAreOwned`, `OptionsHonoured`, and that the pool
implements `RunLifecycle`, which has no step that touches a done run.

**pool_service** -- one slot, two threads, three runs, under fairness: a queued
run is served (`QueuedIsServed`), a running run ends (`RunningEnds`), and the FIFO
is served in order (`FifoService`).
`QueuedIsServed` excepts a slot that is handed to the retry of its own run:
such a retry goes ahead of the FIFO, and a user who retries for ever starves
the others.

**retention** -- two directories, two requests of every kind, a sweep whose
`on_remove` and whose rename back may fail, crashes; directories and requests
are symmetric.  Leases and stream slots are held by requests in progress and by
them alone, a claim excludes leases and belongs to the sweep, a download that has
begun keeps its workbook (`LeasesAreSound`, which is `TypeOK`, `NothingLeaks`,
`ClaimsAreExclusive` and `StreamsHaveFiles`).  Two action properties say who may
break what: a row is parted from its files only by a rename back that fails, a
crash, or the end of an audited upload whose directory is being swept
(`RowHasFiles`); staged files are left without an owner only by a crash, by a
sweep that gives back what it took after their owner has found nothing to remove,
or by an upload whose preview raises (`StagingIsOwned`).  The last is the code from
`current_meta` to the end of the preview in `_finish_upload`, which is in no `try`
(`UploadBreaks`); an audited upload that raises there keeps its files too, but its
token is released for a retry (`ApplyBreaks`, `ApplyReleases`), so the audit owns
them.  No other end of a request leaves files or parts a row from them.

**token_store** -- four audits, two apply requests, room for two entries: a
payload is in the store exactly while it is staged and a claim is exactly one
continuing request (`StoreIsSound`, which is `TypeOK` and `PayloadsAreOwned`),
the store implements `AuditTicket`, and staged files are reclaimed
(`StagingIsReclaimed`).

**link_cache_alone** -- one lookup at a time, a short and a canonical link: a
success and an author are kept (`CacheIsPermanent`),
TikHub is paid only when the cache asks for it (`LookupsAreSound`, which is
`TypeOK` and `PaysOnlyWhenDue`), a failure past its TTL or asked for again gets a
new answer whatever the breakers skip (`DueIsAskedAgain`), and a breaker that skips
keeps probing (`NeverGivesUp`): together `NothingIsGivenUp`.

**matching** -- every tracker of two rows over two names and a blank, with every
outcome of its links, against every export of two rows over two posts and two
authors; and one row against every export of one or two rows and every pair of
lists. A row of the export may have no post id, no author, or neither. Notes and
authors are symmetric, names are not (the ladder tells them apart). Two rows on
each side are the least with duplicates, siblings and a contradicting name. A
row matches exactly when its note is in the export (`VerdictsAreSound`, which is
`TypeOK` and `MatchIsTheJoin`); an absence rests on an id that is true of the
row, and one more list moves absent bloggers into the perimeter and nothing else
(`AbsenceIsEarned`: `AbsenceNeedsAnId` and `MoreListsMoreMembers`); other names
in the export would give the same verdict or a review (`NamesNeverDecide`); the
reverse audit lists no post that a row tracks (`ExtrasAreUntracked`). The run
stops when every row is judged, so deadlock is not checked. It is everywhere
else, except in `reports`.

**ingest** -- two uploads, one admission slot, one permit, one workbook
offered as both lists and another as the micro list only; cancellation at every await, failures,
audits, removals, one process death.  One slot and one permit make every
request wait for the other.  Slots and permits are held by exactly the requests
and threads at a stage that needs them, a job belongs to a request that
still waits for it, and a request that is answered leaves a directory exactly if it
left a row; one whose preview raises leaves one without (`PermitsAreSound`, which is `TypeOK`, `PermitsAreConserved`
and `NoDetachedWorker`), a cancelled request
becomes no run (`CancellationWins`), a finished run has checked the lists its
preview showed (`RunReadsItsLists`), a default changes only by a
start to a list of that start's run, or by a removal (`PromotionIsEarned`), and
whoever waits gets through (`WaitingEnds`, under fairness).

**accounts** -- two usernames, two addresses, two requests under way, one client
address; usernames, addresses and requests are symmetric.  Two requests are the
least that race for one account or one bucket, two accounts and two addresses the
least that can swap an address.  A link is opened once, somebody administers, and
what requests, links and sessions carry is true of their accounts
(`AccountsAreSound`: `TypeOK`, `LinksOpenOnce`, `SomebodyAdministers`,
`RequestsHold`, `LinksPoint`, `SessionsBind`); every login under way is counted
and no bucket overflows (`AttemptsAreCounted`); who is signed in gave the password
the account has now, or raced with its replacement (`SignInsAreEarned`); a
confirmed address has opened a link that was sent to it (`ConfirmedWasAnswered`);
accounts come to share an address only by a set-up that looked before its await
(`AddressesStayDistinct`).

Two principles the code states are kept only with the exceptions in these
properties.  db.py:233-235 says that the confirmed flag belongs to the address
that was confirmed; but an invitation or a reset link is accepted after the
password has been hashed and confirms whatever address the account has by then,
so an account that moves to another address while such a link is open may carry a
confirmed address nobody has answered from.  The exception is for that address of
that account: it ends with the next change of the address that no such link is open
at, and with the account.  routes.py:323-324 wants an address to
belong to one account; a set-up checks that before it awaits the hash.  Once two
accounts share an address the check finds one of them, whichever row comes first
(db.py:244-249), so it may let either of the two through.  Further,
the second guard of a deletion never decides anything, since the administrator
who deletes is left; and the links of a deleted account survive it, so that they
may open the account of the same name that follows.

**reports** -- seven invariants over finished data.  *Efficiency*: sheets of up to
two posts of ten sorts under both tier modes, and every way to divide 3, 7, 13
and 16 posts among at most nine slices, sixteen being enough for the rounding
errors of several slices to add up (`VerificationPasses`; `FiguresAreFaithful`,
which is `AveragesLieBetween` and `UnitDoesNotMatter`).  *Export*: a sheet of three rows with up to two filled
cells where a block of two columns wants to go, column S filled or not, every
verdict and override (`NothingOverwritten`, `ExportAuditsItself`).  *Mapping*:
answers of up to three columns, some unknown, doubled, empty or outside the sample;
workbooks of one sheet and two rows whose header row holds canonical names in
the wrong places, every acceptable mapping of the columns on offer, and six later
uploads, one of which spells a header in capitals; and two approvals -- of one
layout or two, of the same file or another, for one kind of workbook or two --
with uploads that hold both layouts or one; every later upload also with each
of the troubles
(`FieldsKeepTheirColumns`, which is `ProposalCanBeApproved` and
`MappingIsHonoured`, and `ApprovalIsRemembered`).  *Adjudication*: up
to four rows in chunks of two, any reply (`EveryChunkGetsItsAnswers`, which is
`AnswersStayInTheirRows` and `EveryChunkIsAsked`).  A task ends with its result, so deadlock is not checked.

What these properties except is said in them and worth a reader's notice.  A
sheet without a complete row fails the cross-check of the shares (they add up to
0) and is answered as an internal error.  A mapping of an efficiency workbook is
remembered before the rewritten copy is read: if the analyzer looks at another
sheet, or an earlier row of the sheet holds NAME and POST LINK, the mapping is
applied to every later upload of that layout and refused each time.  An
approved header row without any text is never found again.  A row "looks alike"
letter for letter: `TTL  ENGAGEMENT` with one space fewer is the same header to the
parsers and another layout to the cache, so a person is asked again.  Of several
approvals that look alike in one file, at different rows or sheets, any may be the
one that is applied (in the code: the first from the top); of one row, the last.

### Where the code does not do what is said of it

Three runs find a violation; each checks one sentence of the documentation or of
a docstring.

* **retention_protected**.  README.md:324-326: retention protects "queued,
  running, and pending-audit runs".  `_claim_cleanup` asks `should_remove`
  before it takes the lock and checks only leases again inside it.  A start
  that registers, commits and unregisters in between is not seen, nor is an
  upload that enters its audit after the audits were listed and drops its lease
  before the leases are looked at.  TLC reports the shorter of the two.
* **retention_crash**.  "removal also clears matching run history": the
  directory is renamed before the row is deleted; a crash in between leaves the
  row, and the next sweep removes the renamed directory under a name that no
  row has.
* **link_cache_overlap**.  README.md:28-29: "A resolved `(note_id, author_id)`
  never changes, so successes are cached permanently".  `cache_put` replaces the
  whole row: of two overlapping lookups of one link, a late failure replaces a
  success, and a late note without author clears the author.

Three more are in the model without a run of their own; the passing properties
except the last two by name:

* An override is written by a request that looked its run up a moment before and
  holds no lease, so it can outlive the run (`OverrideWrites` after
  `SweepForgets`), although db.py:141 deletes "an expired run and its dependent
  human overrides".
* Between the parse of the workbooks and the insert of the row nothing catches
  what `current_meta` or the preview raise (routes.py:175-210): the upload ends,
  its lease goes, and the directory stays with no row and no audit until the
  sweep finds it old (`UploadBreaks`, excepted in `StagingIsOwned`), although
  uploads.py:42 means the lease to "protect a staging directory until it has
  durable lifecycle metadata".
* The choice "已匹配（清空S）" "forces a blank column S" (README.md:339-340), but
  the empty text is passed to `ws.cell` as None, which assigns nothing: an S cell
  that was filled in the uploaded file keeps its text while STATUS says it was
  replaced (export.py:129, excepted in `ExportAuditsItself`).  `Put` is openpyxl's
  `cell`, the one fact here that is not in the repository.

### Fairness

A specification with fairness (`FairSpec`) assumes only what the scheduler and
the platform do.  *Run pool*: a request that has begun goes on, a thread that
can run runs and its work ends (every network call and every parse has a time
limit), and a dead process is started again; nobody has to press start, no
thread has to report progress and nothing has to fail.  *Token store*:
time passes, the maintenance loop comes round, a continuation ends.  *Link
cache*: a lookup goes on to its end.  *Ingest*: the body of a request arrives or
fails to, each handler and each worker goes on.  The gate is a threading
semaphore without a queue: a thread that waits may be overtaken by later ones,
so `WaitingEnds` holds because the threads that could overtake it are finitely
many -- the applies and starts of an instance are bounded, as in every finite
history of users.  *Retention*, *Matching* and *Accounts* are specified without
fairness: what is said of them is safety, and the length of an upload, a download
or a comparison is not bounded.

### Bounds

All bounds are constants of the `.cfg` files.  Three modules cut something off.
`Ingest`: `MaxApplies`, `MaxStarts` and `MaxCrashes` bound how often its users
apply and start and the process dies.  `Accounts`: `Budget` bounds the passwords
set, the links issued, the failures counted against addresses and the requests
under way, together (`Room`); four of them suffice for an invitation that is
accepted while another request changes the account's address, and for every
exception above to occur.  `LinkCache`: `MaxFails` is where the breaker's count of
failures in a row stops; the code's has no end, but all it asks of the count is
whether it has reached `TripAfter`, and the bound lies one above that, so that a
probe of a tripped breaker that fails is counted too.  The proofs about the three
hold for every value of the bounds.  Elsewhere the states are finite because the code's own
are (leases are bounded by the requests in progress).  Run identifiers and
directories are not reused, as in the code (`uuid4`); two or three of them let
any two requests meet on one and a third be elsewhere.

## What is proved

The theorems hold for every value of the constants that satisfies the named
assumptions of the module: any sets of runs, threads, directories, handlers,
accounts or links, any limits.  The assumptions say what a configuration is: caps
and slots are positive numbers, the values that stand for "none" are not members
of the sets they are used beside, and what is counted is finite (`Runs` of
`Ingest`, `Handlers`, `Slots`).  For `Ingest` a digest is neither NULL nor a key
of an old release; for `Matching` a link counts as resolved exactly if it gave a
note, and its inputs are sequences of the declared rows.

### RunPoolProofs

For every set of runs, threads and options and every positive cap, from
`RunPoolAssumption` alone:

| Theorem | Statement |
|---|---|
| `InvariantHolds` | `Spec => []Inv` |
| `TypeCorrect` | `TypeOK` |
| `NoDoubleExecution` | `OneWorkerPerRun` |
| `CapHolds` | `ConcurrencyCap` |
| `NoIdleSlotWhileWaiting` | `WorkConserving` |
| `NothingStranded` | `RowsAreOwned`: `QueuedIsOwned` and `RunningIsOwned` |
| `FreshOptions` | `OptionsHonoured` |
| `DoneStays` | `DoneIsFinal` |
| `ServedInOrder` | `FifoService` |
| `PoolImplementsLifecycle` | `Spec => ImplementsLifecycle` |

None of these properties is inductive.  That two workers never meet on one run,
for instance, rests on the fact that a request that has queued a run can find a
worker of that run only in its teardown, and that such a run's row shows the
phase `error`, which is what `start_run` tests; that in turn rests on what the
status column says for every stage of a thread.  `Inv` adds these relations:
`WellFormed`, `LockIsDeferral`, `DownIsEmpty`, `ActiveBounded`,
`ThreadMatchesRow`, `WaitingIsQueued`, `RequestMatchesRow`, `RowConsistent`.
TLC checks `Inv` in `pool_safety`; the proof has one lemma per action, and in
it the conjuncts that the action can disturb.  `WorkerIsAlone` is the lemma the
worker's actions share.  The cap follows from the invariant because `thread`
is an injection from the live threads into `active`.

The refinement maps the columns to the abstract state and the threads marked
running to `executing`; `StepRefines` says that each action is an abstract step
or leaves the abstract state alone, using `Inv` in the unprimed state (a done
row has no thread, a running thread computes with the row's options).

### RetentionProofs

| Theorem | Statement |
|---|---|
| `LeasesAlwaysSound` | `LeasesAreSound` |
| `RowsKeepTheirFiles` | `RowHasFiles` |
| `StagingStaysOwned` | `StagingIsOwned` |

The inductive invariant is `Shape /\ NothingLeaks /\ AuditsFit`.  `Shape` says to
whom a directory belongs at every stage of a request and of the sweep: what a
request may rely on (`Relies`), that staged files have one owner (`OneOwner`), that
an audit nobody applies has no row and no other owner (`AuditsWait`), and what the
sweep holds (`SweepHolds`).  It is needed because a request removes files by a name
it read many steps earlier: that no row stands for them follows only from their
having had one owner ever since.  Leases are counted as the cardinality of the set
of requests that hold one; a step adds one element, removes one, or leaves the set
alone.  The action properties follow from `Shape` by cases over the steps that
rename, remove, or change a row; `StagingStaysOwned` names the one request step,
the preview that raises, after which nobody owns the files.

### IngestProofs

| Theorem | Statement |
|---|---|
| `PermitsAlwaysSound` | `PermitsAreSound` |
| `RunsReadTheirLists` | `RunReadsItsLists` |
| `CancelledNeverRuns` | `CancellationWins` |
| `PromotionsAreEarned` | `PromotionIsEarned` |

`Shape` consists of `Stands` (how a request, its work, its directory, its row and
its worker stand together), `CacheFits` (every hash that is shown or promoted leads
to the rows of its own workbook and kind) and `Lists` (a workbook that was brought
is the list that is shown, from its first parse to the end of the run).  With it
the permits are counted: those inside the admission are the requests at a stage
between `Admit` and the end that did not come back from an audit.  The request that
comes back is why `Stands` has to know that a request at `mapping` was applied: it
passes the same stages without a permit.

### LinkCacheProofs

| Theorem | Statement |
|---|---|
| `AlwaysTyped` | `TypeOK` |
| `PaysWhenDue` | `Spec /\ []NoOverlap => []LookupsAreSound` |
| `KeepsSuccesses` | `Spec /\ []NoOverlap => CacheIsPermanent` |

`NoOverlap` says that no two lookups under way are of one link.  The run
`link_cache_overlap` shows that the promise of a permanent cache is broken when two
are; the theorems show that this is the only way, with any number of resolver
threads over any links.  The invariant relates what a lookup has read to what the
row still says.

### MatchingProofs

| Theorem | Statement |
|---|---|
| `VerdictsAlwaysSound` | `VerdictsAreSound` |
| `AbsenceAlwaysEarned` | `AbsenceIsEarned` |
| `ExtrasAlwaysUntracked` | `ExtrasAreUntracked` |
| `NamesDecideNothing` | `NamesNeverDecide` |

For workbooks of any length, any resolutions, lists and ladder of names.  The
invariant `Progress` says that every verdict that has been given is that of a
function of the input; the properties are then lemmas about this function, whose
core is that the first row of a post exists whenever a row does (`LeastExists`).

### AccountsProofs

| Theorem | Statement |
|---|---|
| `AlwaysSound` | `AccountsAreSound` |
| `AlwaysCounted` | `AttemptsAreCounted` |
| `AlwaysEarned` | `SignInsAreEarned` |
| `AlwaysAnswered` | `ConfirmedWasAnswered` |
| `AlwaysDistinct` | `AddressesStayDistinct` |

The inductive invariant is `AccountsAreSound /\ AttemptsAreCounted /\
ConfirmedWasAnswered`.  `ConfirmedWasAnswered` is not inductive by itself: a set-up
writes back a flag it read before its await, and accepting a link confirms an
address that it did not read at all.  `RequestsHold` says what is still true of the
account when a request goes on, and `LinksPoint` where the open links were sent.
`SessionsBind` does the same for a sign-in whose password is replaced under it.
A login under way stands for one entry of each of its buckets; the proof counts
those logins as a set, so that the limit bounds how many there can be.

### TokenStoreProofs

| Theorem | Statement |
|---|---|
| `AlwaysOwned` | `StoreIsSound`: `TypeOK` and `PayloadsAreOwned` |
| `StoreImplementsTicket` | `Spec => ImplementsTicket` |

`StoreIsSound` is inductive: that a claim is exactly one continuing request and that
the store holds exactly the staged payloads need each other, since a request that
ends removes its entry by the token it claimed.  Eviction needs in addition that an
oldest entry exists, which is why the capacity and the finiteness of the store are
part of `TypeOK`.  The refinement maps a staged payload to an open ticket and the
applying request to its holder.

### ReportsProofs

| Theorem | Statement |
|---|---|
| `ReportsAreNotWithheld` | `VerificationPasses` |
| `FiguresTellOfPosts` | `FiguresAreFaithful`: `AveragesLieBetween` and `UnitDoesNotMatter` |
| `SheetSurvives` | `NothingOverwritten` |
| `ExportIsAuditable` | `ExportAuditsItself` |
| `ColumnsAreKept` | `FieldsKeepTheirColumns`: `ProposalCanBeApproved` and `MappingIsHonoured` |
| `ApprovalIsNotAskedTwice` | `ApprovalIsRemembered` |
| `ChunksAreApart` | `EveryChunkGetsItsAnswers`: `AnswersStayInTheirRows` and `EveryChunkIsAsked` |

The inductive invariant says what each task has come to: `AnalysisOutcome`,
`ExportOutcome`,
`ProposeOutcome` and `MapOutcome`, that the result is the operator of the input, and
`AdjudicationOutcome`, how far the dialogue is, what every chunk has cost so far and
which rows can have been touched (`Settled`).  The rest are lemmas about the
operators for any input:

* *Efficiency*: a sum is a recursive function over the rows, which exists
  (`Recursion`) and adds, scales and compares like one (`SumAdds`, `SumScales`,
  `SumIsMonotone`).  Rows divided among slices add up to the whole
  (`SlicesAddUp`); every rounding is off by half a tenth at most, so together they
  are off by no more than the tolerance (`SharesAddUp`), for any number of posts.
  A total or a mean beyond every cost of its posts would contradict its definition
  (`PooledIsWithin`, `PerPostIsWithin`).  `VerifiedIs` says when exactly a report
  is withheld: when no post is complete.
* *Export*: the block of new columns starts where nothing is (`BlockIsFree`), which
  needs only that a finite set of columns has a greatest element.
* *Header mapping*: renaming makes the approved row a header row, binds each field
  to its column and to no other (`RenamedKeys`), and leaves the other rows as they
  were (`AppliedIsOneRow`); as no row was a header row before, the parsers find the
  approved one (`PlogIsHonoured`, `EffIsHonoured`).  Two header rows have one
  signature exactly if they have the same texts in the sample (`SameSample`).  What is
  remembered after some approvals is, for every layout, the last one of it (`Kept`,
  `OneMoreKept`); so the rows of an upload that find a mapping are those that look
  like an approved one, and what they find was approved last for that row
  (`UploadAsApproved`).
* *Adjudication*: the place of a row among the asked ones is less than their
  number, so each is in one of the chunks (`EveryAskedRowHasAChunk`).

The inputs are those the program can be given.  `AnalysesAssumption`: a sheet is a
sequence of posts with whole numbers in the numeric cells, which may be negative,
and one of the two tier modes (a price in a smaller unit of the currency is a whole
number; the sums of floating-point prices are not modelled).  `NoneAssumption`:
None is neither a number nor a word.  `ExportsAssumption`: the verdicts
are of rows below the header row.  `MappingsAssumption`: a workbook's sheets have
different names, and rows and cells of the sample that the file does not have are
empty ones, as openpyxl reads them; a mapping names a sheet of the workbook and a row of it within the scan (mapper.py
131-136, 205-214 clamp the proposal, and the form only offers the fields of the
registry and the columns of the sample that hold anything, `Offered`).  `HeaderMapAssumption`: the columns a header
row is found by are among those the report requires, and both among the fields;
neither the empty cell nor "(original)" is the name of a field.

Where a theorem would need induction -- a least or greatest element of a set of
naturals, the finiteness of an image, the value of a sum -- it rests on the
well-foundedness and finite-set theorems of the library that take no operator
(`LeastExists`, `GreatestExists`, `FiniteImage`): a set of naturals that holds 0
and with every number the next one holds them all (`Reaches`), since what it
leaves out would have a least element.

### Left to TLC

* Everything under fairness (`QueuedIsServed`, `RunningEnds`, `StagingIsReclaimed`,
  `NothingIsGivenUp`, `WaitingEnds`): liveness and ENABLED are beyond these provers.

## What is not modelled

* Reading of cells, formatting, rendering, translation and the drawing of the
  deck have no control state.
* The throttle's bound of 10 000 buckets, past which the oldest is dropped; the
  sending of mails, the hashing and the signing.
* Database migrations run once, before anything else.
* Efficiency: the findings about rows that are used all the same, the
  concentration of a group and the insights; sums of floating-point prices (the
  model's ratios are exact; the code compares sums with an absolute 1e-6).  Export:
  the audit JSON, and sheets with merged cells where the export writes: writing into
  one raises, and there is no export.  Adjudication: the summary, and a reply that
  answers one row twice (the last answer counts, and both may leave a note).
* Ingest: the counting of body bytes (a refused body is a save that fails), and
  efficiency uploads, which use the same two semaphores and have no run.
* SQLite is a set of atomic calls.  Its busy timeout appears as a call that may
  raise.
* The two external services are an answer or a failure.
* Retention: `export.json` takes and drops a lease as a start does; the byte
  budget and the age only select directories.

## Plan

The modules were written in the order of the table above: the run pool first,
because every result passes through it, then what can lose files and answers,
then the computations.  What is left:

1. *Composition*: `TokenStore` inside `Retention`, whose audits are a set without
   expiry order; the two meet in the callback `cleanup_pending_entry`.
2. *Details*: efficiency uploads in `Ingest`, the concentration caveat, the
   audit JSON.
