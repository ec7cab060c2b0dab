------------------------------- MODULE Ingest -------------------------------
(***************************************************************************)
(* From an upload to the lists a run checks: the admission of uploads and  *)
(* the work gate of app/core/uploads.py, cancellation by the client, the   *)
(* ingest of the perimeter lists by app/reconciler/routes.py, and the      *)
(* app-wide default lists of app/reconciler/perimeter.py that an upload    *)
(* becomes when its run is started.                                        *)
(*                                                                         *)
(* The handlers are coroutines of one event loop: what a handler does      *)
(* between two awaits is one step.  Workbook work runs in threads, one at  *)
(* a time per permit of _workbook_gate, the threads of started runs        *)
(* included.  A run id names the upload, its directory and its row.        *)
(***************************************************************************)
EXTENDS Naturals, FiniteSets

CONSTANTS
  Runs,         (* run ids: one upload request each                        *)
  Files,        (* contents of perimeter workbooks                         *)
  Offers,       (* the pairs of perimeter workbooks an upload may bring    *)
  UploadSlots,  (* config.UPLOAD_REQUEST_CONCURRENCY                       *)
  ParseSlots,   (* config.UPLOAD_PARSE_CONCURRENCY                         *)
  MaxApplies,   (* bound: applies of one pending audit                     *)
  MaxStarts,    (* bound: starts of one run                                *)
  MaxCrashes,   (* bound: restarts of the process                          *)
  NoFile,       (* no workbook uploaded for a kind                         *)
  NoHash,       (* NULL in a hash column, no current list                  *)
  OldHash       (* the key of a row cached before the China filter         *)

Kinds == {"micro", "macro"}
Modes == {"micro", "macro", "both"}

ASSUME IngestAssumption ==
  /\ Offers \subseteq [Kinds -> Files \cup {NoFile}]
  /\ NoFile \notin Files /\ NoHash # OldHash
  /\ NoHash \notin Files \X Kinds /\ OldHash \notin Files \X Kinds
  /\ IsFiniteSet(Runs)
  /\ UploadSlots \in Nat \ {0} /\ ParseSlots \in Nat \ {0}
  /\ MaxApplies \in Nat /\ MaxStarts \in Nat /\ MaxCrashes \in Nat

VARIABLES
  at,         (* where each upload request is                              *)
  job,        (* the work it awaits in run_upload_task                     *)
  cancelled,  (* requests whose client has gone away                       *)
  applies,    (* POST /remap/<token>/apply requests that continued it      *)
  upload,     (* the perimeter workbooks it brought                        *)
  staged,     (* runs with an upload directory                             *)
  admission,  (* value of upload_admission                                 *)
  gate,       (* value of _workbook_gate                                   *)
  status,     (* the row of a run: its status, or "absent"                 *)
  listed,     (* the hashes its preview shows and its row records          *)
  migrated,   (* rows written before perimeter_uploaded existed            *)
  mode,       (* options_json.perimeter_mode                               *)
  thread,     (* the worker thread of a started run                        *)
  used,       (* the lists the worker has loaded                           *)
  cache,      (* perimeter_cache                                           *)
  current,    (* the settings current_perimeter, current_perimeter_macro   *)
  starts, crashes

requestVars == <<at, job, cancelled, applies, upload, staged>>
rowVars     == <<status, mode, thread, used, starts>>
listVars    == <<listed, cache, current>>
vars == <<requestVars, admission, gate, rowVars, listVars, migrated, crashes>>

Stages   == {"absent", "arrived", "saving", "checking", "parsing", "audit",
             "mapping", "ended", "broken", "lost"} \cup Kinds
Awaiting == {"checking", "mapping", "parsing"} \cup Kinds
JobState == {"none", "queued", "working", "ok", "failed", "skipped"}
Status   == {"absent", "pending", "queued", "running", "done", "error"}
Threads  == {"none", "gate", "parsing", "matching"}

(* Seeded bug: the digest of the content alone. *)
HashOfContent(f, k) == <<f, "any">>
(* file_hash: the digest of the content salted with the kind. *)
HashOf(f, k) == <<f, k>>

Hashes == {HashOf(f, k) : f \in Files, k \in Kinds} \cup {OldHash}
(* What a cache row holds: the rows of one sheet, rows parsed before the    *)
(* China filter ("v1"), or there is no row.                                 *)
NoRows  == [file |-> NoFile, sheet |-> "none"]
OldRows == [file |-> NoFile, sheet |-> "v1"]
Parsed  == [file : Files, sheet : Kinds] \cup {NoRows, OldRows}
NoUpload == [k \in Kinds |-> NoFile]
NoList   == [k \in Kinds |-> NoHash]
NoLists  == [k \in Kinds |-> NoRows]
Checked(m) == IF m = "both" THEN Kinds ELSE {m}

Init ==
  /\ migrated \in SUBSET Runs
  /\ at = [q \in Runs |-> "absent"] /\ job = [q \in Runs |-> "none"]
  /\ cancelled = {} /\ staged = migrated
  /\ applies = [q \in Runs |-> 0]
  /\ upload = [q \in Runs |-> NoUpload]
  /\ admission = UploadSlots /\ gate = ParseSlots
  /\ status = [r \in Runs |-> IF r \in migrated THEN "pending" ELSE "absent"]
  /\ listed = [r \in Runs |-> [k \in Kinds |->
                 IF r \in migrated /\ k = "micro" THEN OldHash ELSE NoHash]]
  /\ mode = [r \in Runs |-> "both"]
  /\ thread = [r \in Runs |-> "none"] /\ used = [r \in Runs |-> NoLists]
  /\ cache = [h \in Hashes |-> IF h = OldHash THEN OldRows ELSE NoRows]
  /\ current = NoList
  /\ starts = [r \in Runs |-> 0] /\ crashes = 0

-----------------------------------------------------------------------------
(* Helpers. *)

Goto(q, s)   == at' = [at EXCEPT ![q] = s]
Submit(q)    == job' = [job EXCEPT ![q] = "queued"]
(* The handler has seen the end of its work, or its cancellation. *)
ClearJob(q)  == /\ job' = [job EXCEPT ![q] = "none"]
                /\ cancelled' = cancelled \ {q}

Audited(q)   == applies[q] > 0

(* Seeded bugs: the permit is returned only on a normal return; the apply   *)
(* request returns one as well.                                             *)
LeaveUnlessCancelled(q) ==
  admission' = IF Audited(q) \/ q \in cancelled THEN admission ELSE admission + 1
LeaveAlways(q) == admission' = admission + 1
(* A request that came through the middleware leaves its "async with"; the  *)
(* apply request never entered it.                                          *)
LeaveAdmission(q) == admission' = IF Audited(q) THEN admission ELSE admission + 1

(* Seeded bug: the CancelledError is not raised again. *)
ResumesAnyway(q, outcome) == job[q] = outcome
(* The continuation of an await: cancellation wins over the result. *)
Resumes(q, outcome) == q \notin cancelled /\ job[q] = outcome

(* The loop over the kinds from where the request stands: the kinds still   *)
(* ahead, the next one that brings a workbook, the ones inherited on the    *)
(* way to it from the current defaults.                                     *)
Ahead(s)     == CASE s = "parsing" -> Kinds [] s = "micro" -> {"macro"} [] OTHER -> {}
NextKinds(q) == LET brought == {k \in Ahead(at[q]) : upload[q][k] # NoFile}
                IN  IF "micro" \in brought THEN {"micro"} ELSE brought
Inherited(q) == LET next == NextKinds(q)
                IN  Ahead(at[q]) \ (next \cup UNION {Ahead(k) : k \in next})
(* perim_metas when the loop reaches its next await, or its end. *)
Listed(q) ==
  [k \in Kinds |-> IF k = at[q] THEN HashOf(upload[q][k], k)
                   ELSE IF k \in Inherited(q) THEN current[k] ELSE listed[q][k]]

-----------------------------------------------------------------------------
(* RequestBodyLimitMiddleware and POST /upload. *)

Arrive(q, o) ==
  /\ at[q] = "absent" /\ q \notin migrated
  /\ upload' = [upload EXCEPT ![q] = o]
  /\ Goto(q, "arrived")
  /\ UNCHANGED <<job, cancelled, applies, staged, admission, gate, rowVars,
                 listVars, migrated, crashes>>

(* The body is received, and the directory made, inside the admission.      *)
Admit(q) ==
  /\ at[q] = "arrived" /\ admission > 0
  /\ admission' = admission - 1
  /\ staged' = staged \cup {q}
  /\ Goto(q, "saving")
  /\ UNCHANGED <<job, cancelled, applies, upload, gate, rowVars, listVars,
                 migrated, crashes>>

Saved(q) ==
  /\ at[q] = "saving"
  /\ Goto(q, "checking") /\ Submit(q)
  /\ UNCHANGED <<cancelled, applies, upload, staged, admission, gate, rowVars,
                 listVars, migrated, crashes>>

(* The request is answered without a row: its directory is removed, its     *)
(* permit returned.                                                         *)
Discard(q) ==
  /\ staged' = staged \ {q}
  /\ Goto(q, "ended") /\ ClearJob(q) /\ LeaveAdmission(q)
  /\ upload' = [upload EXCEPT ![q] = NoUpload]
  /\ applies' = [applies EXCEPT ![q] = 0]
  /\ listed' = [listed EXCEPT ![q] = NoList]
  /\ UNCHANGED <<gate, rowVars, cache, current, migrated,
                 crashes>>

(* Too large, or the disk refuses. *)
SaveFails(q) == at[q] = "saving" /\ Discard(q)

-----------------------------------------------------------------------------
(* run_upload_task: the thread of the request's current job. *)

JobStarts(q) ==
  /\ job[q] = "queued" /\ gate > 0 /\ q \notin cancelled
  /\ job' = [job EXCEPT ![q] = "working"]
  /\ gate' = gate - 1
  /\ UNCHANGED <<at, cancelled, applies, upload, staged, admission, rowVars,
                 listVars, migrated, crashes>>

(* Abandoned work is dropped when its turn comes. *)
JobSkipped(q) ==
  /\ job[q] = "queued" /\ gate > 0 /\ q \in cancelled
  /\ job' = [job EXCEPT ![q] = "skipped"]
  /\ UNCHANGED <<at, cancelled, applies, upload, staged, admission, gate, rowVars,
                 listVars, migrated, crashes>>

(* parse_and_cache: a hit keeps the row as it is. *)
CacheAfter(q) ==
  LET h == HashOf(upload[q][at[q]], at[q])
  IN  IF at[q] \in Kinds /\ cache[h] = NoRows
      THEN [cache EXCEPT ![h] = [file |-> upload[q][at[q]], sheet |-> at[q]]]
      ELSE cache

JobEnds(q) ==
  /\ job[q] = "working"
  /\ cache' = CacheAfter(q)
  /\ job' = [job EXCEPT ![q] = "ok"]
  /\ gate' = gate + 1
  /\ UNCHANGED <<at, cancelled, applies, upload, staged, admission, rowVars,
                 listed, current, migrated, crashes>>

JobFails(q) ==
  /\ job[q] = "working"
  /\ job' = [job EXCEPT ![q] = "failed"]
  /\ gate' = gate + 1
  /\ UNCHANGED <<at, cancelled, applies, upload, staged, admission, rowVars,
                 listVars, migrated, crashes>>

(* Seeded bug: the await is not shielded, the request goes at once. *)
CancelDetaches(q) ==
  /\ at[q] \in Awaiting
  /\ staged' = staged \ {q} /\ Goto(q, "ended") /\ LeaveAdmission(q)
  /\ UNCHANGED <<job, cancelled, applies, upload, gate, rowVars, listVars, migrated,
                 crashes>>

(* The client disconnects while the handler is at an await.  A request that *)
(* owns a worker stays until the worker is done.                            *)
Cancel(q) ==
  /\ at[q] \in Awaiting /\ q \notin cancelled
  /\ cancelled' = cancelled \cup {q}
  /\ UNCHANGED <<at, job, applies, upload, staged, admission, gate, rowVars,
                 listVars, migrated, crashes>>

CancelWaiting(q) ==
  /\ at[q] = "arrived"
  /\ Goto(q, "ended")
  /\ upload' = [upload EXCEPT ![q] = NoUpload]
  /\ UNCHANGED <<job, cancelled, applies, staged, admission, gate,
                 rowVars, listVars, migrated, crashes>>

CancelSaving(q) == at[q] = "saving" /\ Discard(q)

-----------------------------------------------------------------------------
(* _process_upload and _finish_upload after an await. *)

Parse(q) ==
  /\ at[q] \in {"checking", "mapping"} /\ Resumes(q, "ok")
  /\ Goto(q, "parsing") /\ Submit(q)
  /\ UNCHANGED <<cancelled, applies, upload, staged, admission, gate, rowVars,
                 listVars, migrated, crashes>>

(* Unfamiliar headers: a human looks at them, the request is over. *)
HandToAudit(q) ==
  /\ at[q] = "checking" /\ Resumes(q, "failed")
  /\ Goto(q, "audit") /\ ClearJob(q) /\ LeaveAdmission(q)
  /\ UNCHANGED <<applies, upload, staged, gate, rowVars, listVars,
                 migrated, crashes>>

IngestNext(q) ==
  /\ at[q] \in {"parsing"} \cup Kinds /\ Resumes(q, "ok")
  /\ \E k \in NextKinds(q) : Goto(q, k)
  /\ Submit(q)
  /\ listed' = [listed EXCEPT ![q] = Listed(q)]
  /\ UNCHANGED <<cancelled, applies, upload, staged, admission, gate, rowVars,
                 cache, current, migrated, crashes>>

(* run_create: the row exists from here on. *)
Commit(q) ==
  /\ at[q] \in {"parsing"} \cup Kinds /\ Resumes(q, "ok") /\ NextKinds(q) = {}
  /\ listed' = [listed EXCEPT ![q] = Listed(q)]
  /\ status' = [status EXCEPT ![q] = "pending"]
  /\ Goto(q, "ended") /\ ClearJob(q) /\ LeaveAdmission(q)
  /\ applies' = [applies EXCEPT ![q] = 0]
  /\ UNCHANGED <<upload, staged, gate, mode, thread, used,
                 starts, cache, current, migrated, crashes>>

(* The page does not render, or the insert fails. *)
CommitFails(q) ==
  /\ at[q] \in {"parsing"} \cup Kinds /\ Resumes(q, "ok") /\ NextKinds(q) = {}
  /\ Discard(q)

(* A current list that cannot be read, or a preview that cannot be          *)
(* computed, raises outside every try: the directory stays.  A direct       *)
(* upload is over ("broken"), with files and no row; the token of an        *)
(* audited one is released for a retry.                                     *)
PreviewRaises(q) ==
  /\ at[q] \in {"parsing"} \cup Kinds /\ Resumes(q, "ok")
  /\ NextKinds(q) = {} \/ Inherited(q) # {}
  /\ Goto(q, IF Audited(q) THEN "audit" ELSE "broken")
  /\ ClearJob(q) /\ LeaveAdmission(q)
  /\ upload' = [upload EXCEPT ![q] = IF Audited(q) THEN @ ELSE NoUpload]
  /\ listed' = [listed EXCEPT ![q] = NoList]
  /\ UNCHANGED <<applies, staged, gate, rowVars, cache, current, migrated, crashes>>

(* Seeded bug: the handler of skipped work waits for a result. *)
StoppedByResult(q) == job[q] = "failed" \/ (q \in cancelled /\ job[q] = "ok")
(* The work failed, or the client went away: whatever the worker made of    *)
(* it, a cancelled request ends like a failed one.                          *)
Stopped(q) == \/ job[q] = "failed"
              \/ q \in cancelled /\ job[q] \in {"ok", "skipped"}
GiveUp(q)  == at[q] \in Awaiting \ {"mapping"} /\ Stopped(q) /\ Discard(q)

-----------------------------------------------------------------------------
(* POST /remap/<token>/apply and reject. *)

Apply(q) ==
  /\ at[q] = "audit" /\ applies[q] < MaxApplies
  /\ applies' = [applies EXCEPT ![q] = @ + 1]
  /\ Goto(q, "mapping") /\ Submit(q)
  /\ UNCHANGED <<cancelled, upload, staged, admission, gate, rowVars, listVars, migrated,
                 crashes>>

(* The remap raised or was cancelled: the token is released for a retry.    *)
MappingStops(q) ==
  /\ at[q] = "mapping" /\ Stopped(q)
  /\ Goto(q, "audit") /\ ClearJob(q)
  /\ UNCHANGED <<applies, upload, staged, admission, gate, rowVars,
                 listVars, migrated, crashes>>

Reject(q) ==
  /\ at[q] = "audit"
  /\ staged' = staged \ {q} /\ Goto(q, "ended")
  /\ upload' = [upload EXCEPT ![q] = NoUpload]
  /\ applies' = [applies EXCEPT ![q] = 0]
  /\ UNCHANGED <<job, cancelled, admission, gate, rowVars,
                 listVars, migrated, crashes>>

-----------------------------------------------------------------------------
(* Starting a run, and the app-wide default lists. *)

(* Seeded bug: an inherited list is promoted as if it were uploaded. *)
MayPromoteAny(r, k) == listed[r][k] # NoHash /\ cache[listed[r][k]] # NoRows
(* Explicit uploads, and a migrated row whose provenance is unknown. *)
MayPromote(r, k) ==
  /\ listed[r][k] # NoHash /\ cache[listed[r][k]] # NoRows
  /\ upload[r][k] # NoFile \/ (r \in migrated /\ k = "micro")

(* Seeded bug: a retry promotes again. *)
PromotedAtEveryStart(r, m) == {k \in Checked(m) : MayPromote(r, k)}
Promoted(r, m) ==
  {k \in Checked(m) : status[r] = "pending" /\ MayPromote(r, k)}

Promote(r, S) == current' = [k \in Kinds |-> IF k \in S THEN listed[r][k] ELSE current[k]]

(* The handler holds the event loop from the commit to the last promotion. *)
Start(r, m) ==
  /\ status[r] \in {"pending", "error"} /\ starts[r] < MaxStarts
  /\ status' = [status EXCEPT ![r] = "queued"]
  /\ mode' = [mode EXCEPT ![r] = m]
  /\ starts' = [starts EXCEPT ![r] = @ + 1]
  /\ Promote(r, Promoted(r, m))
  /\ UNCHANGED <<requestVars, admission, gate, thread, used, listed, cache,
                 migrated, crashes>>

(* POST /perimeter/remove *)
Remove(k) ==
  /\ current' = [current EXCEPT ![k] = NoHash]
  /\ UNCHANGED <<requestVars, admission, gate, rowVars, listed, cache, migrated,
                 crashes>>

-----------------------------------------------------------------------------
(* The worker of a started run (runs.py): both parses, abstracted to one,   *)
(* wait at the same gate; then the lists are loaded.                        *)

Begin(r) ==
  /\ status[r] = "queued"
  /\ status' = [status EXCEPT ![r] = "running"]
  /\ thread' = [thread EXCEPT ![r] = "gate"]
  /\ UNCHANGED <<requestVars, admission, gate, mode, used, starts, listVars,
                 migrated, crashes>>

RunParses(r) ==
  /\ thread[r] = "gate" /\ gate > 0
  /\ thread' = [thread EXCEPT ![r] = "parsing"]
  /\ gate' = gate - 1
  /\ UNCHANGED <<requestVars, admission, status, mode, used, starts, listVars,
                 migrated, crashes>>

(* load_cached of the hash in the row: rows of before the China filter are  *)
(* a miss.                                                                  *)
LoadCached(h) ==
  IF h = NoHash \/ cache[h] = OldRows THEN NoRows ELSE cache[h]

(* Seeded bug: the worker asks for the current default. *)
LoadedFromDefault(r) ==
  [k \in Kinds |-> IF k \in Checked(mode[r]) THEN LoadCached(current[k]) ELSE NoRows]
Loaded(r) ==
  [k \in Kinds |-> IF k \in Checked(mode[r]) THEN LoadCached(listed[r][k]) ELSE NoRows]

RunParsed(r) ==
  /\ thread[r] = "parsing"
  /\ thread' = [thread EXCEPT ![r] = "matching"]
  /\ used' = [used EXCEPT ![r] = Loaded(r)]
  /\ gate' = gate + 1
  /\ UNCHANGED <<requestVars, admission, status, mode, starts, listVars, migrated,
                 crashes>>

RunEnds(r, s) ==
  /\ thread[r] = "matching"
  /\ thread' = [thread EXCEPT ![r] = "none"]
  /\ status' = [status EXCEPT ![r] = s]
  /\ used' = [used EXCEPT ![r] = IF s = "done" THEN @ ELSE NoLists]
  /\ UNCHANGED <<requestVars, admission, gate, mode, starts, listVars,
                 migrated, crashes>>

RunFails(r) ==
  /\ thread[r] = "parsing"
  /\ thread' = [thread EXCEPT ![r] = "none"]
  /\ status' = [status EXCEPT ![r] = "error"]
  /\ gate' = gate + 1
  /\ UNCHANGED <<requestVars, admission, mode, used, starts, listVars, migrated,
                 crashes>>

-----------------------------------------------------------------------------
(* The process dies and comes up again: requests, tokens, threads and       *)
(* semaphores are gone, recover_orphans marks the interrupted rows.         *)

Restart(interrupted) ==
  /\ crashes < MaxCrashes
  /\ crashes' = crashes + 1
  /\ at' = [q \in Runs |-> IF at[q] \in {"absent", "ended", "broken"}
                           THEN at[q] ELSE "lost"]
  /\ job' = [q \in Runs |-> "none"] /\ cancelled' = {}
  /\ applies' = [q \in Runs |-> 0]
  /\ upload' = [q \in Runs |-> IF status[q] = "absent" THEN NoUpload ELSE upload[q]]
  /\ listed' = [q \in Runs |-> IF status[q] = "absent" THEN NoList ELSE listed[q]]
  /\ used' = [r \in Runs |-> IF status[r] = "done" THEN used[r] ELSE NoLists]
  /\ thread' = [r \in Runs |-> "none"]
  /\ status' = [r \in Runs |-> IF r \in interrupted THEN "error" ELSE status[r]]
  /\ admission' = UploadSlots /\ gate' = ParseSlots
  /\ UNCHANGED <<staged, cache, migrated>>

Interrupted == {r \in Runs : status[r] \in {"queued", "running"}}

Crash == Restart(Interrupted) /\ UNCHANGED <<mode, starts, current>>

(* It dies inside the start handler: the row is committed, none, one or all *)
(* of the promotions are.  A later start of the run is a retry.             *)
CrashInStart(r, m) ==
  /\ status[r] \in {"pending", "error"} /\ starts[r] < MaxStarts
  /\ Restart(Interrupted \cup {r})
  /\ mode' = [mode EXCEPT ![r] = m]
  /\ starts' = [starts EXCEPT ![r] = @ + 1]
  /\ \E written \in {{}, {"micro"}, Kinds} : Promote(r, written \cap Promoted(r, m))

-----------------------------------------------------------------------------
Request(q) ==
  \/ Admit(q) \/ Saved(q) \/ SaveFails(q)
  \/ JobStarts(q) \/ JobSkipped(q) \/ JobEnds(q) \/ JobFails(q)
  \/ Parse(q) \/ HandToAudit(q) \/ IngestNext(q) \/ Commit(q) \/ CommitFails(q)
  \/ PreviewRaises(q) \/ GiveUp(q) \/ MappingStops(q)
Client(q) ==
  \/ \E o \in Offers : Arrive(q, o)
  \/ Cancel(q) \/ CancelWaiting(q) \/ CancelSaving(q)
  \/ Apply(q) \/ Reject(q)
  \/ \E m \in Modes : Start(q, m) \/ CrashInStart(q, m)
Worker(r) ==
  \/ Begin(r) \/ RunParses(r) \/ RunParsed(r) \/ RunFails(r)
  \/ \E s \in {"done", "error"} : RunEnds(r, s)

Next ==
  \/ \E r \in Runs : Request(r) \/ Client(r) \/ Worker(r)
  \/ \E k \in Kinds : Remove(k)
  \/ Crash

Spec == Init /\ [][Next]_vars

(* The event loop and the threads make progress, work ends, and a body that *)
(* is being received arrives or fails.  Clients and crashes owe nothing.    *)
Fairness ==
  \A r \in Runs : WF_vars(Request(r)) /\ WF_vars(Worker(r))

FairSpec == Spec /\ Fairness

-----------------------------------------------------------------------------
TypeOK ==
  /\ at \in [Runs -> Stages] /\ job \in [Runs -> JobState]
  /\ cancelled \subseteq Runs 
  /\ staged \subseteq Runs /\ migrated \subseteq Runs
  /\ upload \in [Runs -> [Kinds -> Files \cup {NoFile}]]
  /\ admission \in 0..UploadSlots /\ gate \in 0..ParseSlots
  /\ status \in [Runs -> Status] /\ thread \in [Runs -> Threads]
  /\ mode \in [Runs -> Modes]
  /\ listed \in [Runs -> [Kinds -> Hashes \cup {NoHash}]]
  /\ current \in [Kinds -> Hashes \cup {NoHash}]
  /\ used \in [Runs -> [Kinds -> Parsed]] /\ cache \in [Hashes -> Parsed]
  /\ applies \in [Runs -> 0..MaxApplies] /\ starts \in [Runs -> 0..MaxStarts] /\ crashes \in 0..MaxCrashes

(* No permit is ever lost or given back twice, by whatever mix of failures, *)
(* cancellations, hand-overs to an audit and restarts: upload_admission and *)
(* _workbook_gate are short exactly of the requests inside the admission    *)
(* and of the threads at work (uploads.py 84-86, 215-223).                  *)
PermitsAreConserved ==
  /\ admission + Cardinality({q \in Runs :
                    ~Audited(q) /\ at[q] \in {"saving", "checking", "parsing"} \cup Kinds})
       = UploadSlots
  /\ gate + Cardinality({q \in Runs : job[q] = "working"})
          + Cardinality({r \in Runs : thread[r] = "parsing"})
       = ParseSlots

(* A disconnect does not detach a worker that still owns staging paths      *)
(* (uploads.py 203-205): while a request's work is queued or running its    *)
(* handler is there and its directory too; and a request that has ended     *)
(* leaves a directory behind exactly if it left a row.  Only a preview that *)
(* raises ("broken"), or a process that dies ("lost"), leaves one without.  *)
NoDetachedWorker ==
  \A q \in Runs :
    /\ job[q] # "none" => at[q] \in Awaiting /\ q \in staged
    /\ at[q] = "ended" => (q \in staged <=> status[q] # "absent")

(* Types, permits and workers together. *)
PermitsAreSound == TypeOK /\ PermitsAreConserved /\ NoDetachedWorker

(* A cancelled request starts no more work and never becomes a run          *)
(* (uploads.py 199-213, 219).                                               *)
CancellationWins ==
  [][\A q \in cancelled :
       /\ job'[q] = "working" => job[q] = "working"
       /\ status[q] = "absent" => status'[q] = "absent"]_vars

(* A finished run has checked the lists its preview showed, each parsed     *)
(* from the sheet of its own kind and filtered, and only those its mode     *)
(* asks for -- whatever became of the defaults between preview, start and   *)
(* retry (routes.py 163-197, runs.py 153-173, perimeter.py 95-96).          *)
RunReadsItsLists ==
  \A r \in Runs : status[r] = "done" =>
    \A k \in Kinds :
      used[r][k] =
        IF k \in Checked(mode[r]) /\ upload[r][k] # NoFile
        THEN [file |-> upload[r][k], sheet |-> k]
        ELSE IF k \in Checked(mode[r]) /\ listed[r][k] \notin {NoHash, OldHash}
        THEN [file |-> listed[r][k][1], sheet |-> k]
        ELSE NoRows

(* The app-wide default of a kind changes only when an operator removes it  *)
(* or by the first start of a run that itself brought the list and checks   *)
(* its kind: previews, retries and inherited lists never bring back a list  *)
(* that was removed or replaced (routes.py 459-476).                        *)
PromotionIsEarned ==
  [][\A k \in Kinds : current'[k] \notin {current[k], NoHash} =>
       \E r \in Runs :
         /\ starts[r] = 0 /\ starts'[r] = 1
         /\ current'[k] = listed[r][k] /\ k \in Checked(mode'[r])
         /\ upload[r][k] # NoFile \/ r \in migrated]_vars

(* Everyone who waits for the admission or for the gate gets through: the   *)
(* request ends or waits for a human, the run ends, also when others are    *)
(* cancelled or fail meanwhile (uploads.py 84-86, 199-223).                 *)
InProgress(r) == at[r] \in {"arrived", "saving"} \cup Awaiting \/ thread[r] # "none"
WaitingEnds   == \A r \in Runs : InProgress(r) ~> ~InProgress(r)

=============================================================================
