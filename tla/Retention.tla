----------------------------- MODULE Retention -----------------------------
(***************************************************************************)
(* Who may touch a run's upload directory, and when: the retention sweep   *)
(* of app/main.py and app/core/uploads.py against the request handlers of  *)
(* app/reconciler/routes.py and app/remap/routes.py.                       *)
(*                                                                         *)
(* A run owns one directory, named by its id, and (once its upload parsed) *)
(* one row of the table runs.  Handlers protect the directory with a       *)
(* counted lease (_active_uploads); an upload that waits for a human to    *)
(* audit its headers is protected by its entry in PENDING_MAPS; a queued   *)
(* or running run by its status.  The sweep asks all three, then renames   *)
(* the directory away under _lifecycle_lock, forgets the row, and deletes. *)
(*                                                                         *)
(* The handlers run on the event loop and the sweep in a thread of its     *)
(* own, so a step here is what the sweep can see as one: a database call,  *)
(* a critical section, a file system call.                                 *)
(***************************************************************************)
EXTENDS Naturals, FiniteSets

CONSTANTS
  Dirs,        (* run ids: each names a directory and a row                *)
  Handlers,    (* requests that may be in progress together                *)
  MaxAudits,   (* max_entries of PENDING_MAPS                              *)
  ExportSlots, (* config.EXPORT_STREAM_CONCURRENCY                         *)
  Features,    (* the request kinds and faults an instance lets happen     *)
  NoDir        (* a free handler slot, an idle sweep                       *)

AllFeatures == {"audit", "start", "override", "export", "preview_raises",
                "forget_fails", "restore_fails", "crash"}

ASSUME RetentionAssumption ==
  /\ MaxAudits \in Nat \ {0}
  /\ ExportSlots \in Nat \ {0}
  /\ Features \subseteq AllFeatures
  /\ NoDir \notin Dirs
  /\ IsFiniteSet(Handlers)

VARIABLES
  disk,        (* where the files of each run are                          *)
  row,         (* status column of its row, or "absent"                    *)
  overridden,  (* runs with rows in the table overrides                    *)
  leases,      (* _active_uploads: leases held on each directory           *)
  claims,      (* _cleanup_claims                                          *)
  audits,      (* run directories with an entry in PENDING_MAPS            *)
  auditing,    (* those of them an apply has claimed                       *)
  freeSlots,   (* value of _export_stream_slots                            *)
  handler,     (* the requests in progress                                 *)
  sweep        (* the maintenance thread                                   *)

tables == <<row, overridden>>
locks  == <<leases, claims>>
tokens == <<audits, auditing>>
vars   == <<disk, tables, locks, tokens, freeSlots, handler, sweep>>

(* "none": the id is unused; "trash": renamed to .cleanup-...; "gone":      *)
(* deleted.                                                                 *)
Disk   == {"none", "present", "trash", "gone"}
Row    == {"absent", "pending", "queued", "running", "done", "error"}
Stages == {"idle", "uploading", "previewing", "starting", "checking", "writing", "streaming",
           "leaving", "applying", "continuing", "parsed", "failing", "popping",
           "rejecting", "overriding"}
Steps  == {"idle", "audits", "leases", "row", "claim",
           "forget", "restore", "settle", "remove"}

Free   == [at |-> "idle", dir |-> NoDir]
Asleep == [at |-> "idle", dir |-> NoDir, audit |-> FALSE]

Leasing   == {"uploading", "previewing", "starting", "checking", "writing",
              "streaming", "leaving"}
Exporting == {"checking", "writing", "streaming"}

Init ==
  /\ disk = [d \in Dirs |-> "none"]
  /\ row  = [d \in Dirs |-> "absent"]
  /\ overridden = {}
  /\ leases = [d \in Dirs |-> 0]
  /\ claims = {} /\ audits = {} /\ auditing = {}
  /\ freeSlots = ExportSlots
  /\ handler = [h \in Handlers |-> Free]
  /\ sweep = Asleep

-----------------------------------------------------------------------------
(* Helpers. *)

Idle(h)      == handler[h] = Free
At(h, s)     == handler[h].at = s
Enter(h, d, s) == handler' = [handler EXCEPT ![h] = [at |-> s, dir |-> d]]
Goto(h, s)   == handler' = [handler EXCEPT ![h].at = s]
Leave(h)     == handler' = [handler EXCEPT ![h] = Free]

(* remove_tree of the directories in S: one that was renamed away, or never *)
(* made, is left alone.                                                     *)
RemoveTrees(S) ==
  disk' = [d \in Dirs |-> IF d \in S /\ disk[d] = "present"
                          THEN "gone" ELSE disk[d]]

(* Seeded bug: the first of two overlapping requests to finish drops the    *)
(* lease of both.                                                           *)
UnregisterAll(d) == leases' = [leases EXCEPT ![d] = 0]

(* register_active_upload / unregister_active_upload *)
Register(d)   == /\ d \notin claims
                 /\ leases' = [leases EXCEPT ![d] = @ + 1]
Unregister(d) == leases' = [leases EXCEPT ![d] = IF @ > 0 THEN @ - 1 ELSE 0]

(* db.run_update: no row, no effect. *)
SetStatus(d, s) == row' = [row EXCEPT ![d] = IF @ = "absent" THEN @ ELSE s]

-----------------------------------------------------------------------------
(* POST /upload.  The directory name is a fresh uuid. *)

UploadBegin(h, d) ==
  /\ Idle(h) /\ disk[d] = "none"
  /\ Register(d)
  /\ disk' = [disk EXCEPT ![d] = "present"]
  /\ Enter(h, d, "uploading")
  /\ UNCHANGED <<tables, claims, tokens, freeSlots, sweep>>

(* Seeded bug: an error path forgets the staging directory. *)
UploadFailsKeeping(h) ==
  /\ At(h, "uploading")
  /\ Goto(h, "leaving")
  /\ UNCHANGED <<disk, tables, locks, tokens, freeSlots, sweep>>

(* Too large, unreadable, unmappable, cancelled, the token store busy, a    *)
(* list that does not parse, the insert failed: every error path that is    *)
(* handled removes the staging directory.                                   *)
UploadFails(h) ==
  /\ At(h, "uploading") \/ At(h, "previewing")
  /\ RemoveTrees({handler[h].dir})
  /\ Goto(h, "leaving")
  /\ UNCHANGED <<tables, locks, tokens, freeSlots, sweep>>

(* _finish_upload: both workbooks parse ... *)
UploadParses(h) ==
  /\ At(h, "uploading")
  /\ Goto(h, "previewing")
  /\ UNCHANGED <<disk, tables, locks, tokens, freeSlots, sweep>>

(* ... and the current list cannot be read, or the preview not be computed: *)
(* that code is in no try, so nothing removes the directory.                *)
UploadBreaks(h) ==
  /\ "preview_raises" \in Features
  /\ At(h, "previewing")
  /\ Goto(h, "leaving")
  /\ UNCHANGED <<disk, tables, locks, tokens, freeSlots, sweep>>

(* The row is inserted. *)
UploadCommits(h) ==
  /\ At(h, "previewing")
  /\ row' = [row EXCEPT ![handler[h].dir] = "pending"]
  /\ Goto(h, "leaving")
  /\ UNCHANGED <<disk, overridden, locks, tokens, freeSlots, sweep>>

(* Seeded bug: the store evicts one entry too late. *)
UploadAwaitsAuditOverCap(h, evicted) ==
  /\ "audit" \in Features
  /\ At(h, "uploading")
  /\ evicted \subseteq audits \ auditing
  /\ Cardinality(evicted) = (IF Cardinality(audits) <= MaxAudits THEN 0 ELSE 1)
  /\ audits' = (audits \ evicted) \cup {handler[h].dir}
  /\ RemoveTrees(evicted)
  /\ Goto(h, "leaving")
  /\ UNCHANGED <<tables, locks, auditing, freeSlots, sweep>>

(* Unfamiliar headers: the entry waits in PENDING_MAPS for its auditor.  A  *)
(* full store drops an unclaimed entry (evicted) and its directory; with    *)
(* every entry claimed it refuses, which is UploadFails.                    *)
UploadAwaitsAudit(h, evicted) ==
  /\ "audit" \in Features
  /\ At(h, "uploading")
  /\ evicted \subseteq audits \ auditing
  /\ Cardinality(evicted) = (IF Cardinality(audits) < MaxAudits THEN 0 ELSE 1)
  /\ audits' = (audits \ evicted) \cup {handler[h].dir}
  /\ RemoveTrees(evicted)
  /\ Goto(h, "leaving")
  /\ UNCHANGED <<tables, locks, auditing, freeSlots, sweep>>

(* The finally block of a handler that holds a lease. *)
DropLease(h) ==
  /\ At(h, "leaving")
  /\ Unregister(handler[h].dir)
  /\ Leave(h)
  /\ UNCHANGED <<disk, tables, claims, tokens, freeSlots, sweep>>

-----------------------------------------------------------------------------
(* POST /remap/{token}/apply and /reject, and expiry of the token. *)

ApplyBegin(h, d) ==
  /\ Idle(h) /\ d \in audits \ auditing
  /\ auditing' = auditing \cup {d}
  /\ Enter(h, d, "applying")
  /\ UNCHANGED <<disk, tables, locks, audits, freeSlots, sweep>>

(* The remapped copies are written next to the originals. *)
ApplyRemaps(h) ==
  /\ At(h, "applying") /\ disk[handler[h].dir] = "present"
  /\ Goto(h, "continuing")
  /\ UNCHANGED <<disk, tables, locks, tokens, freeSlots, sweep>>

(* Cancelled, or the files cannot be read or written: nothing is removed. *)
RemapRaises(h) ==
  /\ At(h, "applying")
  /\ Goto(h, "failing")
  /\ UNCHANGED <<disk, tables, locks, tokens, freeSlots, sweep>>

(* _finish_upload: both workbooks parse ... *)
ApplyParses(h) ==
  /\ At(h, "continuing") /\ disk[handler[h].dir] = "present"
  /\ Goto(h, "parsed")
  /\ UNCHANGED <<disk, tables, locks, tokens, freeSlots, sweep>>

(* ... or they or a perimeter do not, and it answers an error page: staging *)
(* removed, token consumed.                                                 *)
ApplyRejects(h) ==
  /\ At(h, "continuing") \/ At(h, "parsed")
  /\ RemoveTrees({handler[h].dir})
  /\ Goto(h, "popping")
  /\ UNCHANGED <<tables, locks, tokens, freeSlots, sweep>>

ApplyCommits(h) ==
  /\ At(h, "parsed")
  /\ row' = [row EXCEPT ![handler[h].dir] = "pending"]
  /\ Goto(h, "popping")
  /\ UNCHANGED <<disk, overridden, locks, tokens, freeSlots, sweep>>

(* The current list or the preview raises, as in UploadBreaks. *)
ApplyBreaks(h) ==
  /\ "preview_raises" \in Features
  /\ At(h, "parsed")
  /\ Goto(h, "failing")
  /\ UNCHANGED <<disk, tables, locks, tokens, freeSlots, sweep>>

(* The insert raises, or the request is cancelled where _finish_upload      *)
(* parses or inserts.                                                       *)
ApplyRaises(h) ==
  /\ At(h, "continuing") \/ At(h, "parsed")
  /\ RemoveTrees({handler[h].dir})
  /\ Goto(h, "failing")
  /\ UNCHANGED <<tables, locks, tokens, freeSlots, sweep>>

(* except BaseException: a token whose directory survived is released for a *)
(* retry; release discards it when it expired meanwhile.                    *)
ApplyReleases(h, expired) ==
  LET d == handler[h].dir IN
  /\ At(h, "failing") /\ disk[d] = "present"
  /\ auditing' = auditing \ {d}
  /\ IF expired THEN audits' = audits \ {d} /\ RemoveTrees({d})
                ELSE UNCHANGED <<audits, disk>>
  /\ Leave(h)
  /\ UNCHANGED <<tables, locks, freeSlots, sweep>>

Pop(d) == audits' = audits \ {d} /\ auditing' = auditing \ {d}

ApplyPops(h) ==
  LET d == handler[h].dir IN
  /\ \/ At(h, "popping")
     \/ At(h, "failing") /\ disk[d] # "present"
  /\ Pop(d)
  /\ Leave(h)
  /\ UNCHANGED <<disk, tables, locks, freeSlots, sweep>>

(* reject claims and pops, then removes the staging directory. *)
RejectPops(h, d) ==
  /\ Idle(h) /\ d \in audits \ auditing
  /\ Pop(d)
  /\ Enter(h, d, "rejecting")
  /\ UNCHANGED <<disk, tables, locks, freeSlots, sweep>>

RejectRemoves(h) ==
  /\ At(h, "rejecting")
  /\ RemoveTrees({handler[h].dir})
  /\ Leave(h)
  /\ UNCHANGED <<tables, locks, tokens, freeSlots, sweep>>

Expire(d) ==
  /\ d \in audits \ auditing
  /\ audits' = audits \ {d}
  /\ RemoveTrees({d})
  /\ UNCHANGED <<tables, locks, auditing, freeSlots, handler, sweep>>

-----------------------------------------------------------------------------
(* POST /runs/{id}/start, and the run itself (in detail in RunPool). *)

StartBegin(h, d) ==
  /\ "start" \in Features
  /\ Idle(h) /\ disk[d] # "none"
  /\ Register(d)
  /\ Enter(h, d, "starting")
  /\ UNCHANGED <<disk, tables, claims, tokens, freeSlots, sweep>>

StartQueues(h) ==
  /\ At(h, "starting")
  /\ IF row[handler[h].dir] \in {"pending", "error"}
       THEN SetStatus(handler[h].dir, "queued")
       ELSE UNCHANGED row
  /\ Goto(h, "leaving")
  /\ UNCHANGED <<disk, overridden, locks, tokens, freeSlots, sweep>>

WorkerStep(d, from, to) ==
  /\ row[d] = from
  /\ SetStatus(d, to)
  /\ UNCHANGED <<disk, overridden, locks, tokens, freeSlots, handler, sweep>>

-----------------------------------------------------------------------------
(* GET /runs/{id}/export.xlsx: a slot and a lease, both kept until the last *)
(* byte is streamed.                                                        *)

ExportBegin(h, d) ==
  /\ "export" \in Features
  /\ Idle(h) /\ disk[d] # "none"
  /\ freeSlots > 0
  /\ Register(d)
  /\ freeSlots' = freeSlots - 1
  /\ Enter(h, d, "checking")
  /\ UNCHANGED <<disk, tables, claims, tokens, sweep>>

ExportFindsRun(h) ==
  /\ At(h, "checking") /\ row[handler[h].dir] = "done"
  /\ Goto(h, "writing")
  /\ UNCHANGED <<disk, tables, locks, tokens, freeSlots, sweep>>

(* The annotated copy of the tracker is written next to it. *)
ExportStreams(h) ==
  /\ At(h, "writing") /\ disk[handler[h].dir] = "present"
  /\ Goto(h, "streaming")
  /\ UNCHANGED <<disk, tables, locks, tokens, freeSlots, sweep>>

(* Not finished (404), failed, cancelled, or streamed to the end. *)
ExportEnds(h) ==
  /\ handler[h].at \in Exporting
  /\ Unregister(handler[h].dir)
  /\ freeSlots' = freeSlots + 1
  /\ Leave(h)
  /\ UNCHANGED <<disk, tables, claims, tokens, sweep>>

(* POST /runs/{id}/override looks the run up, then writes; it has no lease. *)
OverrideBegin(h, d) ==
  /\ "override" \in Features
  /\ Idle(h) /\ row[d] # "absent"
  /\ Enter(h, d, "overriding")
  /\ UNCHANGED <<disk, tables, locks, tokens, freeSlots, sweep>>

OverrideWrites(h) ==
  /\ At(h, "overriding")
  /\ overridden' = overridden \cup {handler[h].dir}
  /\ Leave(h)
  /\ UNCHANGED <<disk, row, locks, tokens, freeSlots, sweep>>

-----------------------------------------------------------------------------
(* _cleanup_uploads.  Any directory may be too old or over the budget. *)

SweepTo(s) == sweep' = [sweep EXCEPT !.at = s]
Protected(yes, next) == IF yes THEN sweep' = Asleep ELSE SweepTo(next)

SweepPicks(d) ==
  /\ sweep = Asleep /\ disk[d] \in {"present", "gone"}
  /\ sweep' = [Asleep EXCEPT !.at = "audits", !.dir = d]
  /\ UNCHANGED <<disk, tables, locks, tokens, freeSlots, handler>>

(* removable(): the pending audits, then the leases, then the row. *)
SweepReadsAudits ==
  /\ sweep.at = "audits"
  /\ sweep' = [sweep EXCEPT !.at = "leases", !.audit = sweep.dir \in audits]
  /\ UNCHANGED <<disk, tables, locks, tokens, freeSlots, handler>>

SweepReadsLeases ==
  /\ sweep.at = "leases"
  /\ Protected(leases[sweep.dir] > 0 \/ sweep.audit, "row")
  /\ UNCHANGED <<disk, tables, locks, tokens, freeSlots, handler>>

SweepReadsRow ==
  /\ sweep.at = "row"
  /\ Protected(row[sweep.dir] \in {"queued", "running"}, "claim")
  /\ UNCHANGED <<disk, tables, locks, tokens, freeSlots, handler>>

(* Seeded bug: the leases are not checked again under the lock. *)
ClaimableUnleased(d) == disk[d] = "present" /\ d \notin claims

(* _claim_cleanup, under the lock. *)
Claimable(d) == disk[d] = "present" /\ leases[d] = 0 /\ d \notin claims

SweepClaims ==
  LET d == sweep.dir IN
  /\ sweep.at = "claim"
  /\ IF Claimable(d)
       THEN /\ disk' = [disk EXCEPT ![d] = "trash"]
            /\ claims' = claims \cup {d}
            /\ SweepTo("forget")
       ELSE UNCHANGED <<disk, claims>> /\ sweep' = Asleep
  /\ UNCHANGED <<tables, leases, tokens, freeSlots, handler>>

(* forget_run: overrides and row go in one transaction. *)
SweepForgets ==
  /\ sweep.at = "forget"
  /\ row' = [row EXCEPT ![sweep.dir] = "absent"]
  /\ overridden' = overridden \ {sweep.dir}
  /\ SweepTo("settle")
  /\ UNCHANGED <<disk, locks, tokens, freeSlots, handler>>

ForgetFails ==
  /\ "forget_fails" \in Features
  /\ sweep.at = "forget"
  /\ SweepTo("restore")
  /\ UNCHANGED <<disk, tables, locks, tokens, freeSlots, handler>>

(* Seeded bugs: the claim of a finished sweep is kept; files whose row      *)
(* could not be forgotten stay in the trash.                                *)
SweepSettlesHolding ==
  /\ sweep.at = "settle"
  /\ SweepTo("remove")
  /\ UNCHANGED <<disk, tables, locks, tokens, freeSlots, handler>>

SweepRestoresNothing(renamed) ==
  /\ sweep.at = "restore" /\ renamed
  /\ claims' = claims \ {sweep.dir}
  /\ sweep' = Asleep
  /\ UNCHANGED <<disk, tables, leases, tokens, freeSlots, handler>>

(* _complete_cleanup_claim: give the claim back, and the files when the row *)
(* could not be forgotten (the rename back is best effort).                 *)
SweepSettles ==
  /\ sweep.at = "settle"
  /\ claims' = claims \ {sweep.dir}
  /\ SweepTo("remove")
  /\ UNCHANGED <<disk, tables, leases, tokens, freeSlots, handler>>

SweepRestores(renamed) ==
  /\ sweep.at = "restore"
  /\ renamed \/ "restore_fails" \in Features
  /\ disk' = [disk EXCEPT ![sweep.dir] = IF renamed THEN "present" ELSE @]
  /\ claims' = claims \ {sweep.dir}
  /\ sweep' = Asleep
  /\ UNCHANGED <<tables, leases, tokens, freeSlots, handler>>

SweepRemoves ==
  /\ sweep.at = "remove"
  /\ disk' = [disk EXCEPT ![sweep.dir] = "gone"]
  /\ sweep' = Asleep
  /\ UNCHANGED <<tables, locks, tokens, freeSlots, handler>>

(* A .cleanup- directory an earlier sweep or process left is an old         *)
(* directory like any other, but its name matches no lease and no row.      *)
SweepLeftover(d) ==
  /\ sweep = Asleep /\ disk[d] = "trash"
  /\ disk' = [disk EXCEPT ![d] = "gone"]
  /\ UNCHANGED <<tables, locks, tokens, freeSlots, handler, sweep>>

(* The process dies and comes back: memory is lost, recover_orphans closes  *)
(* the runs it left unfinished.                                             *)
Crash ==
  /\ "crash" \in Features
  /\ row' = [d \in Dirs |-> IF row[d] \in {"queued", "running"}
                            THEN "error" ELSE row[d]]
  /\ leases' = [d \in Dirs |-> 0]
  /\ claims' = {} /\ audits' = {} /\ auditing' = {}
  /\ freeSlots' = ExportSlots
  /\ handler' = [h \in Handlers |-> Free]
  /\ sweep' = Asleep
  /\ UNCHANGED <<disk, overridden>>

-----------------------------------------------------------------------------
SweepNext ==
  \/ SweepReadsAudits \/ SweepReadsLeases \/ SweepReadsRow \/ SweepClaims
  \/ SweepForgets \/ ForgetFails \/ SweepSettles
  \/ \E renamed \in BOOLEAN : SweepRestores(renamed)
  \/ SweepRemoves

Next ==
  \/ \E h \in Handlers, d \in Dirs :
       \/ UploadBegin(h, d) \/ ApplyBegin(h, d) \/ RejectPops(h, d)
       \/ StartBegin(h, d) \/ ExportBegin(h, d) \/ OverrideBegin(h, d)
  \/ \E h \in Handlers :
       \/ UploadFails(h) \/ UploadParses(h) \/ UploadBreaks(h) \/ UploadCommits(h)
       \/ DropLease(h)
       \/ \E evicted \in SUBSET audits : UploadAwaitsAudit(h, evicted)
       \/ ApplyRemaps(h) \/ RemapRaises(h) \/ ApplyParses(h)
       \/ ApplyRejects(h) \/ ApplyCommits(h) \/ ApplyRaises(h) \/ ApplyBreaks(h)
       \/ ApplyPops(h)
       \/ \E expired \in BOOLEAN : ApplyReleases(h, expired)
       \/ RejectRemoves(h) \/ StartQueues(h)
       \/ ExportFindsRun(h) \/ ExportStreams(h) \/ ExportEnds(h) \/ OverrideWrites(h)
  \/ \E d \in Dirs :
       \/ Expire(d) \/ SweepPicks(d) \/ SweepLeftover(d)
       \/ WorkerStep(d, "queued", "running")
       \/ WorkerStep(d, "running", "done")
       \/ \E s \in {"queued", "running"} : WorkerStep(d, s, "error")
  \/ SweepNext
  \/ Crash

Spec == Init /\ [][Next]_vars

-----------------------------------------------------------------------------
HandlerState == [at : Stages, dir : Dirs \cup {NoDir}]
SweepState   == [at : Steps, dir : Dirs \cup {NoDir}, audit : BOOLEAN]

TypeOK ==
  /\ disk \in [Dirs -> Disk] /\ row \in [Dirs -> Row]
  /\ overridden \subseteq Dirs
  /\ leases \in [Dirs -> 0..Cardinality(Handlers)]
  /\ claims \subseteq Dirs
  /\ audits \subseteq Dirs /\ auditing \subseteq audits
  /\ Cardinality(audits) <= MaxAudits
  /\ freeSlots \in 0..ExportSlots
  /\ handler \in [Handlers -> HandlerState]
  /\ sweep \in SweepState

Holders(d) == {h \in Handlers : handler[h].dir = d /\ handler[h].at \in Leasing}
Exports    == {h \in Handlers : handler[h].at \in Exporting}

(* Every lease and every stream slot is held by a request in progress and   *)
(* by it alone, whichever way requests for one directory overlap and end.   *)
NothingLeaks ==
  /\ \A d \in Dirs : leases[d] = Cardinality(Holders(d))
  /\ freeSlots + Cardinality(Exports) = ExportSlots

(* A claim on a directory belongs to the sweep that is working on it, and   *)
(* is not there together with a lease: a claim left behind would answer 404 *)
(* for that run for ever.                                                   *)
ClaimsAreExclusive ==
  \A d \in claims : /\ sweep.dir = d
                    /\ sweep.at \in {"forget", "restore", "settle"}
                    /\ leases[d] = 0

(* An export that found its run done has the workbook until the last byte.  *)
StreamsHaveFiles ==
  \A h \in Handlers : At(h, "streaming") => disk[handler[h].dir] = "present"

(* A lease is worth what it says: nothing takes or leaks one, no claim is   *)
(* there beside one, and what a response streams stays (uploads.py 60-160). *)
LeasesAreSound ==
  TypeOK /\ NothingLeaks /\ ClaimsAreExclusive /\ StreamsHaveFiles

(* A row has its files, or the sweep is about to forget it.  Three things   *)
(* part the two: a rename back that fails, of files whose row could not be  *)
(* forgotten; a crash before it is; and an audited upload that parses while *)
(* its directory is taken, since no lease and no status protects it then.   *)
(* No other request does, whenever it comes.                                *)
Stranded(d) ==
  /\ row[d] # "absent" /\ disk[d] # "present"
  /\ ~(disk[d] = "trash" /\ sweep.dir = d /\ sweep.at \in {"forget", "restore"})

RowHasFiles ==
  [][\A d \in Dirs : Stranded(d)' =>
       \/ Stranded(d) \/ SweepRestores(FALSE) \/ Crash
       \/ \E h \in Handlers : ApplyCommits(h)]_vars

(* Staged files without a row are somebody's: a handler's that will commit  *)
(* or remove them, or those of a pending audit, which keeps them through a  *)
(* continuation that raises.  Three things leave some to a later sweep: a   *)
(* crash; a sweep that gives back what it took when their owner has found   *)
(* nothing to remove; and an upload whose preview raises outside every try. *)
(* No other end of a request does, in whatever order requests overlap.      *)
Abandoned(d) ==
  /\ disk[d] = "present" /\ row[d] = "absent"
  /\ d \in audits => \E h \in Handlers : At(h, "popping") /\ handler[h].dir = d
  /\ \A h \in Handlers : handler[h].dir = d
       => handler[h].at \notin {"uploading", "previewing", "rejecting"}

StagingIsOwned ==
  [][\A d \in Dirs : Abandoned(d)' =>
       \/ Abandoned(d) \/ SweepRestores(TRUE) \/ Crash
       \/ \E h \in Handlers : UploadBreaks(h) /\ handler[h].dir = d]_vars

-----------------------------------------------------------------------------
(* What README.md and a docstring promise and the code does not keep. *)

(* README.md:324-326: retention protects queued, running and pending-audit  *)
(* runs.  A start may queue a run, and an upload enter its audit, between   *)
(* what removable() reads and the claim.                                    *)
ProtectedRunsKept ==
  \A d \in Dirs : row[d] \in {"queued", "running"} \/ d \in audits \ auditing
    => disk[d] = "present"

(* README.md:326: removal also clears matching run history.                 *)
RemovalClearsHistory == \A d \in Dirs : disk[d] = "gone" => row[d] = "absent"
=============================================================================
