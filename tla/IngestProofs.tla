---------------------------- MODULE IngestProofs ----------------------------
(***************************************************************************)
(* Proofs about Ingest, for any uploads, any number of permits and any     *)
(* bounds on applies, starts and crashes.  The inductive invariant says    *)
(* how a request, its work, its directory and its row stand together       *)
(* (Stands), which rows of the cache the hashes that are shown lead to     *)
(* (Lists), and that the permits are counted right.                        *)
(***************************************************************************)
EXTENDS Ingest, FiniteSetTheorems, TLAPS

USE IngestAssumption

Types ==
  /\ at \in [Runs -> Stages] /\ job \in [Runs -> JobState]
  /\ cancelled \subseteq Runs /\ staged \subseteq Runs /\ migrated \subseteq Runs
  /\ upload \in [Runs -> [Kinds -> Files \cup {NoFile}]]
  /\ admission \in Nat /\ gate \in Nat
  /\ status \in [Runs -> Status] /\ thread \in [Runs -> Threads]
  /\ mode \in [Runs -> Modes]
  /\ listed \in [Runs -> [Kinds -> Hashes \cup {NoHash}]]
  /\ current \in [Kinds -> Hashes \cup {NoHash}]
  /\ used \in [Runs -> [Kinds -> Parsed]] /\ cache \in [Hashes -> Parsed]
  /\ applies \in [Runs -> 0..MaxApplies] /\ starts \in [Runs -> 0..MaxStarts]
  /\ crashes \in 0..MaxCrashes

(* How a request, its work, its directory, its row and its worker stand.    *)
Stands(q) ==
  /\ job[q] # "none" <=> at[q] \in Awaiting
  /\ q \in cancelled => at[q] \in Awaiting
  /\ at[q] \in {"saving", "audit"} \cup Awaiting => q \in staged
  /\ at[q] = "ended" => (q \in staged <=> status[q] # "absent")
  /\ q \in migrated => at[q] = "absent" /\ status[q] # "absent"
  /\ status[q] # "absent" => at[q] = "ended" \/ q \in migrated
  /\ at[q] \in {"absent", "arrived"} => applies[q] = 0 /\ (q \in staged <=> q \in migrated)
  /\ at[q] = "mapping" => applies[q] > 0
  /\ thread[q] # "none" <=> status[q] = "running"
  /\ status[q] \in {"absent", "pending"} => starts[q] = 0

(* A hash that may be shown: none, an old one, or one whose rows are there. *)
Good(rows, h, k) ==
  \/ h \in {NoHash, OldHash}
  \/ \E f \in Files : h = HashOf(f, k) /\ rows[h] = [file |-> f, sheet |-> k]

CacheFits ==
  /\ \A f \in Files, k \in Kinds :
       cache[HashOf(f, k)] \in {NoRows, [file |-> f, sheet |-> k]}
  /\ cache[OldHash] = OldRows
  /\ \A k \in Kinds : Good(cache, current[k], k)
  /\ \A q \in Runs, k \in Kinds : Good(cache, listed[q][k], k)

Brought(q, k) == upload[q][k] # NoFile => listed[q][k] = HashOf(upload[q][k], k)

(* What a run is to check. *)
Shown(q) ==
  [k \in Kinds |->
     IF k \notin Checked(mode[q]) \/ listed[q][k] \in {NoHash, OldHash} THEN NoRows
     ELSE [file |-> listed[q][k][1], sheet |-> k]]

Lists(q) ==
  /\ at[q] \in Kinds =>
       /\ upload[q][at[q]] # NoFile
       /\ job[q] = "ok" => cache[HashOf(upload[q][at[q]], at[q])] # NoRows
  /\ at[q] = "macro" => Brought(q, "micro")
  /\ status[q] # "absent" => Brought(q, "micro") /\ Brought(q, "macro")
  /\ thread[q] = "matching" \/ status[q] = "done" => used[q] = Shown(q)

Sound == \A q \in Runs : Stands(q) /\ Lists(q)

Shape == Types /\ CacheFits /\ Sound

(* The request's end without a row, from wherever it was.                   *)
Ends(q) ==
  /\ Discard(q)
  /\ at[q] \in ({"saving"} \cup Awaiting) \ {"mapping"} /\ job[q] # "working"

(* The first start of run r makes its list the default of kind k.           *)
Earned(r, k) ==
  /\ starts[r] = 0 /\ starts'[r] = 1
  /\ current'[k] = listed[r][k] /\ k \in Checked(mode'[r])
  /\ upload[r][k] # NoFile \/ r \in migrated

Defaults ==
  /\ current' \in [Kinds -> Hashes \cup {NoHash}]
  /\ \A k \in Kinds : current'[k] = current[k] \/ \E r \in Runs : Earned(r, k)

(* A restart, the runs in I interrupted, one of them perhaps in its start.  *)
Dies(I) ==
  /\ Restart(I) /\ Defaults
  /\ Interrupted \subseteq I
  /\ \A r \in I : status[r] \in Status \ {"absent", "done"}
  /\ mode' \in [Runs -> Modes] /\ starts' \in [Runs -> 0..MaxStarts]
  /\ \A r \in Runs \ I : mode'[r] = mode[r] /\ starts'[r] = starts[r]

Step(q) ==
  \/ Admit(q) \/ Saved(q) \/ JobStarts(q) \/ JobSkipped(q) \/ JobEnds(q) \/ JobFails(q)
  \/ Parse(q) \/ HandToAudit(q) \/ IngestNext(q) \/ Commit(q) \/ PreviewRaises(q)
  \/ MappingStops(q) \/ Cancel(q) \/ CancelWaiting(q) \/ Apply(q) \/ Reject(q) \/ Begin(q) \/ RunParses(q) \/ RunParsed(q)
  \/ RunFails(q) \/ Ends(q)
  \/ \E o \in Offers : Arrive(q, o)
  \/ \E m \in Modes : Start(q, m)
  \/ \E s \in {"done", "error"} : RunEnds(q, s)

-----------------------------------------------------------------------------
(* What a start does to the defaults.                                       *)
LEMMA StartEarns ==
  ASSUME Types, Sound, NEW r \in Runs, NEW m \in Modes,
         status[r] \in {"pending", "error"}, NEW S \in SUBSET Promoted(r, m),
         starts' = [starts EXCEPT ![r] = @ + 1], mode' = [mode EXCEPT ![r] = m],
         Promote(r, S)
  PROVE  Defaults
<1>1. starts'[r] = starts[r] + 1 /\ mode'[r] = m
  BY DEF Types
<1>2. current' \in [Kinds -> Hashes \cup {NoHash}]
  BY DEF Types, Promote
<1>3. ASSUME NEW k \in Kinds, k \in S PROVE Earned(r, k)
  <2>1. k \in Checked(m) /\ status[r] = "pending" /\ MayPromote(r, k)
    BY <1>3 DEF Promoted
  <2>2. starts[r] = 0
    BY <2>1 DEF Sound, Stands
  <2>3. current'[k] = listed[r][k]
    BY <1>3 DEF Promote
  <2> QED BY <1>1, <2>1, <2>2, <2>3 DEF Earned, MayPromote
<1>4. ASSUME NEW k \in Kinds, k \notin S PROVE current'[k] = current[k]
  BY <1>4 DEF Promote
<1> QED BY <1>2, <1>3, <1>4 DEF Defaults

(* Every step is one of a request or a run, an operator's or a crash.       *)
LEMMA NextCases ==
  ASSUME Types, Sound, Next
  PROVE  \/ \E q \in Runs : Step(q)
         \/ \E k \in Kinds : Remove(k)
         \/ \E I \in SUBSET Runs : Dies(I)
<1>1. ASSUME NEW q \in Runs, SaveFails(q) \/ CancelSaving(q) \/ CommitFails(q) \/ GiveUp(q)
      PROVE  Ends(q)
  <2>1. at[q] = "saving" => job[q] # "working"
    BY DEF Sound, Stands, Awaiting, Kinds
  <2> QED BY <1>1, <2>1 DEF SaveFails, CancelSaving, CommitFails, GiveUp, Ends,
             Resumes, Stopped, Awaiting, Kinds
<1>2. ASSUME Crash PROVE Dies(Interrupted)
  <2>1. Defaults
    BY <1>2 DEF Crash, Defaults, Types
  <2> QED BY <1>2, <2>1 DEF Crash, Dies, Types, Interrupted, Status
<1>3. ASSUME NEW r \in Runs, NEW m \in Modes, CrashInStart(r, m)
      PROVE  Dies(Interrupted \cup {r})
  <2>1. PICK written \in {{}, {"micro"}, Kinds} : Promote(r, written \cap Promoted(r, m))
    BY <1>3 DEF CrashInStart
  <2>2. Defaults
    BY <1>3, <2>1, StartEarns DEF CrashInStart
  <2>3. \A s \in Interrupted \cup {r} : status[s] \in Status \ {"absent", "done"}
    BY <1>3 DEF CrashInStart, Interrupted, Types, Status
  <2>4. /\ mode' \in [Runs -> Modes] /\ starts' \in [Runs -> 0..MaxStarts]
        /\ \A s \in Runs \ {r} : mode'[s] = mode[s] /\ starts'[s] = starts[s]
    BY <1>3 DEF CrashInStart, Types
  <2> QED BY <1>3, <2>2, <2>3, <2>4 DEF CrashInStart, Dies
<1>4. Interrupted \in SUBSET Runs
  BY DEF Interrupted
<1>5. ASSUME NEW q \in Runs, Request(q) PROVE Step(q)
  BY <1>1, <1>5 DEF Request, Step
<1>6. ASSUME NEW q \in Runs, Worker(q) PROVE Step(q)
  BY <1>6 DEF Worker, Step
<1>7. ASSUME NEW q \in Runs, Client(q)
      PROVE  Step(q) \/ \E m \in Modes : CrashInStart(q, m)
  BY <1>1, <1>7 DEF Client, Step
<1> QED BY <1>2, <1>3, <1>4, <1>5, <1>6, <1>7 DEF Next

-----------------------------------------------------------------------------
(* The values the model computes.                                           *)
LEMMA HashesThere ==
  /\ \A f \in Files, k \in Kinds : HashOf(f, k) \in Hashes /\ HashOf(f, k) \in Files \X Kinds
  /\ OldHash \in Hashes /\ NoHash \notin Hashes
  /\ NoLists \in [Kinds -> Parsed] /\ NoList \in [Kinds -> Hashes \cup {NoHash}]
BY DEF Hashes, HashOf, NoLists, NoList, Parsed

(* Parsing fills the row of the workbook's own hash, if it is empty.        *)
LEMMA CacheGrows ==
  ASSUME NEW q \in Runs, Types, Lists(q)
  PROVE  /\ CacheAfter(q) \in [Hashes -> Parsed]
         /\ \A h \in Hashes : CacheAfter(q)[h] =
              IF at[q] \in Kinds /\ h = HashOf(upload[q][at[q]], at[q]) /\ cache[h] = NoRows
              THEN [file |-> upload[q][at[q]], sheet |-> at[q]] ELSE cache[h]
<1>1. CASE at[q] \in Kinds
  <2> DEFINE f == upload[q][at[q]]
  <2>1. f \in Files /\ HashOf(f, at[q]) \in Hashes
    BY <1>1, HashesThere DEF Lists, Types
  <2>2. [file |-> f, sheet |-> at[q]] \in Parsed
    BY <1>1, <2>1 DEF Parsed
  <2>3. cache \in [Hashes -> Parsed]
    BY DEF Types
  <2> HIDE DEF f
  <2>4. CacheAfter(q) = IF cache[HashOf(f, at[q])] = NoRows
          THEN [cache EXCEPT ![HashOf(f, at[q])] = [file |-> f, sheet |-> at[q]]] ELSE cache
    BY <1>1 DEF CacheAfter, f
  <2> QED BY <1>1, <2>1, <2>2, <2>3, <2>4 DEF f
<1>2. CASE at[q] \notin Kinds
  BY <1>2 DEF CacheAfter, Types
<1> QED BY <1>1, <1>2

LEMMA ListedTyped ==
  ASSUME NEW q \in Runs, Types, Lists(q)
  PROVE  Listed(q) \in [Kinds -> Hashes \cup {NoHash}]
<1>1. ASSUME at[q] \in Kinds PROVE HashOf(upload[q][at[q]], at[q]) \in Hashes
  BY <1>1, HashesThere DEF Lists, Types
<1>2. listed[q] \in [Kinds -> Hashes \cup {NoHash}] /\ current \in [Kinds -> Hashes \cup {NoHash}]
  BY DEF Types
<1> QED BY <1>1, <1>2 DEF Listed

LEMMA LoadedTyped ==
  ASSUME Types, NEW q \in Runs
  PROVE  Loaded(q) \in [Kinds -> Parsed]
<1>1. ASSUME NEW k \in Kinds PROVE LoadCached(listed[q][k]) \in Parsed
  BY DEF LoadCached, Types, Parsed
<1> QED BY <1>1 DEF Loaded, Parsed


(* Types, for the steps of a request or a run.                              *)
LEMMA TypesStep ==
  ASSUME NEW q \in Runs, Types, Lists(q), Step(q)
  PROVE  Types'
<1>a. CacheAfter(q) \in [Hashes -> Parsed]
  BY CacheGrows
<1>b. Listed(q) \in [Kinds -> Hashes \cup {NoHash}]
  BY ListedTyped
<1>c. Loaded(q) \in [Kinds -> Parsed]
  BY LoadedTyped
<1>d. NoLists \in [Kinds -> Parsed]
  BY HashesThere
<1>e. NextKinds(q) \subseteq Kinds
  BY DEF NextKinds, Ahead, Kinds
<1>1. ASSUME Admit(q) PROVE Types'
  BY <1>1 DEF Types, Stages, Awaiting, Kinds, JobState, Status, Threads, NoUpload,
     NoList, NoLists, requestVars, rowVars, listVars, Admit, Goto
<1>2. ASSUME Saved(q) PROVE Types'
  BY <1>2 DEF Types, Stages, Awaiting, Kinds, JobState, Status, Threads, NoUpload,
     NoList, NoLists, requestVars, rowVars, listVars, Saved, Goto, Submit
<1>3. ASSUME JobStarts(q) PROVE Types'
  BY <1>3 DEF Types, Stages, Awaiting, Kinds, JobState, Status, Threads, NoUpload,
     NoList, NoLists, requestVars, rowVars, listVars, JobStarts
<1>4. ASSUME JobSkipped(q) PROVE Types'
  BY <1>4 DEF Types, Stages, Awaiting, Kinds, JobState, Status, Threads, NoUpload,
     NoList, NoLists, requestVars, rowVars, listVars, JobSkipped
<1>5. ASSUME JobEnds(q) PROVE Types'
  BY <1>5, <1>a DEF Types, Stages, Awaiting, Kinds, JobState, Status, Threads,
     NoUpload, NoList, NoLists, requestVars, rowVars, listVars, JobEnds
<1>6. ASSUME JobFails(q) PROVE Types'
  BY <1>6 DEF Types, Stages, Awaiting, Kinds, JobState, Status, Threads, NoUpload,
     NoList, NoLists, requestVars, rowVars, listVars, JobFails
<1>7. ASSUME Parse(q) PROVE Types'
  BY <1>7 DEF Types, Stages, Awaiting, Kinds, JobState, Status, Threads, NoUpload,
     NoList, NoLists, requestVars, rowVars, listVars, Parse, Goto, Submit, Resumes
<1>8. ASSUME HandToAudit(q) PROVE Types'
  BY <1>8 DEF Types, Stages, Awaiting, Kinds, JobState, Status, Threads, NoUpload,
     NoList, NoLists, requestVars, rowVars, listVars, HandToAudit, Goto, ClearJob,
     LeaveAdmission, Resumes
<1>9. ASSUME IngestNext(q) PROVE Types'
  BY <1>9, <1>b, <1>e DEF Types, Stages, Awaiting, Kinds, JobState, Status, Threads,
     NoUpload, NoList, NoLists, requestVars, rowVars, listVars, IngestNext, Goto,
     Submit, Resumes
<1>10. ASSUME Commit(q) PROVE Types'
  BY <1>10, <1>b DEF Types, Stages, Awaiting, Kinds, JobState, Status, Threads,
     NoUpload, NoList, NoLists, requestVars, rowVars, listVars, Commit, Goto,
     ClearJob, LeaveAdmission, Resumes
<1>11. ASSUME MappingStops(q) PROVE Types'
  BY <1>11 DEF Types, Stages, Awaiting, Kinds, JobState, Status, Threads, NoUpload,
     NoList, NoLists, requestVars, rowVars, listVars, MappingStops, Goto, ClearJob,
     Stopped
<1>12. ASSUME Cancel(q) PROVE Types'
  BY <1>12 DEF Types, Stages, Awaiting, Kinds, JobState, Status, Threads, NoUpload,
     NoList, NoLists, requestVars, rowVars, listVars, Cancel
<1>13. ASSUME CancelWaiting(q) PROVE Types'
  BY <1>13 DEF Types, Stages, Awaiting, Kinds, JobState, Status, Threads, NoUpload,
     NoList, NoLists, requestVars, rowVars, listVars, CancelWaiting, Goto
<1>14. ASSUME Apply(q) PROVE Types'
  BY <1>14 DEF Types, Stages, Awaiting, Kinds, JobState, Status, Threads, NoUpload,
     NoList, NoLists, requestVars, rowVars, listVars, Apply, Goto, Submit
<1>15. ASSUME Reject(q) PROVE Types'
  BY <1>15 DEF Types, Stages, Awaiting, Kinds, JobState, Status, Threads, NoUpload,
     NoList, NoLists, requestVars, rowVars, listVars, Reject, Goto
<1>16. ASSUME Begin(q) PROVE Types'
  BY <1>16 DEF Types, Stages, Awaiting, Kinds, JobState, Status, Threads, NoUpload,
     NoList, NoLists, requestVars, rowVars, listVars, Begin
<1>17. ASSUME RunParses(q) PROVE Types'
  BY <1>17 DEF Types, Stages, Awaiting, Kinds, JobState, Status, Threads, NoUpload,
     NoList, NoLists, requestVars, rowVars, listVars, RunParses
<1>18. ASSUME RunParsed(q) PROVE Types'
  BY <1>18, <1>c DEF Types, Stages, Awaiting, Kinds, JobState, Status, Threads,
     NoUpload, NoList, NoLists, requestVars, rowVars, listVars, RunParsed
<1>19. ASSUME RunFails(q) PROVE Types'
  BY <1>19 DEF Types, Stages, Awaiting, Kinds, JobState, Status, Threads, NoUpload,
     NoList, NoLists, requestVars, rowVars, listVars, RunFails
<1>20. ASSUME Ends(q) PROVE Types'
  BY <1>20 DEF Types, Stages, Awaiting, Kinds, JobState, Status, Threads, NoUpload,
     NoList, NoLists, requestVars, rowVars, listVars, Ends, Discard, Goto, ClearJob,
     LeaveAdmission
<1>21. ASSUME NEW o \in Offers, Arrive(q, o) PROVE Types'
  BY <1>21 DEF Types, Stages, Awaiting, Kinds, JobState, Status, Threads, NoUpload,
     NoList, NoLists, requestVars, rowVars, listVars, Arrive, Goto
<1>22. ASSUME NEW m \in Modes, Start(q, m) PROVE Types'
  BY <1>22 DEF Types, Stages, Awaiting, Kinds, JobState, Status, Threads, NoUpload,
     NoList, NoLists, requestVars, rowVars, listVars, Start, Promote
<1>23. ASSUME NEW s \in {"done", "error"}, RunEnds(q, s) PROVE Types'
  BY <1>23, <1>d DEF Types, Stages, Awaiting, Kinds, JobState, Status, Threads,
     NoUpload, NoList, NoLists, requestVars, rowVars, listVars, RunEnds
<1>24. ASSUME PreviewRaises(q) PROVE Types'
  BY <1>24 DEF Types, Stages, Awaiting, Kinds, JobState, Status, Threads, NoUpload,
     NoList, NoLists, requestVars, rowVars, listVars, PreviewRaises, Goto, ClearJob,
     LeaveAdmission, Resumes
<1> QED BY <1>1, <1>2, <1>3, <1>4, <1>5, <1>6, <1>7, <1>8, <1>9, <1>10, <1>11, <1>12, <1>13,
   <1>14, <1>15, <1>16, <1>17, <1>18, <1>19, <1>20, <1>21, <1>22, <1>23,
   <1>24 DEF Step

(* How the requests and runs stand, after a step of one of them.            *)
LEMMA StandsStep ==
  ASSUME NEW q \in Runs, Types, NEW p \in Runs, Stands(q), Stands(p), Lists(q), Step(q)
  PROVE  Stands(p)'
<1>e. NextKinds(q) \subseteq Kinds
  BY DEF NextKinds, Ahead, Kinds
<1>1. ASSUME Admit(q) PROVE Stands(p)'
  BY <1>1 DEF Stands, Types, Stages, Awaiting, Kinds, JobState, Status, Threads,
     requestVars, rowVars, listVars, Admit, Goto
<1>2. ASSUME Saved(q) PROVE Stands(p)'
  BY <1>2 DEF Stands, Types, Stages, Awaiting, Kinds, JobState, Status, Threads,
     requestVars, rowVars, listVars, Saved, Goto, Submit
<1>3. ASSUME JobStarts(q) PROVE Stands(p)'
  BY <1>3 DEF Stands, Types, Stages, Awaiting, Kinds, JobState, Status, Threads,
     requestVars, rowVars, listVars, JobStarts
<1>4. ASSUME JobSkipped(q) PROVE Stands(p)'
  BY <1>4 DEF Stands, Types, Stages, Awaiting, Kinds, JobState, Status, Threads,
     requestVars, rowVars, listVars, JobSkipped
<1>5. ASSUME JobEnds(q) PROVE Stands(p)'
  BY <1>5 DEF Stands, Types, Stages, Awaiting, Kinds, JobState, Status, Threads,
     requestVars, rowVars, listVars, JobEnds
<1>6. ASSUME JobFails(q) PROVE Stands(p)'
  BY <1>6 DEF Stands, Types, Stages, Awaiting, Kinds, JobState, Status, Threads,
     requestVars, rowVars, listVars, JobFails
<1>7. ASSUME Parse(q) PROVE Stands(p)'
  BY <1>7 DEF Stands, Types, Stages, Awaiting, Kinds, JobState, Status, Threads,
     requestVars, rowVars, listVars, Parse, Goto, Submit, Resumes
<1>8. ASSUME HandToAudit(q) PROVE Stands(p)'
  BY <1>8 DEF Stands, Types, Stages, Awaiting, Kinds, JobState, Status, Threads,
     requestVars, rowVars, listVars, HandToAudit, Goto, ClearJob, LeaveAdmission,
     Resumes
<1>9. ASSUME IngestNext(q) PROVE Stands(p)'
  BY <1>9, <1>e DEF Stands, Types, Stages, Awaiting, Kinds, JobState, Status,
     Threads, requestVars, rowVars, listVars, IngestNext, Goto, Submit, Resumes
<1>10. ASSUME Commit(q) PROVE Stands(p)'
  BY <1>10 DEF Stands, Types, Stages, Awaiting, Kinds, JobState, Status, Threads,
     requestVars, rowVars, listVars, Commit, Goto, ClearJob, LeaveAdmission, Resumes
<1>11. ASSUME MappingStops(q) PROVE Stands(p)'
  BY <1>11 DEF Stands, Types, Stages, Awaiting, Kinds, JobState, Status, Threads,
     requestVars, rowVars, listVars, MappingStops, Goto, ClearJob, Stopped
<1>12. ASSUME Cancel(q) PROVE Stands(p)'
  BY <1>12 DEF Stands, Types, Stages, Awaiting, Kinds, JobState, Status, Threads,
     requestVars, rowVars, listVars, Cancel
<1>13. ASSUME CancelWaiting(q) PROVE Stands(p)'
  BY <1>13 DEF Stands, Types, Stages, Awaiting, Kinds, JobState, Status, Threads,
     requestVars, rowVars, listVars, CancelWaiting, Goto
<1>14. ASSUME Apply(q) PROVE Stands(p)'
  BY <1>14 DEF Stands, Types, Stages, Awaiting, Kinds, JobState, Status, Threads,
     requestVars, rowVars, listVars, Apply, Goto, Submit
<1>15. ASSUME Reject(q) PROVE Stands(p)'
  BY <1>15 DEF Stands, Types, Stages, Awaiting, Kinds, JobState, Status, Threads,
     requestVars, rowVars, listVars, Reject, Goto
<1>16. ASSUME Begin(q) PROVE Stands(p)'
  BY <1>16 DEF Stands, Types, Stages, Awaiting, Kinds, JobState, Status, Threads,
     requestVars, rowVars, listVars, Begin
<1>17. ASSUME RunParses(q) PROVE Stands(p)'
  BY <1>17 DEF Stands, Types, Stages, Awaiting, Kinds, JobState, Status, Threads,
     requestVars, rowVars, listVars, RunParses
<1>18. ASSUME RunParsed(q) PROVE Stands(p)'
  BY <1>18 DEF Stands, Types, Stages, Awaiting, Kinds, JobState, Status, Threads,
     requestVars, rowVars, listVars, RunParsed
<1>19. ASSUME RunFails(q) PROVE Stands(p)'
  BY <1>19 DEF Stands, Types, Stages, Awaiting, Kinds, JobState, Status, Threads,
     requestVars, rowVars, listVars, RunFails
<1>20. ASSUME Ends(q) PROVE Stands(p)'
  BY <1>20 DEF Stands, Types, Stages, Awaiting, Kinds, JobState, Status, Threads,
     requestVars, rowVars, listVars, Ends, Discard, Goto, ClearJob, LeaveAdmission
<1>21. ASSUME NEW o \in Offers, Arrive(q, o) PROVE Stands(p)'
  BY <1>21 DEF Stands, Types, Stages, Awaiting, Kinds, JobState, Status, Threads,
     requestVars, rowVars, listVars, Arrive, Goto
<1>22. ASSUME NEW m \in Modes, Start(q, m) PROVE Stands(p)'
  BY <1>22 DEF Stands, Types, Stages, Awaiting, Kinds, JobState, Status, Threads,
     requestVars, rowVars, listVars, Start, Promote
<1>23. ASSUME NEW s \in {"done", "error"}, RunEnds(q, s) PROVE Stands(p)'
  BY <1>23 DEF Stands, Types, Stages, Awaiting, Kinds, JobState, Status, Threads,
     requestVars, rowVars, listVars, RunEnds
<1>24. ASSUME PreviewRaises(q) PROVE Stands(p)'
  BY <1>24 DEF Stands, Types, Stages, Awaiting, Kinds, JobState, Status, Threads,
     requestVars, rowVars, listVars, PreviewRaises, Goto, ClearJob, LeaveAdmission, Resumes
<1> QED BY <1>1, <1>2, <1>3, <1>4, <1>5, <1>6, <1>7, <1>8, <1>9, <1>10, <1>11, <1>12, <1>13,
   <1>14, <1>15, <1>16, <1>17, <1>18, <1>19, <1>20, <1>21, <1>22, <1>23,
   <1>24 DEF Step

(* A row that is filled fits its hash; what led to rows still does.         *)
LEMMA RowsFit ==
  ASSUME Types, CacheFits,
         \A h \in Hashes : cache'[h] # cache[h] =>
           \E f \in Files, k \in Kinds :
             h = HashOf(f, k) /\ cache[h] = NoRows /\ cache'[h] = [file |-> f, sheet |-> k],
         \A k \in Kinds : Good(cache, current'[k], k),
         \A q \in Runs, k \in Kinds : Good(cache, listed'[q][k], k)
  PROVE  CacheFits'
<1>0. /\ OldRows # NoRows
      /\ \A f \in Files, k \in Kinds : [file |-> f, sheet |-> k] \notin {NoRows, OldRows}
  <2>1. OldRows.sheet = "v1" /\ NoRows.sheet = "none" /\ NoRows.file = NoFile /\ OldRows.file = NoFile
    BY DEF OldRows, NoRows
  <2> QED BY <2>1
<1>1. ASSUME NEW f \in Files, NEW k \in Kinds
      PROVE  cache'[HashOf(f, k)] \in {NoRows, [file |-> f, sheet |-> k]}
  BY HashesThere DEF CacheFits, HashOf
<1>2. cache'[OldHash] = OldRows
  BY <1>0, HashesThere DEF CacheFits
<1>3. ASSUME NEW h, NEW k \in Kinds, Good(cache, h, k) PROVE Good(cache', h, k)
  <2>1. CASE h \in {NoHash, OldHash}
    BY <2>1 DEF Good
  <2>2. ASSUME NEW f \in Files, h = HashOf(f, k), cache[h] = [file |-> f, sheet |-> k]
        PROVE  cache'[h] = [file |-> f, sheet |-> k]
    BY <1>0, <2>2, HashesThere
  <2> QED BY <1>3, <2>1, <2>2 DEF Good
<1> QED BY <1>1, <1>2, <1>3 DEF CacheFits

(* The hashes a preview shows when its loop stops are good.                 *)
LEMMA ListedGood ==
  ASSUME NEW q \in Runs, Types, CacheFits, Lists(q), job[q] = "ok", NEW k \in Kinds
  PROVE  Good(cache, Listed(q)[k], k)
<1>1. CASE k = at[q]
  <2>1. Listed(q)[k] = HashOf(upload[q][k], k) /\ upload[q][k] \in Files
    BY <1>1 DEF Listed, Lists, Types
  <2>2. cache[HashOf(upload[q][k], k)] # NoRows
    BY <1>1 DEF Lists
  <2> QED BY <2>1, <2>2 DEF CacheFits, Good
<1>2. CASE k # at[q]
  BY <1>2 DEF Listed, CacheFits
<1> QED BY <1>1, <1>2

(* CacheFits, after a step of a request or a run.                           *)
LEMMA CacheStep ==
  ASSUME NEW q \in Runs, Types, Sound, CacheFits, Step(q)
  PROVE  CacheFits'
<1>1. ASSUME UNCHANGED listVars PROVE CacheFits'
  <2>1. cache' = cache /\ current' = current /\ listed' = listed
    BY <1>1 DEF listVars
  <2> QED BY <2>1 DEF CacheFits
<1>2. ASSUME JobEnds(q) PROVE CacheFits'
  <2>1. \A h \in Hashes : cache'[h] =
          IF at[q] \in Kinds /\ h = HashOf(upload[q][at[q]], at[q]) /\ cache[h] = NoRows
          THEN [file |-> upload[q][at[q]], sheet |-> at[q]] ELSE cache[h]
    BY <1>2, CacheGrows DEF JobEnds, Sound
  <2>2. at[q] \in Kinds => upload[q][at[q]] \in Files
    BY DEF Sound, Lists, Types
  <2>3. current' = current /\ listed' = listed
    BY <1>2 DEF JobEnds
  <2> QED BY <2>1, <2>2, <2>3, RowsFit DEF CacheFits
<1>3. ASSUME cache' = cache, current' = current, NEW l, 
             listed' = [listed EXCEPT ![q] = l], \A k \in Kinds : Good(cache, l[k], k)
      PROVE  CacheFits'
  <2>1. \A p \in Runs : listed'[p] = IF p = q THEN l ELSE listed[p]
    BY <1>3 DEF Types
  <2> QED BY <1>3, <2>1, RowsFit DEF CacheFits
<1>4. ASSUME IngestNext(q) \/ Commit(q) PROVE CacheFits'
  <2>1. /\ listed' = [listed EXCEPT ![q] = Listed(q)]
        /\ cache' = cache /\ current' = current /\ job[q] = "ok"
    BY <1>4 DEF IngestNext, Commit, Resumes
  <2> QED BY <1>3, <2>1, ListedGood DEF Sound
<1>5. ASSUME Ends(q) \/ PreviewRaises(q) PROVE CacheFits'
  <2>1. listed' = [listed EXCEPT ![q] = NoList] /\ cache' = cache /\ current' = current
    BY <1>5 DEF Ends, Discard, PreviewRaises
  <2>2. \A k \in Kinds : Good(cache, NoList[k], k)
    BY DEF NoList, Good
  <2> QED BY <1>3, <2>1, <2>2
<1>6. ASSUME cache' = cache, listed' = listed, Defaults PROVE CacheFits'
  BY <1>6, RowsFit DEF Defaults, Earned, CacheFits
<1>7. ASSUME NEW m \in Modes, Start(q, m) PROVE CacheFits'
  <2>1. Defaults
    BY <1>7, StartEarns DEF Start
  <2> QED BY <1>6, <1>7, <2>1 DEF Start
<1> QED BY <1>1, <1>2, <1>4, <1>5, <1>7 DEF Step, Admit, Saved, JobStarts, JobSkipped, JobFails,
   Parse, HandToAudit, MappingStops, Cancel, CancelWaiting, Apply, Reject, Begin, RunParses,
   RunParsed, RunFails, Arrive, RunEnds

-----------------------------------------------------------------------------
(* What the lists of run p speak of is as it was.                           *)
Same(p) ==
  /\ at'[p] = at[p] /\ job'[p] = job[p] /\ upload'[p] = upload[p]
  /\ listed'[p] = listed[p] /\ mode'[p] = mode[p] /\ used'[p] = used[p]
  /\ thread'[p] = thread[p] /\ status'[p] = status[p]

(* Rows stay in the cache.                                                  *)
LEMMA RowsStay ==
  ASSUME NEW q \in Runs, Types, Sound, Step(q)
  PROVE  \A h \in Hashes : cache[h] # NoRows => cache'[h] = cache[h]
<1>1. ASSUME JobEnds(q)
      PROVE  \A h \in Hashes : cache[h] # NoRows => cache'[h] = cache[h]
  BY <1>1, CacheGrows DEF JobEnds, Sound
<1> QED BY <1>1 DEF Step, listVars, Ends, Discard, Admit, Saved, JobStarts, JobSkipped,
   JobFails, Parse, HandToAudit, IngestNext, Commit, PreviewRaises, MappingStops, Cancel,
   CancelWaiting, Apply, Reject, Begin, RunParses, RunParsed, RunFails, Arrive, Start, RunEnds

LEMMA SameLists ==
  ASSUME NEW p \in Runs, Types, Lists(p), Same(p),
         \A h \in Hashes : cache[h] # NoRows => cache'[h] = cache[h]
  PROVE  Lists(p)'
<1>1. at[p] \in Kinds => HashOf(upload[p][at[p]], at[p]) \in Hashes
  BY HashesThere DEF Lists, Types
<1> QED BY <1>1 DEF Same, Lists, Brought, Shown

(* A step of one request or run leaves what the others' lists speak of.     *)
LEMMA OthersSame ==
  ASSUME NEW q \in Runs, Types, NEW p \in Runs \ {q}, Step(q)
  PROVE  Same(p)
<1>1. ASSUME Admit(q) PROVE Same(p)
  BY <1>1 DEF Same, Types, requestVars, rowVars, listVars, Admit, Goto
<1>2. ASSUME Saved(q) PROVE Same(p)
  BY <1>2 DEF Same, Types, requestVars, rowVars, listVars, Saved, Goto, Submit
<1>3. ASSUME JobStarts(q) PROVE Same(p)
  BY <1>3 DEF Same, Types, requestVars, rowVars, listVars, JobStarts
<1>4. ASSUME JobSkipped(q) PROVE Same(p)
  BY <1>4 DEF Same, Types, requestVars, rowVars, listVars, JobSkipped
<1>5. ASSUME JobEnds(q) PROVE Same(p)
  BY <1>5 DEF Same, Types, requestVars, rowVars, listVars, JobEnds
<1>6. ASSUME JobFails(q) PROVE Same(p)
  BY <1>6 DEF Same, Types, requestVars, rowVars, listVars, JobFails
<1>7. ASSUME Parse(q) PROVE Same(p)
  BY <1>7 DEF Same, Types, requestVars, rowVars, listVars, Parse, Goto, Submit, Resumes
<1>8. ASSUME HandToAudit(q) PROVE Same(p)
  BY <1>8 DEF Same, Types, requestVars, rowVars, listVars, HandToAudit, Goto,
     ClearJob, LeaveAdmission, Resumes
<1>9. ASSUME IngestNext(q) PROVE Same(p)
  BY <1>9 DEF Same, Types, requestVars, rowVars, listVars, IngestNext, Goto, Submit,
     Resumes
<1>10. ASSUME Commit(q) PROVE Same(p)
  BY <1>10 DEF Same, Types, requestVars, rowVars, listVars, Commit, Goto, ClearJob,
     LeaveAdmission, Resumes
<1>11. ASSUME MappingStops(q) PROVE Same(p)
  BY <1>11 DEF Same, Types, requestVars, rowVars, listVars, MappingStops, Goto,
     ClearJob, Stopped
<1>12. ASSUME Cancel(q) PROVE Same(p)
  BY <1>12 DEF Same, Types, requestVars, rowVars, listVars, Cancel
<1>13. ASSUME CancelWaiting(q) PROVE Same(p)
  BY <1>13 DEF Same, Types, requestVars, rowVars, listVars, CancelWaiting, Goto
<1>14. ASSUME Apply(q) PROVE Same(p)
  BY <1>14 DEF Same, Types, requestVars, rowVars, listVars, Apply, Goto, Submit
<1>15. ASSUME Reject(q) PROVE Same(p)
  BY <1>15 DEF Same, Types, requestVars, rowVars, listVars, Reject, Goto
<1>16. ASSUME Begin(q) PROVE Same(p)
  BY <1>16 DEF Same, Types, requestVars, rowVars, listVars, Begin
<1>17. ASSUME RunParses(q) PROVE Same(p)
  BY <1>17 DEF Same, Types, requestVars, rowVars, listVars, RunParses
<1>18. ASSUME RunParsed(q) PROVE Same(p)
  BY <1>18 DEF Same, Types, requestVars, rowVars, listVars, RunParsed
<1>19. ASSUME RunFails(q) PROVE Same(p)
  BY <1>19 DEF Same, Types, requestVars, rowVars, listVars, RunFails
<1>20. ASSUME Ends(q) PROVE Same(p)
  BY <1>20 DEF Same, Types, requestVars, rowVars, listVars, Ends, Discard, Goto,
     ClearJob, LeaveAdmission
<1>21. ASSUME NEW o \in Offers, Arrive(q, o) PROVE Same(p)
  BY <1>21 DEF Same, Types, requestVars, rowVars, listVars, Arrive, Goto
<1>22. ASSUME NEW m \in Modes, Start(q, m) PROVE Same(p)
  BY <1>22 DEF Same, Types, requestVars, rowVars, listVars, Start, Promote
<1>23. ASSUME NEW s \in {"done", "error"}, RunEnds(q, s) PROVE Same(p)
  BY <1>23 DEF Same, Types, requestVars, rowVars, listVars, RunEnds
<1>24. ASSUME PreviewRaises(q) PROVE Same(p)
  BY <1>24 DEF Same, Types, requestVars, rowVars, listVars, PreviewRaises, Goto,
     ClearJob, LeaveAdmission, Resumes
<1> QED BY <1>1, <1>2, <1>3, <1>4, <1>5, <1>6, <1>7, <1>8, <1>9, <1>10, <1>11, <1>12, <1>13,
   <1>14, <1>15, <1>16, <1>17, <1>18, <1>19, <1>20, <1>21, <1>22, <1>23,
   <1>24 DEF Step

(* The lists of a request or run, after a step of its own.                  *)
LEMMA ListsStep ==
  ASSUME NEW q \in Runs, Types, CacheFits, Sound, Step(q)
  PROVE  Lists(q)'
<1> DEFINE next == NextKinds(q)
           here == HashOf(upload[q][at[q]], at[q])
<1>0. Stands(q) /\ Lists(q)
  BY DEF Sound
<1>1. at[q] \notin {"absent", "ended"} \/ (at[q] = "absent" /\ q \notin migrated) => status[q] = "absent"
  BY <1>0 DEF Stands
<1>2. status[q] # "absent" => at[q] \notin Kinds
  BY <1>0 DEF Stands, Kinds
<1>3. ASSUME status[q] = "absent", UNCHANGED <<status, thread>>,
             at'[q] \in Kinds =>
               /\ upload'[q][at'[q]] # NoFile
               /\ job'[q] = "ok" => cache'[HashOf(upload'[q][at'[q]], at'[q])] # NoRows,
             at'[q] = "macro" /\ upload'[q]["micro"] # NoFile =>
               listed'[q]["micro"] = HashOf(upload'[q]["micro"], "micro")
      PROVE  Lists(q)'
  <2>1. thread[q] = "none"
    BY <1>0, <1>3 DEF Stands
  <2> QED BY <1>3, <2>1 DEF Lists, Brought
<1>4. ASSUME status[q] # "absent",
             at'[q] = at[q], upload'[q] = upload[q], listed'[q] = listed[q],
             thread'[q] = "matching" \/ status'[q] = "done" =>
               /\ mode'[q] = mode[q]
               /\ used'[q] = Shown(q)
      PROVE  Lists(q)'
  <2>1. Shown(q)' = Shown(q) \/ ~(thread'[q] = "matching" \/ status'[q] = "done")
    BY <1>4 DEF Shown
  <2> QED BY <1>0, <1>2, <1>4, <2>1 DEF Lists, Brought
<1> HIDE DEF next, here
(* Requests without a row. *)
<1>5. ASSUME \/ Admit(q) \/ Saved(q) \/ Parse(q) \/ HandToAudit(q) \/ MappingStops(q)
             \/ Apply(q) \/ Reject(q) \/ CancelWaiting(q) \/ Ends(q) \/ PreviewRaises(q)
             \/ \E o \in Offers : Arrive(q, o)
      PROVE  Lists(q)'
  <2>1. at'[q] \notin Kinds
    BY <1>5 DEF Types, Kinds, Goto, Admit, Saved, Parse, HandToAudit, MappingStops, Apply,
         Reject, CancelWaiting, Ends, Discard, PreviewRaises, Arrive
  <2>2. status[q] = "absent"
    BY <1>1, <1>5 DEF Admit, Saved, Parse, HandToAudit, MappingStops, Apply, Reject,
         CancelWaiting, Ends, PreviewRaises, Awaiting, Kinds, Arrive
  <2>3. UNCHANGED <<status, thread>>
    BY <1>5 DEF rowVars, Admit, Saved, Parse, HandToAudit, MappingStops, Apply, Reject,
         CancelWaiting, Ends, Discard, PreviewRaises, Arrive
  <2>4. at'[q] # "macro"
    BY <2>1 DEF Kinds
  <2> QED BY <1>3, <2>1, <2>2, <2>3, <2>4
<1>6. ASSUME JobStarts(q) \/ JobSkipped(q) \/ JobFails(q) \/ Cancel(q) PROVE Lists(q)'
  <2>1. at[q] \in Awaiting
    BY <1>0, <1>6 DEF Stands, JobStarts, JobSkipped, JobFails, Cancel
  <2>2. /\ UNCHANGED <<at, upload, listed, cache, status, thread>>
        /\ job'[q] = "ok" => job[q] = "ok"
    BY <1>6 DEF Types, rowVars, listVars, JobStarts, JobSkipped, JobFails, Cancel
  <2>3. status[q] = "absent"
    BY <1>1, <2>1 DEF Awaiting, Kinds
  <2> QED BY <1>0, <1>3, <2>2, <2>3 DEF Lists, Brought
<1>7. CASE JobEnds(q)
  <2>1. at[q] \in Awaiting /\ UNCHANGED <<at, upload, listed, status, thread>>
    BY <1>0, <1>7 DEF Stands, JobEnds, rowVars
  <2>2. ASSUME at[q] \in Kinds PROVE cache'[here] # NoRows
    <3>1. here \in Hashes /\ upload[q][at[q]] \in Files
      BY <1>0, <2>2, HashesThere DEF Lists, Types, here
    <3>2. CacheAfter(q)[here] = IF cache[here] = NoRows
            THEN [file |-> upload[q][at[q]], sheet |-> at[q]] ELSE cache[here]
      BY <1>0, <2>2, <3>1, CacheGrows DEF here
    <3>3. [file |-> upload[q][at[q]], sheet |-> at[q]] # NoRows
      BY <3>1 DEF NoRows
    <3> QED BY <1>7, <3>2, <3>3 DEF JobEnds
  <2>3. status[q] = "absent"
    BY <1>1, <2>1 DEF Awaiting, Kinds
  <2> QED BY <1>0, <1>3, <2>1, <2>2, <2>3 DEF Lists, Brought, here
<1>8. next \subseteq Ahead(at[q]) /\ \A k \in next : k \in Kinds /\ upload[q][k] # NoFile
  BY DEF next, NextKinds, Ahead, Kinds
<1>9. ASSUME at[q] \in {"parsing"} \cup Kinds,
             upload[q]["micro"] # NoFile, "micro" \notin next
      PROVE  Listed(q)["micro"] = HashOf(upload[q]["micro"], "micro")
  <2>1. at[q] # "parsing"
    BY <1>9 DEF next, NextKinds, Ahead, Kinds
  <2>2. CASE at[q] = "micro"
    BY <2>2 DEF Listed, Kinds
  <2>3. CASE at[q] = "macro"
    <3>1. "micro" \notin Inherited(q)
      BY <2>3 DEF Inherited, Ahead
    <3> QED BY <1>0, <1>9, <2>3, <3>1 DEF Listed, Lists, Brought, Kinds
  <2> QED BY <1>9, <2>1, <2>2, <2>3 DEF Kinds
<1>10. CASE IngestNext(q)
  <2>1. PICK k \in next : at'[q] = k
    BY <1>10 DEF IngestNext, Goto, Types, next
  <2>2. /\ at[q] \in {"parsing"} \cup Kinds /\ job'[q] = "queued"
        /\ upload' = upload /\ UNCHANGED <<status, thread>> /\ listed'[q] = Listed(q)
    BY <1>10 DEF IngestNext, Submit, Types, rowVars
  <2>3. k = "macro" => "micro" \notin next
    BY DEF next, NextKinds
  <2>4. status[q] = "absent"
    BY <1>1, <2>2 DEF Kinds
  <2> QED BY <1>3, <1>8, <1>9, <2>1, <2>2, <2>3, <2>4
<1>11. CASE Commit(q)
  <2>1. /\ at[q] \in {"parsing"} \cup Kinds /\ next = {} /\ at'[q] = "ended"
        /\ upload' = upload /\ listed'[q] = Listed(q) /\ status'[q] = "pending"
        /\ thread' = thread
    BY <1>11 DEF Commit, Goto, Types, next
  <2>2. upload[q]["macro"] # NoFile => Listed(q)["macro"] = HashOf(upload[q]["macro"], "macro")
    <3>1. upload[q]["macro"] # NoFile => at[q] = "macro"
      BY <2>1 DEF next, NextKinds, Ahead, Kinds
    <3> QED BY <3>1 DEF Listed, Kinds
  <2>3. thread[q] = "none"
    BY <1>0, <1>1, <2>1 DEF Stands, Kinds
  <2> QED BY <1>9, <2>1, <2>2, <2>3 DEF Lists, Brought, Kinds
(* Runs. *)
<1>12. ASSUME \/ Begin(q) \/ RunParses(q) \/ RunFails(q)
              \/ \E m \in Modes : Start(q, m)
       PROVE  Lists(q)'
  <2>1. /\ status[q] # "absent" /\ UNCHANGED <<at, upload, listed>>
        /\ thread'[q] # "matching" /\ status'[q] # "done"
    BY <1>0, <1>12 DEF Stands, Types, requestVars, listVars, Begin, RunParses, RunFails, Start
  <2> QED BY <1>4, <2>1
<1>13. CASE RunParsed(q)
  <2>1. /\ status[q] # "absent" /\ UNCHANGED <<at, upload, listed, mode>>
        /\ used'[q] = Loaded(q)
    BY <1>0, <1>13 DEF Stands, Types, requestVars, listVars, RunParsed
  <2>2. ASSUME NEW k \in Kinds
        PROVE  LoadCached(listed[q][k]) =
                 IF listed[q][k] \in {NoHash, OldHash} THEN NoRows
                 ELSE [file |-> listed[q][k][1], sheet |-> k]
    <3>1. CASE listed[q][k] \in {NoHash, OldHash}
      BY <3>1 DEF LoadCached, CacheFits
    <3>2. ASSUME NEW f \in Files, listed[q][k] = HashOf(f, k),
                 cache[listed[q][k]] = [file |-> f, sheet |-> k]
          PROVE  /\ LoadCached(listed[q][k]) = [file |-> f, sheet |-> k]
                 /\ listed[q][k] \notin {NoHash, OldHash} /\ listed[q][k][1] = f
      <4>1. [file |-> f, sheet |-> k] # OldRows
        BY DEF OldRows
      <4>2. listed[q][k] \notin {NoHash, OldHash} /\ listed[q][k][1] = f
        BY <3>2, HashesThere DEF HashOf
      <4> QED BY <3>2, <4>1, <4>2 DEF LoadCached
    <3>3. Good(cache, listed[q][k], k)
      BY DEF CacheFits
    <3> QED BY <3>1, <3>2, <3>3 DEF Good
  <2>3. Loaded(q) = Shown(q)
    BY <2>2 DEF Loaded, Shown
  <2> QED BY <1>4, <2>1, <2>3
<1>14. ASSUME NEW s \in {"done", "error"}, RunEnds(q, s) PROVE Lists(q)'
  <2>1. /\ status[q] # "absent" /\ UNCHANGED <<at, upload, listed, mode>>
        /\ thread[q] = "matching" /\ thread'[q] = "none" /\ status'[q] = s
        /\ used'[q] = IF s = "done" THEN used[q] ELSE NoLists
    BY <1>0, <1>14 DEF Stands, Types, requestVars, listVars, RunEnds
  <2>2. s = "done" => used'[q] = Shown(q)
    BY <1>0, <2>1 DEF Lists
  <2> QED BY <1>4, <2>1, <2>2
<1> QED BY <1>5, <1>6, <1>7, <1>10, <1>11, <1>12, <1>13, <1>14 DEF Step

-----------------------------------------------------------------------------
(* A restart, and the removal of a default.                                 *)
LEMMA DiesKeeps ==
  ASSUME Shape, NEW I \in SUBSET Runs, Dies(I)
  PROVE  Shape'
<1>0. Types /\ CacheFits /\ \A q \in Runs : Stands(q) /\ Lists(q)
  BY DEF Shape, Sound
<1>1. Types'
  BY <1>0 DEF Dies, Restart, Defaults, Types, Stages, JobState, Status, Threads, NoUpload,
     NoList, NoLists, Parsed, Kinds
<1>2. ASSUME NEW q \in Runs PROVE Stands(q)'
  <2>1. Stands(q) /\ at[q] \in Stages /\ starts'[q] \in Nat
    BY <1>0, <1>1 DEF Types
  <2>2. /\ at'[q] = IF at[q] \in {"absent", "ended", "broken"} THEN at[q] ELSE "lost"
        /\ job'[q] = "none" /\ cancelled' = {} /\ applies'[q] = 0 /\ thread'[q] = "none"
        /\ status'[q] = IF q \in I THEN "error" ELSE status[q]
        /\ UNCHANGED <<staged, migrated>>
    BY DEF Dies, Restart
  <2>3. /\ q \in I => status[q] # "absent"
        /\ q \notin I => starts'[q] = starts[q] /\ status[q] # "running"
    BY DEF Dies, Interrupted
  <2> QED BY <2>1, <2>2, <2>3 DEF Stands, Awaiting, Kinds
<1>3. ASSUME NEW q \in Runs PROVE Lists(q)'
  <2>1. Stands(q) /\ Lists(q)
    BY <1>0
  <2>2. at'[q] \notin Kinds /\ thread'[q] = "none" /\ at'[q] # "macro"
    BY DEF Dies, Restart, Kinds
  <2>3. /\ status'[q] # "absent" => status[q] # "absent"
        /\ status'[q] = "done" => status[q] = "done" /\ mode'[q] = mode[q] /\ used'[q] = used[q]
        /\ status[q] # "absent" => upload'[q] = upload[q] /\ listed'[q] = listed[q]
    BY DEF Dies, Restart
  <2>4. status'[q] = "done" => Shown(q)' = Shown(q)
    BY <2>3 DEF Shown
  <2> QED BY <2>1, <2>2, <2>3, <2>4 DEF Lists, Brought
<1>4. CacheFits'
  <2>1. ASSUME NEW q \in Runs, NEW k \in Kinds PROVE Good(cache, listed'[q][k], k)
    <3>1. listed'[q] \in {NoList, listed[q]}
      BY DEF Dies, Restart
    <3>2. Good(cache, NoList[k], k)
      BY DEF Good, NoList
    <3>3. Good(cache, listed[q][k], k)
      BY <1>0 DEF CacheFits
    <3> QED BY <3>1, <3>2, <3>3
  <2>2. ASSUME NEW k \in Kinds PROVE Good(cache, current'[k], k)
    BY <1>0 DEF Dies, Defaults, Earned, CacheFits
  <2> QED BY <1>0, <2>1, <2>2, RowsFit DEF Dies, Restart
<1> QED BY <1>1, <1>2, <1>3, <1>4 DEF Shape, Sound

LEMMA RemoveKeeps ==
  ASSUME Shape, NEW k \in Kinds, Remove(k)
  PROVE  Shape'
<1>0. Types /\ CacheFits /\ \A q \in Runs : Stands(q) /\ Lists(q)
  BY DEF Shape, Sound
<1>1. /\ UNCHANGED <<requestVars, admission, gate, rowVars, listed, cache, migrated, crashes>>
      /\ current' = [current EXCEPT ![k] = NoHash]
  BY DEF Remove
<1>2. Types'
  BY <1>0, <1>1 DEF Types, requestVars, rowVars
<1>3. ASSUME NEW q \in Runs PROVE Stands(q)' /\ Lists(q)'
  BY <1>0, <1>1 DEF Stands, Lists, Brought, Shown, requestVars, rowVars
<1>4. ASSUME NEW l \in Kinds PROVE Good(cache, current'[l], l)
  BY <1>0, <1>1, ZenonT(30) DEF CacheFits, Good, Types
<1>5. CacheFits'
  BY <1>0, <1>1, <1>4, RowsFit DEF CacheFits
<1> QED BY <1>2, <1>3, <1>5 DEF Shape, Sound

(* Shape is inductive.                                                      *)
LEMMA InitShape == Init => Shape
<1> SUFFICES ASSUME Init PROVE Shape
  OBVIOUS
<1>1. Types
  BY DEF Init, Types, Stages, JobState, Status, Threads, Modes, Kinds, NoUpload, NoList, NoLists,
     Parsed, Hashes
<1>2. ASSUME NEW q \in Runs PROVE Stands(q) /\ Lists(q)
  BY DEF Init, Stands, Lists, Brought, Awaiting, Kinds, NoUpload
<1>3. CacheFits
  <2>1. \A k \in Kinds : current[k] = NoHash
    BY DEF Init, NoList
  <2>2. \A q \in Runs, k \in Kinds : listed[q][k] \in {NoHash, OldHash}
    BY DEF Init
  <2>3. \A f \in Files, k \in Kinds : cache[HashOf(f, k)] = NoRows
    BY HashesThere DEF Init
  <2>4. cache[OldHash] = OldRows
    BY HashesThere DEF Init
  <2> QED BY <2>1, <2>2, <2>3, <2>4 DEF CacheFits, Good
<1> QED BY <1>1, <1>2, <1>3 DEF Shape, Sound

LEMMA ShapeStep == Shape /\ [Next]_vars => Shape'
<1> SUFFICES ASSUME Shape, [Next]_vars PROVE Shape'
  OBVIOUS
<1>0. Types /\ CacheFits /\ Sound /\ \A q \in Runs : Stands(q) /\ Lists(q)
  BY DEF Shape, Sound
<1>1. ASSUME NEW q \in Runs, Step(q) PROVE Shape'
  <2>1. Types'
    BY <1>0, <1>1, TypesStep
  <2>2. CacheFits'
    BY <1>0, <1>1, CacheStep
  <2>3. ASSUME NEW p \in Runs PROVE Stands(p)'
    BY <1>0, <1>1, StandsStep
  <2>4. ASSUME NEW p \in Runs PROVE Lists(p)'
    <3>1. CASE p = q
      BY <1>0, <1>1, <3>1, ListsStep
    <3>2. CASE p # q
      <4>1. Same(p)
        BY <1>0, <1>1, <3>2, OthersSame
      <4>2. \A h \in Hashes : cache[h] # NoRows => cache'[h] = cache[h]
        BY <1>0, <1>1, RowsStay
      <4> QED BY <1>0, <4>1, <4>2, SameLists
    <3> QED BY <3>1, <3>2
  <2> QED BY <2>1, <2>2, <2>3, <2>4 DEF Shape, Sound
<1>2. CASE UNCHANGED vars
  BY <1>0, <1>2 DEF vars, requestVars, rowVars, listVars, Shape, Sound, Types, CacheFits, Stands,
     Lists, Brought, Shown
<1>3. ASSUME Next PROVE Shape'
  BY <1>0, <1>1, <1>3, NextCases, DiesKeeps, RemoveKeeps
<1> QED BY <1>2, <1>3

-----------------------------------------------------------------------------
(* The permits.  Those inside the admission, and the threads at work.       *)
Admitted == {"saving", "checking", "parsing"} \cup Kinds
Inside   == {q \in Runs : ~Audited(q) /\ at[q] \in Admitted}
Working  == {q \in Runs : job[q] = "working"}
Parsing  == {r \in Runs : thread[r] = "parsing"}

Conserved ==
  /\ admission + Cardinality(Inside) = UploadSlots
  /\ gate + Cardinality(Working) + Cardinality(Parsing) = ParseSlots

LEMMA Counts ==
  /\ IsFiniteSet(Inside) /\ Cardinality(Inside) \in Nat
  /\ IsFiniteSet(Working) /\ Cardinality(Working) \in Nat
  /\ IsFiniteSet(Parsing) /\ Cardinality(Parsing) \in Nat
<1>1. IsFiniteSet(Runs) /\ Inside \subseteq Runs /\ Working \subseteq Runs /\ Parsing \subseteq Runs
  BY DEF Inside, Working, Parsing
<1> QED BY <1>1, FS_Subset, FS_CardinalityType

LEMMA OneMore ==
  ASSUME NEW S, IsFiniteSet(S), NEW x, x \notin S, NEW T, T = S \cup {x}
  PROVE  Cardinality(T) = Cardinality(S) + 1
BY FS_AddElement

LEMMA OneLess ==
  ASSUME NEW S, IsFiniteSet(S), NEW x, x \in S, NEW T, T = S \ {x}
  PROVE  Cardinality(T) = Cardinality(S) - 1
BY FS_RemoveElement

(* A request takes a permit of the admission when it enters, gives it back  *)
(* when it leaves, and one that came back from an audit holds none.         *)
LEMMA AdmissionCounts ==
  ASSUME NEW q \in Runs, Types, Sound, Conserved, Step(q)
  PROVE  admission' + Cardinality(Inside') = UploadSlots
<1>0. Stands(q) /\ applies[q] \in Nat
  BY DEF Sound, Types
<1>1. ASSUME Admit(q) PROVE admission' + Cardinality(Inside') = UploadSlots
  <2>1. /\ at' = [at EXCEPT ![q] = "saving"] /\ applies' = applies
        /\ at[q] = "arrived" /\ admission' = admission - 1
    BY <1>1 DEF Admit, Goto
  <2>2. Inside' = Inside \cup {q} /\ q \notin Inside
    BY <1>0, <2>1 DEF Inside, Admitted, Audited, Stands, Types, Kinds
  <2>3. Cardinality(Inside') = Cardinality(Inside) + 1
    BY <2>2, Counts, OneMore
  <2> QED BY <2>1, <2>3, Counts DEF Conserved, Types
<1>2. ASSUME HandToAudit(q) \/ Commit(q) \/ PreviewRaises(q) \/ Ends(q)
      PROVE  admission' + Cardinality(Inside') = UploadSlots
  <2>1. /\ at[q] \in Admitted /\ at'[q] \notin Admitted
        /\ \A p \in Runs \ {q} : at'[p] = at[p] /\ applies'[p] = applies[p]
        /\ admission' = IF Audited(q) THEN admission ELSE admission + 1
    BY <1>2 DEF HandToAudit, Commit, PreviewRaises, Ends, Discard, Goto, LeaveAdmission, Admitted, Kinds, Types,
       Awaiting
  <2>2. Inside' = Inside \ {q} /\ (q \in Inside <=> ~Audited(q))
    BY <2>1 DEF Inside, Audited
  <2>3. CASE Audited(q)
    <3>1. Inside' = Inside
      BY <2>2, <2>3
    <3> QED BY <2>1, <2>3, <3>1 DEF Conserved
  <2>4. CASE ~Audited(q)
    <3>1. Cardinality(Inside') = Cardinality(Inside) - 1
      BY <2>2, <2>4, Counts, OneLess
    <3> QED BY <2>1, <2>4, <3>1, Counts DEF Conserved, Types
  <2> QED BY <2>3, <2>4
<1>3. ASSUME UNCHANGED admission,
             \A p \in Runs \ {q} : at'[p] = at[p] /\ applies'[p] = applies[p],
             (~Audited(q) /\ at[q] \in Admitted) <=> (applies'[q] <= 0 /\ at'[q] \in Admitted)
      PROVE  admission' + Cardinality(Inside') = UploadSlots
  <2>0. Types'
    <3>1. Lists(q)
      BY DEF Sound
    <3> QED BY <3>1, TypesStep
  <2>1. applies'[q] \in Nat /\ \A p \in Runs \ {q} : applies[p] \in Nat
    BY <2>0 DEF Types
  <2>2. Inside' = Inside
    BY <1>3, <2>1 DEF Inside, Audited
  <2> QED BY <1>3, <2>2 DEF Conserved
<1>4. ASSUME \/ Saved(q) \/ IngestNext(q) \/ CancelWaiting(q) \/ Parse(q)
             \/ \E o \in Offers : Arrive(q, o)
      PROVE  admission' + Cardinality(Inside') = UploadSlots
  <2>1. NextKinds(q) \subseteq Kinds
    BY DEF NextKinds, Ahead, Kinds
  <2>2. /\ UNCHANGED <<admission, applies>> /\ \A p \in Runs \ {q} : at'[p] = at[p]
        /\ at[q] \in Admitted <=> at'[q] \in Admitted /\ at[q] # "mapping"
    BY <1>4, <2>1 DEF Saved, IngestNext, CancelWaiting, Parse, Arrive, Goto, Types, Admitted, Kinds
  <2> QED BY <1>0, <1>3, <2>2 DEF Audited, Stands
<1>5. ASSUME MappingStops(q) \/ Apply(q) \/ Reject(q)
      PROVE  admission' + Cardinality(Inside') = UploadSlots
  <2>1. /\ UNCHANGED admission /\ at[q] \notin Admitted /\ at'[q] \notin Admitted
        /\ \A p \in Runs \ {q} : at'[p] = at[p] /\ applies'[p] = applies[p]
    BY <1>5 DEF MappingStops, Apply, Reject, Goto, Types, Admitted, Kinds
  <2> QED BY <1>3, <2>1
<1>6. ASSUME UNCHANGED <<at, applies, admission>>
      PROVE  admission' + Cardinality(Inside') = UploadSlots
  BY <1>6 DEF Conserved, Inside, Audited
<1> QED BY <1>1, <1>2, <1>4, <1>5, <1>6 DEF Step, requestVars, JobStarts, JobSkipped, JobEnds,
       JobFails, Cancel, Begin, RunParses, RunParsed, RunFails, Start, RunEnds

(* A thread takes a permit of the gate when it starts to work and gives it  *)
(* back when it is done, whatever it made of it.                            *)
LEMMA GateCounts ==
  ASSUME NEW q \in Runs, Types, Sound, Conserved, Step(q)
  PROVE  gate' + Cardinality(Working') + Cardinality(Parsing') = ParseSlots
<1> DEFINE Kept == gate' + Cardinality(Working') + Cardinality(Parsing') = ParseSlots
<1>0. Stands(q) /\ gate \in Nat
  BY DEF Sound, Types
<1>1. ASSUME JobStarts(q) PROVE Kept
  <2>1. /\ job' = [job EXCEPT ![q] = "working"] /\ job[q] = "queued"
        /\ gate' = gate - 1 /\ thread' = thread
    BY <1>1 DEF JobStarts, rowVars
  <2>2. Working' = Working \cup {q} /\ q \notin Working /\ Parsing' = Parsing
    BY <2>1 DEF Working, Parsing, Types
  <2>3. Cardinality(Working') = Cardinality(Working) + 1
    BY <2>2, Counts, OneMore
  <2> QED BY <1>0, <2>1, <2>2, <2>3, Counts DEF Conserved
<1>2. ASSUME JobEnds(q) \/ JobFails(q) PROVE Kept
  <2>1. /\ job[q] = "working" /\ job'[q] # "working"
        /\ \A p \in Runs \ {q} : job'[p] = job[p]
        /\ gate' = gate + 1 /\ thread' = thread
    BY <1>2 DEF JobEnds, JobFails, rowVars, Types
  <2>2. Working' = Working \ {q} /\ q \in Working /\ Parsing' = Parsing
    BY <2>1 DEF Working, Parsing
  <2>3. Cardinality(Working') = Cardinality(Working) - 1
    BY <2>2, Counts, OneLess
  <2> QED BY <1>0, <2>1, <2>2, <2>3, Counts DEF Conserved
<1>3. ASSUME RunParses(q) PROVE Kept
  <2>1. /\ thread' = [thread EXCEPT ![q] = "parsing"] /\ thread[q] = "gate"
        /\ gate' = gate - 1 /\ job' = job
    BY <1>3 DEF RunParses, requestVars
  <2>2. Parsing' = Parsing \cup {q} /\ q \notin Parsing /\ Working' = Working
    BY <2>1 DEF Working, Parsing, Types
  <2>3. Cardinality(Parsing') = Cardinality(Parsing) + 1
    BY <2>2, Counts, OneMore
  <2> QED BY <1>0, <2>1, <2>2, <2>3, Counts DEF Conserved
<1>4. ASSUME RunParsed(q) \/ RunFails(q) PROVE Kept
  <2>1. /\ thread[q] = "parsing" /\ thread'[q] # "parsing"
        /\ \A p \in Runs \ {q} : thread'[p] = thread[p]
        /\ gate' = gate + 1 /\ job' = job
    BY <1>4 DEF RunParsed, RunFails, requestVars, Types
  <2>2. Parsing' = Parsing \ {q} /\ q \in Parsing /\ Working' = Working
    BY <2>1 DEF Working, Parsing
  <2>3. Cardinality(Parsing') = Cardinality(Parsing) - 1
    BY <2>2, Counts, OneLess
  <2> QED BY <1>0, <2>1, <2>2, <2>3, Counts DEF Conserved
<1>5. ASSUME gate' = gate,
             \A p \in Runs \ {q} : job'[p] = job[p] /\ thread'[p] = thread[p],
             "working" \in {job[q], job'[q]} => job'[q] = job[q],
             "parsing" \in {thread[q], thread'[q]} => thread'[q] = thread[q]
      PROVE  Kept
  <2>1. Working' = Working /\ Parsing' = Parsing
    BY <1>5 DEF Working, Parsing
  <2> QED BY <1>5, <2>1 DEF Conserved
<1>6. ASSUME \/ Saved(q) \/ JobSkipped(q) \/ Parse(q) \/ HandToAudit(q) \/ IngestNext(q)
             \/ Commit(q) \/ PreviewRaises(q) \/ MappingStops(q) \/ Apply(q) \/ Ends(q)
      PROVE  Kept
  <2>1. at[q] \in {"saving", "audit"} => job[q] = "none"
    BY <1>0 DEF Stands, Awaiting, Kinds
  <2>2. /\ job[q] # "working" /\ job'[q] # "working" /\ UNCHANGED <<gate, thread>>
        /\ \A p \in Runs \ {q} : job'[p] = job[p]
    BY <1>6, <2>1 DEF Saved, JobSkipped, Parse, HandToAudit, IngestNext, Commit, PreviewRaises,
       MappingStops, Apply, Ends, Discard, Submit, ClearJob, Resumes, Stopped, rowVars, Types
  <2> QED BY <1>5, <2>2
<1>7. ASSUME \/ Admit(q) \/ Cancel(q) \/ CancelWaiting(q) \/ Reject(q)
             \/ \E o \in Offers : Arrive(q, o)
             \/ \E m \in Modes : Start(q, m)
      PROVE  Kept
  <2>1. UNCHANGED <<gate, job, thread>>
    BY <1>7 DEF Admit, Cancel, CancelWaiting, Reject, Arrive, Start, rowVars, requestVars
  <2> QED BY <1>5, <2>1
<1>8. ASSUME Begin(q) \/ \E s \in {"done", "error"} : RunEnds(q, s) PROVE Kept
  <2>1. /\ thread[q] # "parsing" /\ thread'[q] # "parsing" /\ UNCHANGED <<gate, job>>
        /\ \A p \in Runs \ {q} : thread'[p] = thread[p]
    BY <1>0, <1>8 DEF Begin, RunEnds, Stands, requestVars, Types
  <2> QED BY <1>5, <2>1
<1> QED BY <1>1, <1>2, <1>3, <1>4, <1>6, <1>7, <1>8 DEF Step

IInv == Shape /\ Conserved

LEMMA InitIInv == Init => IInv
<1> SUFFICES ASSUME Init PROVE IInv
  OBVIOUS
<1>1. Inside = {} /\ Working = {} /\ Parsing = {}
  BY DEF Init, Inside, Working, Parsing, Admitted, Kinds
<1> QED BY <1>1, InitShape, FS_EmptySet DEF IInv, Conserved, Init

LEMMA IInvStep == IInv /\ [Next]_vars => IInv'
<1> SUFFICES ASSUME IInv, [Next]_vars PROVE IInv'
  OBVIOUS
<1>0. Shape' /\ Types /\ Sound /\ Conserved
  BY ShapeStep DEF IInv, Shape
<1>1. ASSUME NEW q \in Runs, Step(q) PROVE Conserved'
  BY <1>0, <1>1, AdmissionCounts, GateCounts DEF Conserved
<1>2. ASSUME NEW I \in SUBSET Runs, Dies(I) PROVE Conserved'
  <2>1. Inside' = {} /\ Working' = {} /\ Parsing' = {}
    BY <1>0, <1>2 DEF Dies, Restart, Inside, Working, Parsing, Admitted, Kinds
  <2> QED BY <1>2, <2>1, FS_EmptySet DEF Conserved, Dies, Restart
<1>3. ASSUME UNCHANGED <<at, applies, job, thread, admission, gate>> PROVE Conserved'
  BY <1>0, <1>3 DEF Conserved, Inside, Working, Parsing, Audited
<1>4. ASSUME NEW k \in Kinds, Remove(k) PROVE Conserved'
  BY <1>3, <1>4 DEF Remove, requestVars, rowVars
<1>5. CASE UNCHANGED vars
  <2>1. UNCHANGED <<at, applies, job, thread, admission, gate>>
    BY <1>5 DEF vars, requestVars, rowVars
  <2> QED BY <1>0, <1>3, <2>1 DEF IInv
<1>6. ASSUME Next PROVE Conserved'
  BY <1>0, <1>1, <1>2, <1>4, <1>6, NextCases
<1> QED BY <1>0, <1>5, <1>6 DEF IInv

THEOREM IInvAlways == Spec => []IInv
BY InitIInv, IInvStep, PTL DEF Spec

-----------------------------------------------------------------------------
(* No permit is lost or given back twice, no worker is left behind by the   *)
(* request that owns its directory, and a request that is answered leaves a *)
(* directory exactly if it left a row.                                      *)
THEOREM PermitsAlwaysSound == Spec => []PermitsAreSound
<1>1. IInv => PermitsAreSound
  <2> SUFFICES ASSUME IInv PROVE PermitsAreSound
    OBVIOUS
  <2>1. Types /\ Conserved /\ \A q \in Runs : Stands(q)
    BY DEF IInv, Shape, Sound
  <2>2. admission \in 0..UploadSlots /\ gate \in 0..ParseSlots
    BY <2>1, Counts DEF Conserved, Types
  <2>3. TypeOK
    BY <2>1, <2>2 DEF TypeOK, Types
  <2>4. PermitsAreConserved
    BY <2>1 DEF PermitsAreConserved, Conserved, Inside, Working, Parsing, Admitted
  <2>5. NoDetachedWorker
    BY <2>1 DEF NoDetachedWorker, Stands
  <2> QED BY <2>3, <2>4, <2>5 DEF PermitsAreSound
<1> QED BY <1>1, IInvAlways, PTL

(* A finished run has checked the lists its preview showed.                 *)
THEOREM RunsReadTheirLists == Spec => []RunReadsItsLists
<1>1. IInv => RunReadsItsLists
  <2> SUFFICES ASSUME IInv, NEW r \in Runs, status[r] = "done", NEW k \in Kinds
               PROVE  used[r][k] =
                        IF k \in Checked(mode[r]) /\ upload[r][k] # NoFile
                        THEN [file |-> upload[r][k], sheet |-> k]
                        ELSE IF k \in Checked(mode[r]) /\ listed[r][k] \notin {NoHash, OldHash}
                        THEN [file |-> listed[r][k][1], sheet |-> k]
                        ELSE NoRows
    BY DEF RunReadsItsLists
  <2>1. Lists(r) /\ Types
    BY DEF IInv, Shape, Sound
  <2>2. used[r][k] = Shown(r)[k] /\ Brought(r, k)
    BY <2>1 DEF Lists, Kinds
  <2>3. ASSUME upload[r][k] # NoFile
        PROVE  listed[r][k] \notin {NoHash, OldHash} /\ listed[r][k][1] = upload[r][k]
    <3>1. upload[r][k] \in Files
      BY <2>1, <2>3 DEF Types
    <3>2. listed[r][k] = HashOf(upload[r][k], k)
      BY <2>2, <2>3 DEF Brought
    <3>3. HashOf(upload[r][k], k) \in Files \X Kinds
      BY <3>1, HashesThere
    <3> QED BY <3>2, <3>3 DEF HashOf
  <2> QED BY <2>2, <2>3 DEF Shown
<1> QED BY <1>1, IInvAlways, PTL

(* A cancelled request starts no work and leaves no row.                    *)
CancelledStays ==
  \A q \in cancelled : /\ job'[q] = "working" => job[q] = "working"
                       /\ status[q] = "absent" => status'[q] = "absent"

THEOREM CancelledNeverRuns == Spec => CancellationWins
<1>1. IInv /\ [Next]_vars => [CancelledStays]_vars
  <2> SUFFICES ASSUME IInv, [Next]_vars PROVE [CancelledStays]_vars
    OBVIOUS
  <2>0. Types /\ Sound /\ cancelled \subseteq Runs
    BY DEF IInv, Shape, Types
  <2>1. ASSUME NEW q \in Runs, Step(q), NEW p \in cancelled
        PROVE  /\ job'[p] = "working" => job[p] = "working"
               /\ status[p] = "absent" => status'[p] = "absent"
    <3>1. Stands(q)
      BY <2>0 DEF Sound
    <3> QED BY <2>0, <2>1, <3>1 DEF Step, Stands, Types, requestVars, rowVars, Submit,
       ClearJob, Resumes,
               Ends, Discard, Awaiting, Kinds, Admit, Saved, JobStarts,
                  JobSkipped, JobEnds, JobFails, Parse, HandToAudit, IngestNext,
                  Commit, PreviewRaises, MappingStops, Cancel, CancelWaiting, Apply, Reject,
                  Begin, RunParses, RunParsed, RunFails, Arrive, Start, RunEnds
  <2>2. ASSUME NEW I \in SUBSET Runs, Dies(I) PROVE CancelledStays
    BY <2>0, <2>2 DEF Dies, Restart, CancelledStays
  <2>3. ASSUME NEW k \in Kinds, Remove(k) PROVE CancelledStays
    BY <2>3 DEF Remove, requestVars, rowVars, CancelledStays
  <2> QED BY <2>0, <2>1, <2>2, <2>3, NextCases DEF CancelledStays
<1>2. Spec => [][CancelledStays]_vars
  BY <1>1, IInvAlways, PTL DEF Spec
<1> QED BY <1>2 DEF CancellationWins, CancelledStays

(* A default changes by its removal or the first start of a run that        *)
(* brought the list.                                                        *)
DefaultsStay ==
  \A k \in Kinds : current'[k] \notin {current[k], NoHash} => \E r \in Runs : Earned(r, k)

THEOREM PromotionsAreEarned == Spec => PromotionIsEarned
<1>1. IInv /\ [Next]_vars => [DefaultsStay]_vars
  <2> SUFFICES ASSUME IInv, [Next]_vars PROVE [DefaultsStay]_vars
    OBVIOUS
  <2>0. Types /\ Sound
    BY DEF IInv, Shape
  <2>1. ASSUME NEW q \in Runs, NEW m \in Modes, Start(q, m) PROVE DefaultsStay
    BY <2>0, <2>1, StartEarns DEF Start, Defaults, DefaultsStay
  <2>2. ASSUME NEW q \in Runs, Step(q) PROVE DefaultsStay
    <3>1. ASSUME UNCHANGED current PROVE DefaultsStay
      BY <3>1 DEF DefaultsStay
    <3> QED BY <2>1, <2>2, <3>1 DEF Step, listVars,
               Ends, Discard, Admit, Saved, JobStarts, JobSkipped, JobEnds,
                  JobFails, Parse, HandToAudit, IngestNext, Commit, PreviewRaises,
                  MappingStops, Cancel, CancelWaiting, Apply, Reject, Begin, RunParses,
                  RunParsed, RunFails, Arrive, RunEnds
  <2>3. ASSUME NEW I \in SUBSET Runs, Dies(I) PROVE DefaultsStay
    BY <2>3 DEF Dies, Defaults, DefaultsStay
  <2>4. ASSUME NEW k \in Kinds, Remove(k) PROVE DefaultsStay
    BY <2>0, <2>4 DEF Remove, Types, DefaultsStay
  <2> QED BY <2>0, <2>2, <2>3, <2>4, NextCases DEF DefaultsStay
<1>2. Spec => [][DefaultsStay]_vars
  BY <1>1, IInvAlways, PTL DEF Spec
<1> QED BY <1>2 DEF PromotionIsEarned, DefaultsStay, Earned
=============================================================================
