--------------------------- MODULE RetentionProofs ---------------------------
(***************************************************************************)
(* Proofs about Retention, for any directories and requests, any number of *)
(* slots and pending audits and any choice of features.  The inductive     *)
(* invariant says who a directory belongs to at every stage of a request   *)
(* and of the sweep (Shape), and that leases and slots are counted right   *)
(* (NothingLeaks).                                                         *)
(***************************************************************************)
EXTENDS Retention, FiniteSetTheorems, TLAPS

USE RetentionAssumption

(* Requests that own staged files no row stands for yet, and those among    *)
(* them that continue an audit.                                             *)
Applying == {"applying", "continuing", "parsed", "failing", "popping"}
Owning   == {"uploading", "previewing", "rejecting"} \cup Applying

(* The sweep has renamed the directory away, and still has the claim.       *)
Claiming == {"forget", "restore", "settle"}

Types ==
  /\ disk \in [Dirs -> Disk] /\ row \in [Dirs -> Row]
  /\ overridden \subseteq Dirs
  /\ leases \in [Dirs -> Nat]
  /\ claims \subseteq Dirs
  /\ audits \subseteq Dirs /\ auditing \subseteq audits
  /\ freeSlots \in Nat
  /\ handler \in [Handlers -> HandlerState]
  /\ sweep \in SweepState

(* What a request may rely on. *)
Relies(h) ==
  LET q == handler[h] IN
  /\ q.at # "idle" => q.dir \in Dirs /\ disk[q.dir] # "none"
  /\ q.at \in Owning \ {"popping"} => row[q.dir] = "absent"
  /\ q.at \in {"uploading", "previewing", "rejecting"} => q.dir \notin audits
  /\ q.at \in Applying => q.dir \in auditing
  /\ q.at \in {"uploading", "previewing"} => disk[q.dir] = "present"
  /\ q.at \in {"writing", "streaming"} => row[q.dir] = "done"
  /\ q.at = "streaming" => disk[q.dir] = "present"

(* Staged files have one owner. *)
OneOwner ==
  \A g, h \in Handlers :
    g # h /\ handler[g].at \in Owning /\ handler[h].at \in Owning
      => handler[g].dir # handler[h].dir

(* An audit nobody is applying has no row and no owner but itself. *)
AuditsWait ==
  /\ \A d \in audits : disk[d] # "none"
  /\ \A d \in audits \ auditing :
       row[d] = "absent" /\ \A h \in Handlers : handler[h].at \in Owning => handler[h].dir # d

Unused == \A d \in Dirs : disk[d] = "none" => row[d] = "absent"

SweepHolds ==
  /\ sweep.at # "idle" => sweep.dir \in Dirs /\ disk[sweep.dir] # "none"
  /\ sweep.at \in Claiming => sweep.dir \in claims
  /\ sweep.at \in Claiming \cup {"remove"} => disk[sweep.dir] = "trash"

Shape ==
  /\ Types /\ \A h \in Handlers : Relies(h)
  /\ OneOwner /\ AuditsWait /\ Unused /\ SweepHolds /\ ClaimsAreExclusive

(* No request has a lease on a directory without leases. *)
Unleased == \A d \in Dirs : leases[d] = 0 => Holders(d) = {}

-----------------------------------------------------------------------------
LEMMA InitShape == Init => Shape
  BY DEF Init, Shape, Types, Disk, Row, HandlerState, Stages, Free, SweepState, Steps, Asleep,
         Relies, Owning, Applying, OneOwner, AuditsWait, Unused, SweepHolds, Claiming,
         ClaimsAreExclusive


-----------------------------------------------------------------------------
(* What each step does to the shape.                                        *)

USE DEF Shape, Types, Relies, Owning, Applying, OneOwner, AuditsWait, Unused, SweepHolds,
        Claiming, ClaimsAreExclusive, tables, locks, tokens, At, Idle, Enter, Goto, Leave, Free

(* A fresh directory. *)
LEMMA UploadBeginShape ==
  ASSUME Shape, Unleased, NEW h \in Handlers, NEW d \in Dirs, UploadBegin(h, d)
  PROVE  Shape'
<1> USE DEF UploadBegin, Register
<1>1. Types'
  BY DEF HandlerState, Stages, Disk, Row, SweepState, Steps
<1>2. \A g \in Handlers : Relies(g)'
  OBVIOUS
<1>3. OneOwner' /\ AuditsWait' /\ Unused'
  OBVIOUS
<1>4. SweepHolds' /\ ClaimsAreExclusive'
  OBVIOUS
<1> QED
  BY <1>1, <1>2, <1>3, <1>4

(* A failed upload. *)
LEMMA UploadFailsShape ==
  ASSUME Shape, Unleased, NEW h \in Handlers, UploadFails(h)
  PROVE  Shape'
<1> USE DEF UploadFails, RemoveTrees
<1>1. Types'
  BY DEF HandlerState, Stages, Disk, Row, SweepState, Steps
<1>2. \A g \in Handlers : Relies(g)'
  OBVIOUS
<1>3. OneOwner' /\ AuditsWait' /\ Unused'
  OBVIOUS
<1>4. SweepHolds' /\ ClaimsAreExclusive'
  OBVIOUS
<1> QED
  BY <1>1, <1>2, <1>3, <1>4

(* An upload that has read its workbooks. *)
LEMMA UploadParsesShape ==
  ASSUME Shape, Unleased, NEW h \in Handlers, UploadParses(h)
  PROVE  Shape'
<1> USE DEF UploadParses
<1>1. Types'
  BY DEF HandlerState, Stages, Disk, Row, SweepState, Steps
<1>2. \A g \in Handlers : Relies(g)'
  OBVIOUS
<1>3. OneOwner' /\ AuditsWait' /\ Unused'
  OBVIOUS
<1>4. SweepHolds' /\ ClaimsAreExclusive'
  OBVIOUS
<1> QED
  BY <1>1, <1>2, <1>3, <1>4

(* ... and whose preview raises. *)
LEMMA UploadBreaksShape ==
  ASSUME Shape, Unleased, NEW h \in Handlers, UploadBreaks(h)
  PROVE  Shape'
<1> USE DEF UploadBreaks
<1>1. Types'
  BY DEF HandlerState, Stages, Disk, Row, SweepState, Steps
<1>2. \A g \in Handlers : Relies(g)'
  OBVIOUS
<1>3. OneOwner' /\ AuditsWait' /\ Unused'
  OBVIOUS
<1>4. SweepHolds' /\ ClaimsAreExclusive'
  OBVIOUS
<1> QED
  BY <1>1, <1>2, <1>3, <1>4

(* An upload with its row. *)
LEMMA UploadCommitsShape ==
  ASSUME Shape, Unleased, NEW h \in Handlers, UploadCommits(h)
  PROVE  Shape'
<1> USE DEF UploadCommits
<1>1. Types'
  BY DEF HandlerState, Stages, Disk, Row, SweepState, Steps
<1>2. \A g \in Handlers : Relies(g)'
  OBVIOUS
<1>3. OneOwner' /\ AuditsWait' /\ Unused'
  OBVIOUS
<1>4. SweepHolds' /\ ClaimsAreExclusive'
  OBVIOUS
<1> QED
  BY <1>1, <1>2, <1>3, <1>4

(* An upload that waits for its audit. *)
LEMMA UploadAwaitsShape ==
  ASSUME Shape, Unleased, NEW h \in Handlers, NEW evicted \in SUBSET audits,
         UploadAwaitsAudit(h, evicted)
  PROVE  Shape'
<1> USE DEF UploadAwaitsAudit, RemoveTrees
<1>1. Types'
  BY DEF HandlerState, Stages, Disk, Row, SweepState, Steps
<1>2. \A g \in Handlers : Relies(g)'
  OBVIOUS
<1>3. OneOwner' /\ AuditsWait' /\ Unused'
  OBVIOUS
<1>4. SweepHolds' /\ ClaimsAreExclusive'
  OBVIOUS
<1> QED
  BY <1>1, <1>2, <1>3, <1>4

(* A lease is dropped. *)
LEMMA DropLeaseShape ==
  ASSUME Shape, Unleased, NEW h \in Handlers, DropLease(h)
  PROVE  Shape'
<1> USE DEF DropLease, Unregister, Holders, Unleased, Leasing
<1>1. Types'
  BY DEF HandlerState, Stages, Disk, Row, SweepState, Steps
<1>2. \A g \in Handlers : Relies(g)'
  OBVIOUS
<1>3. OneOwner' /\ AuditsWait' /\ Unused'
  OBVIOUS
<1>4. SweepHolds' /\ ClaimsAreExclusive'
  OBVIOUS
<1> QED
  BY <1>1, <1>2, <1>3, <1>4

(* An audit is taken up. *)
LEMMA ApplyBeginShape ==
  ASSUME Shape, Unleased, NEW h \in Handlers, NEW d \in Dirs, ApplyBegin(h, d)
  PROVE  Shape'
<1> USE DEF ApplyBegin
<1>1. Types'
  BY DEF HandlerState, Stages, Disk, Row, SweepState, Steps
<1>2. \A g \in Handlers : Relies(g)'
  OBVIOUS
<1>3. OneOwner' /\ AuditsWait' /\ Unused'
  OBVIOUS
<1>4. SweepHolds' /\ ClaimsAreExclusive'
  OBVIOUS
<1> QED
  BY <1>1, <1>2, <1>3, <1>4

(* An apply that goes on. *)
LEMMA ApplyRemapsShape ==
  ASSUME Shape, Unleased, NEW h \in Handlers, ApplyRemaps(h)
  PROVE  Shape'
<1> USE DEF ApplyRemaps
<1>1. Types'
  BY DEF HandlerState, Stages, Disk, Row, SweepState, Steps
<1>2. \A g \in Handlers : Relies(g)'
  OBVIOUS
<1>3. OneOwner' /\ AuditsWait' /\ Unused'
  OBVIOUS
<1>4. SweepHolds' /\ ClaimsAreExclusive'
  OBVIOUS
<1> QED
  BY <1>1, <1>2, <1>3, <1>4

(* ... that cannot. *)
LEMMA RemapRaisesShape ==
  ASSUME Shape, Unleased, NEW h \in Handlers, RemapRaises(h)
  PROVE  Shape'
<1> USE DEF RemapRaises
<1>1. Types'
  BY DEF HandlerState, Stages, Disk, Row, SweepState, Steps
<1>2. \A g \in Handlers : Relies(g)'
  OBVIOUS
<1>3. OneOwner' /\ AuditsWait' /\ Unused'
  OBVIOUS
<1>4. SweepHolds' /\ ClaimsAreExclusive'
  OBVIOUS
<1> QED
  BY <1>1, <1>2, <1>3, <1>4

(* ... that has read its workbooks. *)
LEMMA ApplyParsesShape ==
  ASSUME Shape, Unleased, NEW h \in Handlers, ApplyParses(h)
  PROVE  Shape'
<1> USE DEF ApplyParses
<1>1. Types'
  BY DEF HandlerState, Stages, Disk, Row, SweepState, Steps
<1>2. \A g \in Handlers : Relies(g)'
  OBVIOUS
<1>3. OneOwner' /\ AuditsWait' /\ Unused'
  OBVIOUS
<1>4. SweepHolds' /\ ClaimsAreExclusive'
  OBVIOUS
<1> QED
  BY <1>1, <1>2, <1>3, <1>4

(* An apply that removes its staging. *)
LEMMA ApplyRejectsShape ==
  ASSUME Shape, Unleased, NEW h \in Handlers, ApplyRejects(h)
  PROVE  Shape'
<1> USE DEF ApplyRejects, RemoveTrees
<1>1. Types'
  BY DEF HandlerState, Stages, Disk, Row, SweepState, Steps
<1>2. \A g \in Handlers : Relies(g)'
  OBVIOUS
<1>3. OneOwner' /\ AuditsWait' /\ Unused'
  OBVIOUS
<1>4. SweepHolds' /\ ClaimsAreExclusive'
  OBVIOUS
<1> QED
  BY <1>1, <1>2, <1>3, <1>4

(* An apply whose preview raises. *)
LEMMA ApplyBreaksShape ==
  ASSUME Shape, Unleased, NEW h \in Handlers, ApplyBreaks(h)
  PROVE  Shape'
<1> USE DEF ApplyBreaks
<1>1. Types'
  BY DEF HandlerState, Stages, Disk, Row, SweepState, Steps
<1>2. \A g \in Handlers : Relies(g)'
  OBVIOUS
<1>3. OneOwner' /\ AuditsWait' /\ Unused'
  OBVIOUS
<1>4. SweepHolds' /\ ClaimsAreExclusive'
  OBVIOUS
<1> QED
  BY <1>1, <1>2, <1>3, <1>4

(* An apply that removes its staging and ends the audit. *)
LEMMA ApplyRaisesShape ==
  ASSUME Shape, Unleased, NEW h \in Handlers, ApplyRaises(h)
  PROVE  Shape'
<1> USE DEF ApplyRaises, RemoveTrees
<1>1. Types'
  BY DEF HandlerState, Stages, Disk, Row, SweepState, Steps
<1>2. \A g \in Handlers : Relies(g)'
  OBVIOUS
<1>3. OneOwner' /\ AuditsWait' /\ Unused'
  OBVIOUS
<1>4. SweepHolds' /\ ClaimsAreExclusive'
  OBVIOUS
<1> QED
  BY <1>1, <1>2, <1>3, <1>4

(* An apply with its row. *)
LEMMA ApplyCommitsShape ==
  ASSUME Shape, Unleased, NEW h \in Handlers, ApplyCommits(h)
  PROVE  Shape'
<1> USE DEF ApplyCommits
<1>1. Types'
  BY DEF HandlerState, Stages, Disk, Row, SweepState, Steps
<1>2. \A g \in Handlers : Relies(g)'
  OBVIOUS
<1>3. OneOwner' /\ AuditsWait' /\ Unused'
  OBVIOUS
<1>4. SweepHolds' /\ ClaimsAreExclusive'
  OBVIOUS
<1> QED
  BY <1>1, <1>2, <1>3, <1>4

(* An audit that may be applied again. *)
LEMMA ApplyReleasesShape ==
  ASSUME Shape, Unleased, NEW h \in Handlers, NEW expired \in BOOLEAN, ApplyReleases(h, expired)
  PROVE  Shape'
<1> USE DEF ApplyReleases, RemoveTrees
<1>1. Types'
  BY DEF HandlerState, Stages, Disk, Row, SweepState, Steps
<1>2. \A g \in Handlers : Relies(g)'
  OBVIOUS
<1>3. OneOwner' /\ AuditsWait' /\ Unused'
  OBVIOUS
<1>4. SweepHolds' /\ ClaimsAreExclusive'
  OBVIOUS
<1> QED
  BY <1>1, <1>2, <1>3, <1>4

(* An audit that is over. *)
LEMMA ApplyPopsShape ==
  ASSUME Shape, Unleased, NEW h \in Handlers, ApplyPops(h)
  PROVE  Shape'
<1> USE DEF ApplyPops, Pop
<1>1. Types'
  BY DEF HandlerState, Stages, Disk, Row, SweepState, Steps
<1>2. \A g \in Handlers : Relies(g)'
  OBVIOUS
<1>3. OneOwner' /\ AuditsWait' /\ Unused'
  OBVIOUS
<1>4. SweepHolds' /\ ClaimsAreExclusive'
  OBVIOUS
<1> QED
  BY <1>1, <1>2, <1>3, <1>4

(* A rejection. *)
LEMMA RejectPopsShape ==
  ASSUME Shape, Unleased, NEW h \in Handlers, NEW d \in Dirs, RejectPops(h, d)
  PROVE  Shape'
<1> USE DEF RejectPops, Pop
<1>1. Types'
  BY DEF HandlerState, Stages, Disk, Row, SweepState, Steps
<1>2. \A g \in Handlers : Relies(g)'
  OBVIOUS
<1>3. OneOwner' /\ AuditsWait' /\ Unused'
  OBVIOUS
<1>4. SweepHolds' /\ ClaimsAreExclusive'
  OBVIOUS
<1> QED
  BY <1>1, <1>2, <1>3, <1>4

(* ... and its end. *)
LEMMA RejectRemovesShape ==
  ASSUME Shape, Unleased, NEW h \in Handlers, RejectRemoves(h)
  PROVE  Shape'
<1> USE DEF RejectRemoves, RemoveTrees
<1>1. Types'
  BY DEF HandlerState, Stages, Disk, Row, SweepState, Steps
<1>2. \A g \in Handlers : Relies(g)'
  OBVIOUS
<1>3. OneOwner' /\ AuditsWait' /\ Unused'
  OBVIOUS
<1>4. SweepHolds' /\ ClaimsAreExclusive'
  OBVIOUS
<1> QED
  BY <1>1, <1>2, <1>3, <1>4

(* An audit lapses. *)
LEMMA ExpireShape ==
  ASSUME Shape, Unleased, NEW d \in Dirs, Expire(d)
  PROVE  Shape'
<1> USE DEF Expire, RemoveTrees
<1>1. Types'
  BY DEF HandlerState, Stages, Disk, Row, SweepState, Steps
<1>2. \A g \in Handlers : Relies(g)'
  OBVIOUS
<1>3. OneOwner' /\ AuditsWait' /\ Unused'
  OBVIOUS
<1>4. SweepHolds' /\ ClaimsAreExclusive'
  OBVIOUS
<1> QED
  BY <1>1, <1>2, <1>3, <1>4

(* A start. *)
LEMMA StartBeginShape ==
  ASSUME Shape, Unleased, NEW h \in Handlers, NEW d \in Dirs, StartBegin(h, d)
  PROVE  Shape'
<1> USE DEF StartBegin, Register
<1>1. Types'
  BY DEF HandlerState, Stages, Disk, Row, SweepState, Steps
<1>2. \A g \in Handlers : Relies(g)'
  OBVIOUS
<1>3. OneOwner' /\ AuditsWait' /\ Unused'
  OBVIOUS
<1>4. SweepHolds' /\ ClaimsAreExclusive'
  OBVIOUS
<1> QED
  BY <1>1, <1>2, <1>3, <1>4

(* A run is queued. *)
LEMMA StartQueuesShape ==
  ASSUME Shape, Unleased, NEW h \in Handlers, StartQueues(h)
  PROVE  Shape'
<1> USE DEF StartQueues, SetStatus
<1>1. Types'
  BY SMTT(30) DEF HandlerState, Stages, Disk, Row, SweepState, Steps
<1>2. \A g \in Handlers : Relies(g)'
  OBVIOUS
<1>3. OneOwner' /\ AuditsWait' /\ Unused'
  OBVIOUS
<1>4. SweepHolds' /\ ClaimsAreExclusive'
  OBVIOUS
<1> QED
  BY <1>1, <1>2, <1>3, <1>4

(* A run goes on. *)
LEMMA WorkerShape ==
  ASSUME Shape, Unleased, NEW d \in Dirs, NEW from \in {"queued", "running"},
         NEW to \in Row, to # "absent", WorkerStep(d, from, to)
  PROVE  Shape'
<1> USE DEF WorkerStep, SetStatus
<1>1. Types'
  BY DEF HandlerState, Stages, Disk, Row, SweepState, Steps
<1>2. \A g \in Handlers : Relies(g)'
  OBVIOUS
<1>3. OneOwner' /\ AuditsWait' /\ Unused'
  OBVIOUS
<1>4. SweepHolds' /\ ClaimsAreExclusive'
  OBVIOUS
<1> QED
  BY <1>1, <1>2, <1>3, <1>4

(* An export. *)
LEMMA ExportBeginShape ==
  ASSUME Shape, Unleased, NEW h \in Handlers, NEW d \in Dirs, ExportBegin(h, d)
  PROVE  Shape'
<1> USE DEF ExportBegin, Register
<1>1. Types'
  BY DEF HandlerState, Stages, Disk, Row, SweepState, Steps
<1>2. \A g \in Handlers : Relies(g)'
  OBVIOUS
<1>3. OneOwner' /\ AuditsWait' /\ Unused'
  OBVIOUS
<1>4. SweepHolds' /\ ClaimsAreExclusive'
  OBVIOUS
<1> QED
  BY <1>1, <1>2, <1>3, <1>4

(* An export that goes on. *)
LEMMA ExportFindsRunShape ==
  ASSUME Shape, Unleased, NEW h \in Handlers, ExportFindsRun(h)
  PROVE  Shape'
<1> USE DEF ExportFindsRun
<1>1. Types'
  BY DEF HandlerState, Stages, Disk, Row, SweepState, Steps
<1>2. \A g \in Handlers : Relies(g)'
  OBVIOUS
<1>3. OneOwner' /\ AuditsWait' /\ Unused'
  OBVIOUS
<1>4. SweepHolds' /\ ClaimsAreExclusive'
  OBVIOUS
<1> QED
  BY <1>1, <1>2, <1>3, <1>4

(* ... and streams. *)
LEMMA ExportStreamsShape ==
  ASSUME Shape, Unleased, NEW h \in Handlers, ExportStreams(h)
  PROVE  Shape'
<1> USE DEF ExportStreams
<1>1. Types'
  BY DEF HandlerState, Stages, Disk, Row, SweepState, Steps
<1>2. \A g \in Handlers : Relies(g)'
  OBVIOUS
<1>3. OneOwner' /\ AuditsWait' /\ Unused'
  OBVIOUS
<1>4. SweepHolds' /\ ClaimsAreExclusive'
  OBVIOUS
<1> QED
  BY <1>1, <1>2, <1>3, <1>4

(* An export that ends. *)
LEMMA ExportEndsShape ==
  ASSUME Shape, Unleased, NEW h \in Handlers, ExportEnds(h)
  PROVE  Shape'
<1> USE DEF ExportEnds, Unregister, Exporting
<1>1. Types'
  BY DEF HandlerState, Stages, Disk, Row, SweepState, Steps
<1>2. \A g \in Handlers : Relies(g)'
  OBVIOUS
<1>3. OneOwner' /\ AuditsWait' /\ Unused'
  OBVIOUS
<1>4. SweepHolds' /\ ClaimsAreExclusive'
  OBVIOUS
<1> QED
  BY <1>1, <1>2, <1>3, <1>4

(* An override. *)
LEMMA OverrideShape ==
  ASSUME Shape, Unleased, NEW h \in Handlers, 
         (\E d \in Dirs : OverrideBegin(h, d)) \/ OverrideWrites(h)
  PROVE  Shape'
<1> USE DEF OverrideBegin, OverrideWrites
<1>1. Types'
  BY DEF HandlerState, Stages, Disk, Row, SweepState, Steps
<1>2. \A g \in Handlers : Relies(g)'
  OBVIOUS
<1>3. OneOwner' /\ AuditsWait' /\ Unused'
  OBVIOUS
<1>4. SweepHolds' /\ ClaimsAreExclusive'
  OBVIOUS
<1> QED
  BY <1>1, <1>2, <1>3, <1>4

LEMMA SweepTyped ==
  ASSUME sweep \in SweepState
  PROVE  /\ Asleep \in SweepState
         /\ \A s \in Steps : [sweep EXCEPT !.at = s] \in SweepState
         /\ \A s \in Steps, a \in BOOLEAN : [sweep EXCEPT !.at = s, !.audit = a] \in SweepState
         /\ \A s \in Steps, d \in Dirs : [Asleep EXCEPT !.at = s, !.dir = d] \in SweepState
  BY DEF SweepState, Asleep, Steps

(* The sweep picks a directory. *)
LEMMA SweepPicksShape ==
  ASSUME Shape, Unleased, NEW d \in Dirs, SweepPicks(d)
  PROVE  Shape'
<1> USE DEF SweepPicks, Asleep
<1>1. sweep' \in SweepState /\ UNCHANGED claims
  BY SweepTyped DEF Steps
<1>2. Types'
  BY <1>1 DEF Disk, Row
<1>3. \A g \in Handlers : Relies(g)'
  BY <1>1
<1>4. OneOwner' /\ AuditsWait' /\ Unused'
  BY <1>1
<1>5. SweepHolds' /\ ClaimsAreExclusive'
  BY <1>1 DEF SweepState
<1> QED
  BY <1>2, <1>3, <1>4, <1>5

(* It looks at the audits, *)
LEMMA SweepReadsAuditsShape ==
  ASSUME Shape, Unleased, SweepReadsAudits
  PROVE  Shape'
<1> USE DEF SweepReadsAudits
<1>0. (sweep.dir \in audits) \in BOOLEAN
  OBVIOUS
<1>1. sweep' \in SweepState /\ UNCHANGED claims
  BY <1>0, SweepTyped, Zenon DEF Steps
<1>2. Types'
  BY <1>1 DEF Disk, Row
<1>3. \A g \in Handlers : Relies(g)'
  BY <1>1
<1>4. OneOwner' /\ AuditsWait' /\ Unused'
  BY <1>1
<1>5. SweepHolds' /\ ClaimsAreExclusive'
  BY <1>1 DEF SweepState
<1> QED
  BY <1>2, <1>3, <1>4, <1>5

(* the leases, *)
LEMMA SweepReadsLeasesShape ==
  ASSUME Shape, Unleased, SweepReadsLeases
  PROVE  Shape'
<1> USE DEF SweepReadsLeases, Protected, SweepTo, Asleep
<1>1. sweep' \in SweepState /\ UNCHANGED claims
  BY SweepTyped DEF Steps
<1>2. Types'
  BY <1>1 DEF Disk, Row
<1>3. \A g \in Handlers : Relies(g)'
  BY <1>1
<1>4. OneOwner' /\ AuditsWait' /\ Unused'
  BY <1>1
<1>5. SweepHolds' /\ ClaimsAreExclusive'
  BY <1>1 DEF SweepState
<1> QED
  BY <1>2, <1>3, <1>4, <1>5

(* and the row. *)
LEMMA SweepReadsRowShape ==
  ASSUME Shape, Unleased, SweepReadsRow
  PROVE  Shape'
<1> USE DEF SweepReadsRow, Protected, SweepTo, Asleep
<1>1. sweep' \in SweepState /\ UNCHANGED claims
  BY SweepTyped DEF Steps
<1>2. Types'
  BY <1>1 DEF Disk, Row
<1>3. \A g \in Handlers : Relies(g)'
  BY <1>1
<1>4. OneOwner' /\ AuditsWait' /\ Unused'
  BY <1>1
<1>5. SweepHolds' /\ ClaimsAreExclusive'
  BY <1>1 DEF SweepState
<1> QED
  BY <1>2, <1>3, <1>4, <1>5

(* The sweep claims a directory. *)
LEMMA SweepClaimsShape ==
  ASSUME Shape, Unleased, SweepClaims
  PROVE  Shape'
<1> USE DEF SweepClaims, Claimable, SweepTo, Asleep, Unleased, Holders, Leasing
<1>1. sweep' \in SweepState /\ sweep.dir \in Dirs
  BY SweepTyped DEF Steps
<1>2. Types'
  BY <1>1 DEF Disk, Row
<1>3. \A g \in Handlers : Relies(g)'
  BY <1>1
<1>4. OneOwner' /\ AuditsWait' /\ Unused'
  BY <1>1
<1>5. SweepHolds' /\ ClaimsAreExclusive'
  BY <1>1 DEF SweepState
<1> QED
  BY <1>2, <1>3, <1>4, <1>5

(* It forgets the row. *)
LEMMA SweepForgetsShape ==
  ASSUME Shape, Unleased, SweepForgets
  PROVE  Shape'
<1> USE DEF SweepForgets, SweepTo, Unleased, Holders, Leasing
<1>1. sweep' \in SweepState /\ sweep.dir \in Dirs
  BY SweepTyped DEF Steps
<1>2. Types'
  BY <1>1 DEF Disk, Row
<1>3. \A g \in Handlers : Relies(g)'
  BY <1>1
<1>4. OneOwner' /\ AuditsWait' /\ Unused'
  BY <1>1
<1>5. SweepHolds' /\ ClaimsAreExclusive'
  BY <1>1 DEF SweepState
<1> QED
  BY <1>2, <1>3, <1>4, <1>5

(* It cannot forget the row. *)
LEMMA ForgetFailsShape ==
  ASSUME Shape, Unleased, ForgetFails
  PROVE  Shape'
<1> USE DEF ForgetFails, SweepTo
<1>1. sweep' \in SweepState /\ sweep.dir \in Dirs
  BY SweepTyped DEF Steps
<1>2. Types'
  BY <1>1 DEF Disk, Row
<1>3. \A g \in Handlers : Relies(g)'
  BY <1>1
<1>4. OneOwner' /\ AuditsWait' /\ Unused'
  BY <1>1
<1>5. SweepHolds' /\ ClaimsAreExclusive'
  BY <1>1 DEF SweepState
<1> QED
  BY <1>2, <1>3, <1>4, <1>5

(* The sweep gives the claim back. *)
LEMMA SweepSettlesShape ==
  ASSUME Shape, Unleased, SweepSettles
  PROVE  Shape'
<1> USE DEF SweepSettles, SweepTo
<1>1. sweep' \in SweepState /\ sweep.dir \in Dirs
  BY SweepTyped DEF Steps
<1>2. Types'
  BY <1>1 DEF Disk, Row
<1>3. \A g \in Handlers : Relies(g)'
  BY <1>1
<1>4. OneOwner' /\ AuditsWait' /\ Unused'
  BY <1>1
<1>5. SweepHolds' /\ ClaimsAreExclusive'
  BY <1>1 DEF SweepState
<1> QED
  BY <1>2, <1>3, <1>4, <1>5

(* It gives the claim and the files back. *)
LEMMA SweepRestoresShape ==
  ASSUME Shape, Unleased, NEW renamed \in BOOLEAN, SweepRestores(renamed)
  PROVE  Shape'
<1> USE DEF SweepRestores, Asleep
<1>1. sweep' \in SweepState /\ sweep.dir \in Dirs
  BY SweepTyped DEF Steps
<1>2. Types'
  BY <1>1 DEF Disk, Row
<1>3. \A g \in Handlers : Relies(g)'
  BY <1>1
<1>4. OneOwner' /\ AuditsWait' /\ Unused'
  BY <1>1
<1>5. SweepHolds' /\ ClaimsAreExclusive'
  BY <1>1 DEF SweepState
<1> QED
  BY <1>2, <1>3, <1>4, <1>5

(* It removes the files. *)
LEMMA SweepRemovesShape ==
  ASSUME Shape, Unleased, SweepRemoves
  PROVE  Shape'
<1> USE DEF SweepRemoves, Asleep
<1>1. sweep' \in SweepState /\ sweep.dir \in Dirs
  BY SweepTyped DEF Steps
<1>2. Types'
  BY <1>1 DEF Disk, Row
<1>3. \A g \in Handlers : Relies(g)'
  BY <1>1
<1>4. OneOwner' /\ AuditsWait' /\ Unused'
  BY <1>1
<1>5. SweepHolds' /\ ClaimsAreExclusive'
  BY <1>1 DEF SweepState
<1> QED
  BY <1>2, <1>3, <1>4, <1>5

(* It removes what another has left. *)
LEMMA SweepLeftoverShape ==
  ASSUME Shape, Unleased, NEW d \in Dirs, SweepLeftover(d)
  PROVE  Shape'
<1> USE DEF SweepLeftover, Asleep
<1>1. sweep' \in SweepState /\ UNCHANGED claims
  BY SweepTyped DEF Steps
<1>2. Types'
  BY <1>1 DEF Disk, Row
<1>3. \A g \in Handlers : Relies(g)'
  BY <1>1
<1>4. OneOwner' /\ AuditsWait' /\ Unused'
  BY <1>1
<1>5. SweepHolds' /\ ClaimsAreExclusive'
  BY <1>1 DEF SweepState
<1> QED
  BY <1>2, <1>3, <1>4, <1>5

(* The process dies. *)
LEMMA CrashShape ==
  ASSUME Shape, Unleased, Crash
  PROVE  Shape'
<1> USE DEF Crash, Asleep
<1>1. Types'
  BY DEF HandlerState, Stages, Disk, Row, SweepState, Steps
<1>2. \A g \in Handlers : Relies(g)'
  OBVIOUS
<1>3. OneOwner' /\ AuditsWait' /\ Unused'
  OBVIOUS
<1>4. SweepHolds' /\ ClaimsAreExclusive'
  OBVIOUS
<1> QED
  BY <1>1, <1>2, <1>3, <1>4

HIDE DEF Shape, Types, Relies, Owning, Applying, OneOwner, AuditsWait, Unused, SweepHolds,
         Claiming, ClaimsAreExclusive, tables, locks, tokens, At, Idle, Enter, Goto, Leave, Free

LEMMA ShapeStep ==
  ASSUME Shape, Unleased, [Next]_vars
  PROVE  Shape'
<1>1. CASE UNCHANGED vars
  BY <1>1 DEF vars, tables, locks, tokens, Shape, Types, Relies, OneOwner, AuditsWait, Unused,
              SweepHolds, ClaimsAreExclusive
<1>2. ASSUME NEW h \in Handlers, NEW d \in Dirs,
             \/ UploadBegin(h, d) \/ ApplyBegin(h, d) \/ RejectPops(h, d)
             \/ StartBegin(h, d) \/ ExportBegin(h, d) \/ OverrideBegin(h, d)
      PROVE  Shape'
  BY <1>2, UploadBeginShape, ApplyBeginShape, RejectPopsShape, StartBeginShape,
     ExportBeginShape, OverrideShape
<1>3. ASSUME NEW h \in Handlers,
             \/ UploadFails(h) \/ UploadParses(h) \/ UploadBreaks(h)
             \/ UploadCommits(h) \/ DropLease(h)
             \/ \E evicted \in SUBSET audits : UploadAwaitsAudit(h, evicted)
      PROVE  Shape'
  BY <1>3, UploadFailsShape, UploadParsesShape, UploadBreaksShape, UploadCommitsShape, DropLeaseShape, UploadAwaitsShape
<1>4. ASSUME NEW h \in Handlers,
             \/ ApplyRemaps(h) \/ RemapRaises(h) \/ ApplyParses(h)
             \/ ApplyRejects(h) \/ ApplyCommits(h) \/ ApplyRaises(h) \/ ApplyBreaks(h) \/ ApplyPops(h)
             \/ \E expired \in BOOLEAN : ApplyReleases(h, expired)
      PROVE  Shape'
  BY <1>4, ApplyRemapsShape, RemapRaisesShape, ApplyParsesShape, ApplyRejectsShape,
     ApplyCommitsShape, ApplyRaisesShape, ApplyBreaksShape, ApplyPopsShape, ApplyReleasesShape
<1>5. ASSUME NEW h \in Handlers,
             \/ RejectRemoves(h) \/ StartQueues(h) \/ ExportFindsRun(h)
             \/ ExportStreams(h) \/ ExportEnds(h) \/ OverrideWrites(h)
      PROVE  Shape'
  BY <1>5, RejectRemovesShape, StartQueuesShape, ExportFindsRunShape, ExportStreamsShape,
     ExportEndsShape, OverrideShape
<1>6. ASSUME NEW d \in Dirs,
             \/ Expire(d) \/ SweepPicks(d) \/ SweepLeftover(d)
             \/ WorkerStep(d, "queued", "running") \/ WorkerStep(d, "running", "done")
             \/ \E s \in {"queued", "running"} : WorkerStep(d, s, "error")
      PROVE  Shape'
  <2>1. {"running", "done", "error"} \subseteq Row \ {"absent"}
    BY DEF Row
  <2> QED
    BY <1>6, <2>1, ExpireShape, SweepPicksShape, SweepLeftoverShape, WorkerShape
<1>7. ASSUME SweepNext PROVE Shape'
  BY <1>7, SweepReadsAuditsShape, SweepReadsLeasesShape, SweepReadsRowShape,
     SweepClaimsShape, SweepForgetsShape, ForgetFailsShape, SweepSettlesShape,
     SweepRestoresShape, SweepRemovesShape DEF SweepNext
<1> QED
  BY <1>1, <1>2, <1>3, <1>4, <1>5, <1>6, <1>7, CrashShape DEF Next

-----------------------------------------------------------------------------
(* Leases and slots.                                                        *)

LEMMA Finite ==
  /\ \A d \in Dirs : /\ IsFiniteSet(Holders(d)) /\ Cardinality(Holders(d)) \in Nat
                    /\ Cardinality(Holders(d)) <= Cardinality(Handlers)
  /\ IsFiniteSet(Exports) /\ Cardinality(Exports) \in Nat
  /\ Cardinality(Handlers) \in Nat
<1>1. Exports \subseteq Handlers /\ \A d \in Dirs : Holders(d) \subseteq Handlers
  BY DEF Exports, Holders
<1> QED
  BY <1>1, FS_Subset, FS_CardinalityType

LEMMA NothingHeld == NothingLeaks => Unleased
<1> SUFFICES ASSUME NothingLeaks, NEW d \in Dirs, leases[d] = 0
             PROVE  Holders(d) = {}
  BY DEF Unleased
<1> QED
  BY Finite, FS_EmptySet DEF NothingLeaks

LEMMA CountStays ==
  ASSUME NothingLeaks, UNCHANGED <<leases, freeSlots>>,
         \A h \in Handlers :
           /\ (handler[h].at \in Leasing)' <=> handler[h].at \in Leasing
           /\ handler[h].at \in Leasing => handler'[h].dir = handler[h].dir
           /\ (handler[h].at \in Exporting)' <=> handler[h].at \in Exporting
  PROVE  NothingLeaks'
<1>1. Exports' = Exports /\ \A d \in Dirs : Holders(d)' = Holders(d)
  BY DEF Exports, Holders
<1> QED
  BY <1>1 DEF NothingLeaks

(* A request takes a lease, and a slot when it is an export. *)
LEMMA Takes ==
  ASSUME Types, NothingLeaks, NEW h \in Handlers, NEW d \in Dirs, NEW s \in Leasing,
         Idle(h), Enter(h, d, s), Register(d),
         IF s \in Exporting THEN freeSlots > 0 /\ freeSlots' = freeSlots - 1
                            ELSE UNCHANGED freeSlots
  PROVE  NothingLeaks'
<1>1. handler[h].at = "idle" /\ handler'[h].at = s /\ handler'[h].dir = d
  BY DEF Idle, Free, Enter, Types
<1>2. \A g \in Handlers \ {h} : handler'[g] = handler[g]
  BY DEF Enter, Types
<1>3. h \notin Holders(d) /\ h \notin Exports
  BY <1>1 DEF Holders, Exports, Leasing, Exporting
<1>4. Holders(d)' = Holders(d) \cup {h} /\ \A e \in Dirs \ {d} : Holders(e)' = Holders(e)
  BY <1>1, <1>2 DEF Holders, Leasing
<1>5. Exports' = IF s \in Exporting THEN Exports \cup {h} ELSE Exports
  BY <1>1, <1>2 DEF Exports, Exporting
<1>6. \A e \in Dirs : leases'[e] = Cardinality(Holders(e)')
  <2>1. Cardinality(Holders(d) \cup {h}) = Cardinality(Holders(d)) + 1
    BY <1>3, Finite, FS_AddElement
  <2> QED
    BY <1>4, <2>1, Finite DEF NothingLeaks, Register, Types
<1>7. freeSlots' + Cardinality(Exports') = ExportSlots
  <2>1. Cardinality(Exports \cup {h}) = Cardinality(Exports) + 1
    BY <1>3, Finite, FS_AddElement
  <2>2. /\ freeSlots \in Nat /\ Cardinality(Exports) \in Nat
        /\ freeSlots + Cardinality(Exports) = ExportSlots
    BY Finite DEF NothingLeaks, Types
  <2> QED
    BY <1>5, <2>1, <2>2
<1> QED
  BY <1>6, <1>7 DEF NothingLeaks

(* A request gives back what it has. *)
LEMMA Gives ==
  ASSUME Types, NothingLeaks, NEW h \in Handlers, handler[h].at \in Leasing,
         handler[h].dir \in Dirs, Unregister(handler[h].dir), Leave(h),
         freeSlots' = IF handler[h].at \in Exporting THEN freeSlots + 1 ELSE freeSlots
  PROVE  NothingLeaks'
<1>0. PICK d \in Dirs, s \in {handler[h].at} : d = handler[h].dir /\ s = handler[h].at
  OBVIOUS
<1>1. handler'[h].at = "idle"
  BY DEF Free, Leave, Types
<1>2. \A g \in Handlers \ {h} : handler'[g] = handler[g]
  BY DEF Leave, Types
<1>3. h \in Holders(d) /\ (s \in Exporting <=> h \in Exports)
  BY <1>0 DEF Holders, Exports
<1>4. Holders(d)' = Holders(d) \ {h} /\ \A e \in Dirs \ {d} : Holders(e)' = Holders(e)
  BY <1>0, <1>1, <1>2 DEF Holders, Leasing
<1>5. Exports' = IF s \in Exporting THEN Exports \ {h} ELSE Exports
  BY <1>0, <1>1, <1>2 DEF Exports, Exporting
<1>6. \A e \in Dirs : leases'[e] = Cardinality(Holders(e)')
  <2>1. Cardinality(Holders(d) \ {h}) = Cardinality(Holders(d)) - 1
    BY <1>3, Finite, FS_RemoveElement
  <2>2. Cardinality(Holders(d)) # 0
    BY <1>3, Finite, FS_EmptySet
  <2>3. leases[d] > 0 /\ leases'[d] = leases[d] - 1
    BY <1>0, <2>2, Finite DEF NothingLeaks, Unregister, Types
  <2>4. \A e \in Dirs \ {d} : leases'[e] = leases[e]
    BY <1>0 DEF Unregister, Types
  <2> QED
    BY <1>4, <2>1, <2>3, <2>4 DEF NothingLeaks
<1>7. freeSlots' + Cardinality(Exports') = ExportSlots
  <2>1. h \in Exports => Cardinality(Exports \ {h}) = Cardinality(Exports) - 1
    BY Finite, FS_RemoveElement
  <2>2. /\ freeSlots \in Nat /\ Cardinality(Exports) \in Nat
        /\ freeSlots + Cardinality(Exports) = ExportSlots
    BY Finite DEF NothingLeaks, Types
  <2> QED
    BY <1>0, <1>3, <1>5, <2>1, <2>2
<1> QED
  BY <1>6, <1>7 DEF NothingLeaks

LEMMA CountStep ==
  ASSUME Shape, NothingLeaks, [Next]_vars
  PROVE  NothingLeaks'
<1>1. Types /\ \A h \in Handlers : handler[h].at # "idle" => handler[h].dir \in Dirs
  BY DEF Shape, Relies
<1>2. CASE UNCHANGED <<handler, leases, freeSlots>>
  BY <1>2, CountStays
<1>3. ASSUME NEW h \in Handlers, NEW d \in Dirs, UploadBegin(h, d) \/ StartBegin(h, d)
      PROVE  NothingLeaks'
  <2>1. \E s \in Leasing \ Exporting : Enter(h, d, s)
    BY <1>3 DEF UploadBegin, StartBegin, Leasing, Exporting
  <2> QED
    BY <1>1, <1>3, <2>1, Takes DEF UploadBegin, StartBegin
<1>4. ASSUME NEW h \in Handlers, NEW d \in Dirs, ExportBegin(h, d)
      PROVE  NothingLeaks'
  BY <1>1, <1>4, Takes DEF ExportBegin, Leasing, Exporting
<1>5. ASSUME NEW h \in Handlers, DropLease(h)
      PROVE  NothingLeaks'
  BY <1>1, <1>5, Gives DEF DropLease, At, Leasing, Exporting
<1>6. ASSUME NEW h \in Handlers, ExportEnds(h)
      PROVE  NothingLeaks'
  BY <1>1, <1>6, Gives DEF ExportEnds, Leasing, Exporting
<1>7. ASSUME NEW h \in Handlers,
             \/ UploadFails(h) \/ UploadParses(h) \/ UploadBreaks(h) \/ UploadCommits(h)
             \/ \E evicted \in SUBSET audits : UploadAwaitsAudit(h, evicted)
             \/ StartQueues(h) \/ ExportFindsRun(h) \/ ExportStreams(h)
      PROVE  NothingLeaks'
  <2>1. UNCHANGED <<leases, freeSlots>>
    BY <1>7 DEF UploadFails, UploadParses, UploadBreaks, UploadCommits, UploadAwaitsAudit, StartQueues, ExportFindsRun,
                ExportStreams, locks
  <2>2. \E s \in Leasing : /\ Goto(h, s) /\ handler[h].at \in Leasing
                           /\ s \in Exporting <=> handler[h].at \in Exporting
    BY <1>7 DEF UploadFails, UploadParses, UploadBreaks, UploadCommits, UploadAwaitsAudit, StartQueues, ExportFindsRun,
                ExportStreams, At, Leasing, Exporting
  <2>3. PICK s \in Leasing : /\ Goto(h, s) /\ handler[h].at \in Leasing
                             /\ s \in Exporting <=> handler[h].at \in Exporting
    BY <2>2
  <2>4. /\ handler'[h].at = s /\ handler'[h].dir = handler[h].dir
        /\ \A g \in Handlers \ {h} : handler'[g] = handler[g]
    BY <1>1, <2>3 DEF Goto, Types, HandlerState
  <2> QED
    BY <2>1, <2>3, <2>4, CountStays
<1>8. ASSUME NEW h \in Handlers,
             \/ \E d \in Dirs : ApplyBegin(h, d) \/ RejectPops(h, d) \/ OverrideBegin(h, d)
             \/ ApplyRemaps(h) \/ RemapRaises(h) \/ ApplyParses(h)
             \/ ApplyRejects(h) \/ ApplyCommits(h) \/ ApplyRaises(h) \/ ApplyBreaks(h) \/ ApplyPops(h)
             \/ \E expired \in BOOLEAN : ApplyReleases(h, expired)
             \/ RejectRemoves(h) \/ OverrideWrites(h)
      PROVE  NothingLeaks'
  <2>1. UNCHANGED <<leases, freeSlots>>
    BY <1>8 DEF ApplyBegin, RejectPops, OverrideBegin, ApplyRemaps, RemapRaises, ApplyParses,
                ApplyRejects, ApplyCommits, ApplyRaises, ApplyBreaks, ApplyPops, ApplyReleases,
                RejectRemoves, OverrideWrites, locks
  <2>2. handler[h].at \notin Leasing
    BY <1>8 DEF ApplyBegin, RejectPops, OverrideBegin, ApplyRemaps, RemapRaises, ApplyParses,
                ApplyRejects, ApplyCommits, ApplyRaises, ApplyBreaks, ApplyPops, ApplyReleases,
                RejectRemoves, OverrideWrites, At, Idle, Free, Leasing
  <2>3. \/ Leave(h) \/ \E d \in Dirs, s \in Stages \ Leasing : Enter(h, d, s)
        \/ \E s \in Stages \ Leasing : Goto(h, s)
    BY <1>8 DEF ApplyBegin, RejectPops, OverrideBegin, ApplyRemaps, RemapRaises, ApplyParses,
                ApplyRejects, ApplyCommits, ApplyRaises, ApplyBreaks, ApplyPops, ApplyReleases,
                RejectRemoves, OverrideWrites, Leasing, Stages
  <2>4. /\ handler'[h].at \notin Leasing
        /\ \A g \in Handlers \ {h} : handler'[g] = handler[g]
    <3>1. handler \in [Handlers -> HandlerState] /\ "idle" \notin Leasing
      BY <1>1 DEF Types, Leasing
    <3>2. CASE Leave(h)
      BY <3>1, <3>2 DEF Leave, Free
    <3>3. CASE \E d \in Dirs, s \in Stages \ Leasing : Enter(h, d, s)
      BY <3>1, <3>3 DEF Enter
    <3>4. CASE \E s \in Stages \ Leasing : Goto(h, s)
      BY <3>1, <3>4 DEF Goto, HandlerState
    <3> QED
      BY <2>3, <3>2, <3>3, <3>4
  <2>5. Exporting \subseteq Leasing
    BY DEF Exporting, Leasing
  <2> QED
    BY <2>1, <2>2, <2>4, <2>5, CountStays
<1>9. ASSUME Crash PROVE NothingLeaks'
  <2>1. Exports' = {} /\ \A d \in Dirs : Holders(d)' = {} /\ leases'[d] = 0
    BY <1>9 DEF Crash, Exports, Holders, Free, Leasing, Exporting
  <2> QED
    BY <1>9, <2>1, FS_EmptySet, SMTT(30) DEF Crash, NothingLeaks
<1>10. ASSUME \/ SweepNext
              \/ \E d \in Dirs : \/ Expire(d) \/ SweepPicks(d) \/ SweepLeftover(d)
                                \/ \E from, to \in Row : WorkerStep(d, from, to)
       PROVE  UNCHANGED <<handler, leases, freeSlots>>
  BY <1>10 DEF SweepNext, SweepReadsAudits, SweepReadsLeases, SweepReadsRow, SweepClaims,
     SweepForgets, ForgetFails, SweepSettles, SweepRestores, SweepRemoves, Expire, SweepPicks,
     SweepLeftover, WorkerStep, locks
<1>11. {"queued", "running", "done", "error"} \subseteq Row
  BY DEF Row
<1> QED
  BY <1>2, <1>3, <1>4, <1>5, <1>6, <1>7, <1>8, <1>9, <1>10, <1>11 DEF Next, vars, locks

-----------------------------------------------------------------------------
(* The store of audits.                                                     *)

AuditsFit == IsFiniteSet(audits) /\ Cardinality(audits) <= MaxAudits

LEMMA FewerAudits ==
  ASSUME AuditsFit, audits' \subseteq audits
  PROVE  AuditsFit'
  BY FS_Subset, FS_CardinalityType DEF AuditsFit

LEMMA OneMore ==
  ASSUME NEW S, NEW x, IsFiniteSet(S)
  PROVE  /\ IsFiniteSet(S \cup {x})
         /\ Cardinality(S \cup {x}) <= Cardinality(S) + 1
<1>1. Cardinality(S) \in Nat
  BY FS_CardinalityType
<1>2. IsFiniteSet(S \cup {x})
  BY FS_AddElement
<1>3. \/ Cardinality(S \cup {x}) = Cardinality(S)
      \/ Cardinality(S \cup {x}) = Cardinality(S) + 1
  BY FS_AddElement
<1>4. Cardinality(S \cup {x}) <= Cardinality(S) + 1
  BY <1>1, <1>3
<1> QED
  BY <1>2, <1>4

LEMMA AuditsStep ==
  ASSUME Types, AuditsFit, [Next]_vars
  PROVE  AuditsFit'
<1>1. ASSUME NEW h \in Handlers, NEW evicted \in SUBSET audits, UploadAwaitsAudit(h, evicted)
      PROVE  AuditsFit'
  <2> DEFINE left == audits \ evicted
  <2>1. /\ IsFiniteSet(audits) /\ Cardinality(audits) \in Nat /\ IsFiniteSet(evicted)
        /\ IsFiniteSet(left) /\ Cardinality(left) \in Nat
    BY FS_Subset, FS_CardinalityType DEF AuditsFit
  <2>2. Cardinality(left) = Cardinality(audits) - Cardinality(evicted)
    <3>1. audits \cap evicted = evicted
      OBVIOUS
    <3> QED
      BY <2>1, <3>1, FS_Difference
  <2>3. Cardinality(left) < MaxAudits
    BY <1>1, <2>1, <2>2 DEF UploadAwaitsAudit, AuditsFit
  <2>4. /\ IsFiniteSet(left \cup {handler[h].dir})
        /\ Cardinality(left \cup {handler[h].dir}) <= Cardinality(left) + 1
    BY <2>1, OneMore
  <2> QED
    BY <1>1, <2>1, <2>3, <2>4, FS_CardinalityType DEF UploadAwaitsAudit, AuditsFit
<1>2. ASSUME NEW h \in Handlers,
             \/ \E d \in Dirs : RejectPops(h, d)
             \/ ApplyPops(h) \/ \E expired \in BOOLEAN : ApplyReleases(h, expired)
      PROVE  audits' \subseteq audits
  BY <1>2 DEF RejectPops, ApplyPops, ApplyReleases, Pop
<1>3. ASSUME (\E d \in Dirs : Expire(d)) \/ Crash
      PROVE  audits' \subseteq audits
  BY <1>3 DEF Expire, Crash
<1>4. ASSUME NEW h \in Handlers,
             \/ \E d \in Dirs : \/ UploadBegin(h, d) \/ ApplyBegin(h, d) \/ StartBegin(h, d)
                               \/ ExportBegin(h, d) \/ OverrideBegin(h, d)
             \/ UploadFails(h) \/ UploadParses(h) \/ UploadBreaks(h)
             \/ UploadCommits(h) \/ DropLease(h)
             \/ ApplyRemaps(h) \/ RemapRaises(h) \/ ApplyParses(h)
             \/ ApplyRejects(h) \/ ApplyCommits(h) \/ ApplyRaises(h) \/ ApplyBreaks(h)
             \/ RejectRemoves(h) \/ StartQueues(h) \/ ExportFindsRun(h)
             \/ ExportStreams(h) \/ ExportEnds(h) \/ OverrideWrites(h)
      PROVE  UNCHANGED audits
  BY <1>4 DEF UploadBegin, ApplyBegin, StartBegin, ExportBegin, OverrideBegin, UploadFails,
     UploadParses, UploadBreaks, UploadCommits, DropLease, ApplyRemaps, RemapRaises, ApplyParses,
     ApplyRejects, ApplyCommits, ApplyRaises, ApplyBreaks, RejectRemoves, StartQueues, ExportFindsRun, ExportStreams,
     ExportEnds, OverrideWrites, tokens
<1>5. ASSUME \/ SweepNext
             \/ \E d \in Dirs : \/ SweepPicks(d) \/ SweepLeftover(d)
                               \/ \E from, to \in Row : WorkerStep(d, from, to)
      PROVE  UNCHANGED audits
  BY <1>5 DEF SweepNext, SweepReadsAudits, SweepReadsLeases, SweepReadsRow, SweepClaims,
     SweepForgets, ForgetFails, SweepSettles, SweepRestores, SweepRemoves, SweepPicks,
     SweepLeftover, WorkerStep, tokens
<1>6. {"queued", "running", "done", "error"} \subseteq Row
  BY DEF Row
<1> QED
  BY <1>1, <1>2, <1>3, <1>4, <1>5, <1>6, FewerAudits DEF Next, vars, tokens

-----------------------------------------------------------------------------
(* The invariant. *)

IInv == Shape /\ NothingLeaks /\ AuditsFit

LEMMA InitSound == Init => IInv
<1> SUFFICES ASSUME Init PROVE IInv
  OBVIOUS
<1>1. Exports = {} /\ \A d \in Dirs : Holders(d) = {} /\ leases[d] = 0
  BY DEF Init, Exports, Holders, Free, Leasing, Exporting
<1>2. NothingLeaks /\ AuditsFit
  BY <1>1, FS_EmptySet DEF Init, NothingLeaks, AuditsFit
<1> QED
  BY <1>2, InitShape DEF IInv

LEMMA SoundStep == IInv /\ [Next]_vars => IInv'
<1> SUFFICES ASSUME IInv, [Next]_vars PROVE IInv'
  OBVIOUS
<1>1. Shape /\ Types /\ NothingLeaks /\ AuditsFit /\ Unleased
  BY NothingHeld DEF IInv, Shape
<1> QED
  BY <1>1, ShapeStep, CountStep, AuditsStep DEF IInv

LEMMA IInvAlways == Spec => []IInv
  BY InitSound, SoundStep, PTL DEF Spec

(* However requests, the sweep and crashes interleave, for any directories  *)
(* and any number of requests: leases and slots are held by requests in     *)
(* progress and by them alone, a claim is the sweep's and excludes leases,  *)
(* and an export that streams has its workbook.                             *)
THEOREM LeasesAlwaysSound == Spec => []LeasesAreSound
<1>1. IInv => LeasesAreSound
  <2> SUFFICES ASSUME IInv PROVE LeasesAreSound
    OBVIOUS
  <2>1. leases \in [Dirs -> 0..Cardinality(Handlers)]
    BY Finite DEF IInv, Shape, Types, NothingLeaks
  <2>2. freeSlots \in 0..ExportSlots
    BY Finite DEF IInv, Shape, Types, NothingLeaks
  <2>3. TypeOK
    BY <2>1, <2>2 DEF IInv, Shape, Types, AuditsFit, TypeOK
  <2>4. StreamsHaveFiles
    BY DEF IInv, Shape, Relies, StreamsHaveFiles, At
  <2> QED
    BY <2>3, <2>4 DEF IInv, Shape, LeasesAreSound
<1> QED
  BY <1>1, IInvAlways, PTL

-----------------------------------------------------------------------------
(* A row keeps its files.                                                   *)

StaysWithRow ==
  \A d \in Dirs : Stranded(d)' =>
     \/ Stranded(d) \/ SweepRestores(FALSE) \/ Crash
     \/ \E h \in Handlers : ApplyCommits(h)

(* The steps of a request, of a directory and its run.                      *)
HandlerStep(h) ==
  \/ \E d \in Dirs :
       \/ UploadBegin(h, d) \/ ApplyBegin(h, d) \/ RejectPops(h, d)
       \/ StartBegin(h, d) \/ ExportBegin(h, d) \/ OverrideBegin(h, d)
  \/ UploadFails(h) \/ UploadParses(h) \/ UploadBreaks(h)
  \/ UploadCommits(h) \/ DropLease(h)
  \/ \E evicted \in SUBSET audits : UploadAwaitsAudit(h, evicted)
  \/ ApplyRemaps(h) \/ RemapRaises(h) \/ ApplyParses(h)
  \/ ApplyRejects(h) \/ ApplyCommits(h) \/ ApplyRaises(h) \/ ApplyBreaks(h) \/ ApplyPops(h)
  \/ \E expired \in BOOLEAN : ApplyReleases(h, expired)
  \/ RejectRemoves(h) \/ StartQueues(h)
  \/ ExportFindsRun(h) \/ ExportStreams(h) \/ ExportEnds(h) \/ OverrideWrites(h)

DirStep(d) ==
  \/ Expire(d) \/ SweepPicks(d) \/ SweepLeftover(d)
  \/ \E from \in Row, to \in Row \ {"absent"} : WorkerStep(d, from, to)

LEMMA NextCases ==
  ASSUME Next
  PROVE  \/ \E h \in Handlers : HandlerStep(h)
         \/ \E d \in Dirs : DirStep(d)
         \/ SweepNext \/ Crash
<1>1. /\ {"queued", "running"} \subseteq Row
      /\ {"running", "done", "error"} \subseteq Row \ {"absent"}
  BY DEF Row
<1> QED
  BY <1>1 DEF Next, HandlerStep, DirStep

USE DEF Shape, Types, Relies, Owning, Applying, OneOwner, AuditsWait, Unused, SweepHolds,
        Claiming, ClaimsAreExclusive, tables, locks, tokens, At, Idle, Enter, Goto, Leave, Free

(* What removes files removes only those of directories without a row. *)
LEMMA RemovedIsUnused ==
  ASSUME Shape, NEW S, RemoveTrees(S), \A d \in S \cap Dirs : row[d] = "absent",
         UNCHANGED <<row, sweep>>
  PROVE  \A d \in Dirs : Stranded(d)' => Stranded(d)
BY DEF RemoveTrees, Stranded

LEMMA FilesStep ==
  ASSUME Shape, [Next]_vars
  PROVE  StaysWithRow
<1>1. CASE UNCHANGED <<disk, row, sweep>>
  BY <1>1 DEF StaysWithRow, Stranded
<1>2. ASSUME NEW h \in Handlers, NEW d \in Dirs, UploadBegin(h, d)
      PROVE  StaysWithRow
  BY <1>2 DEF UploadBegin, StaysWithRow, Stranded
<1>3. ASSUME NEW h \in Handlers,
             \/ UploadFails(h) \/ ApplyRejects(h) \/ ApplyRaises(h) \/ RejectRemoves(h)
      PROVE  StaysWithRow
  <2>1. /\ handler[h].at \in Owning \ {"popping"}
        /\ RemoveTrees({handler[h].dir}) /\ UNCHANGED <<row, sweep>>
    BY <1>3 DEF UploadFails, ApplyRejects, ApplyRaises, RejectRemoves, tables
  <2> QED
    BY <2>1, RemovedIsUnused DEF StaysWithRow
<1>4. ASSUME NEW h \in Handlers, NEW evicted \in SUBSET audits, UploadAwaitsAudit(h, evicted)
      PROVE  StaysWithRow
  <2>1. \A d \in evicted : row[d] = "absent"
    BY <1>4 DEF UploadAwaitsAudit
  <2> QED
    BY <1>4, <2>1, RemovedIsUnused DEF StaysWithRow, UploadAwaitsAudit, tables
<1>5. ASSUME NEW h \in Handlers, NEW expired \in BOOLEAN, ApplyReleases(h, expired)
      PROVE  StaysWithRow
  <2>1. row[handler[h].dir] = "absent" /\ UNCHANGED <<row, sweep>>
    BY <1>5 DEF ApplyReleases, tables
  <2>2. CASE expired
    BY <1>5, <2>1, <2>2, RemovedIsUnused DEF StaysWithRow, ApplyReleases
  <2>3. CASE ~expired
    BY <1>1, <1>5, <2>1, <2>3 DEF ApplyReleases
  <2> QED
    BY <2>2, <2>3
<1>6. ASSUME NEW d \in Dirs, Expire(d)
      PROVE  StaysWithRow
  <2>1. row[d] = "absent"
    BY <1>6 DEF Expire
  <2> QED
    BY <1>6, <2>1, RemovedIsUnused DEF StaysWithRow, Expire, tables
<1>7. ASSUME NEW h \in Handlers, UploadCommits(h)
      PROVE  StaysWithRow
  BY <1>7, ZenonT(30) DEF UploadCommits, StaysWithRow, Stranded
<1>8. ASSUME NEW h \in Handlers, ApplyCommits(h)
      PROVE  StaysWithRow
  BY <1>8 DEF StaysWithRow
<1>9. ASSUME NEW h \in Handlers, StartQueues(h)
      PROVE  StaysWithRow
  BY <1>9 DEF StartQueues, SetStatus, StaysWithRow, Stranded
<1>10. ASSUME NEW d \in Dirs, NEW from \in Row, NEW to \in Row, WorkerStep(d, from, to)
       PROVE  StaysWithRow
  BY <1>10 DEF WorkerStep, SetStatus, StaysWithRow, Stranded
<1>11. ASSUME NEW h \in Handlers,
              \/ \E d \in Dirs : \/ ApplyBegin(h, d) \/ RejectPops(h, d) \/ StartBegin(h, d)
                                \/ ExportBegin(h, d) \/ OverrideBegin(h, d)
              \/ UploadParses(h) \/ UploadBreaks(h)
              \/ DropLease(h) \/ ApplyRemaps(h) \/ RemapRaises(h) \/ ApplyParses(h)
              \/ ApplyBreaks(h) \/ ApplyPops(h) \/ ExportFindsRun(h) \/ ExportStreams(h) \/ ExportEnds(h)
              \/ OverrideWrites(h)
       PROVE  StaysWithRow
  <2>1. UNCHANGED <<disk, row, sweep>>
    BY <1>11 DEF ApplyBegin, RejectPops, StartBegin, ExportBegin, OverrideBegin, UploadParses,
       UploadBreaks, DropLease, ApplyRemaps, RemapRaises, ApplyParses, ApplyBreaks, ApplyPops, ExportFindsRun, ExportStreams,
       ExportEnds, OverrideWrites, tables
  <2> QED
    BY <1>1, <2>1
<1>12. ASSUME \/ \E d \in Dirs : SweepPicks(d)
              \/ SweepReadsAudits \/ SweepReadsLeases \/ SweepReadsRow
       PROVE  StaysWithRow
  <2>1. UNCHANGED <<disk, row>>
    BY <1>12 DEF SweepPicks, SweepReadsAudits, SweepReadsLeases, SweepReadsRow
  <2>2. sweep.at \notin Claiming
    <3>1. ASSUME NEW d \in Dirs, SweepPicks(d) PROVE sweep.at = "idle"
      BY <3>1 DEF SweepPicks, Asleep
    <3>2. ASSUME SweepReadsAudits \/ SweepReadsLeases \/ SweepReadsRow
          PROVE  sweep.at \in {"audits", "leases", "row"}
      BY <3>2 DEF SweepReadsAudits, SweepReadsLeases, SweepReadsRow
    <3> QED
      BY <1>12, <3>1, <3>2 DEF Claiming
  <2> QED
    BY <2>1, <2>2 DEF StaysWithRow, Stranded
<1>13. ASSUME SweepClaims
       PROVE  StaysWithRow
  <2>1. CASE Claimable(sweep.dir)
    <3>1. /\ sweep' = [sweep EXCEPT !.at = "forget"] /\ sweep \in SweepState
          /\ disk' = [disk EXCEPT ![sweep.dir] = "trash"]
          /\ row' = row
      BY <1>13, <2>1 DEF SweepClaims, SweepTo
    <3>2. sweep'.at = "forget" /\ sweep'.dir = sweep.dir
      BY <3>1 DEF SweepState
    <3>3. sweep.at = "claim" /\ sweep.dir \in Dirs
      BY <1>13 DEF SweepClaims
    <3> QED
      BY <3>1, <3>2, <3>3 DEF StaysWithRow, Stranded
  <2>2. CASE ~Claimable(sweep.dir)
    BY <1>13, <2>2 DEF SweepClaims, StaysWithRow, Stranded
  <2> QED
    BY <2>1, <2>2
<1>14. ASSUME SweepForgets \/ ForgetFails
       PROVE  StaysWithRow
  <2>1. /\ sweep' = [sweep EXCEPT !.at = sweep'.at] /\ sweep \in SweepState
        /\ sweep.at = "forget" /\ sweep.dir \in Dirs
        /\ disk' = disk
    BY <1>14 DEF SweepForgets, ForgetFails, SweepTo
  <2>2. sweep'.dir = sweep.dir
    BY <2>1 DEF SweepState
  <2>3. \/ row' = [row EXCEPT ![sweep.dir] = "absent"]
        \/ row' = row /\ sweep'.at = "restore"
    BY <1>14 DEF SweepForgets, ForgetFails, SweepTo, SweepState
  <2> QED
    BY <2>1, <2>2, <2>3 DEF StaysWithRow, Stranded
<1>15. ASSUME SweepSettles \/ SweepRemoves \/ \E d \in Dirs : SweepLeftover(d)
       PROVE  StaysWithRow
  <2>1. /\ sweep.at \notin {"forget", "restore"} /\ row' = row
        /\ \A d \in Dirs : disk[d] = "present" => disk'[d] = "present"
    BY <1>15 DEF SweepSettles, SweepRemoves, SweepLeftover, Asleep
  <2> QED
    BY <2>1 DEF StaysWithRow, Stranded
<1>16. ASSUME SweepRestores(TRUE)
       PROVE  StaysWithRow
  BY <1>16 DEF SweepRestores, Asleep, StaysWithRow, Stranded
<1>17. ASSUME SweepRestores(FALSE) \/ Crash
       PROVE  StaysWithRow
  BY <1>17 DEF StaysWithRow
<1>18. ASSUME SweepNext
       PROVE  StaysWithRow
  <2>1. ASSUME NEW renamed \in BOOLEAN, SweepRestores(renamed)
        PROVE  StaysWithRow
    <3>1. CASE renamed = TRUE
      BY <1>16, <2>1, <3>1
    <3>2. CASE renamed = FALSE
      BY <1>17, <2>1, <3>2
    <3> QED
      BY <3>1, <3>2
  <2> QED
    BY <1>12, <1>13, <1>14, <1>15, <1>18, <2>1 DEF SweepNext
<1>19. CASE UNCHANGED vars
  BY <1>1, <1>19 DEF vars
<1>20. ASSUME NEW h \in Handlers, HandlerStep(h)
       PROVE  StaysWithRow
  BY ONLY <1>2, <1>3, <1>4, <1>5, <1>7, <1>8, <1>9, <1>11, <1>20 DEF HandlerStep
<1>21. ASSUME NEW d \in Dirs, DirStep(d)
       PROVE  StaysWithRow
  BY ONLY <1>6, <1>10, <1>12, <1>15, <1>21 DEF DirStep
<1> QED
  BY <1>17, <1>18, <1>19, <1>20, <1>21, NextCases

HIDE DEF Shape, Types, Relies, Owning, Applying, OneOwner, AuditsWait, Unused, SweepHolds,
         Claiming, ClaimsAreExclusive, tables, locks, tokens, At, Idle, Enter, Goto, Leave, Free

(* Only the three things RowHasFiles names part a row from its files.       *)
THEOREM RowsKeepTheirFiles == Spec => RowHasFiles
<1>1. IInv /\ [Next]_vars => [StaysWithRow]_vars
  BY FilesStep DEF IInv
<1>2. Spec => [][StaysWithRow]_vars
  BY <1>1, IInvAlways, PTL DEF Spec
<1> QED
  BY <1>2 DEF RowHasFiles, StaysWithRow

-----------------------------------------------------------------------------
(* Staged files keep an owner.                                              *)

StaysOwned ==
  \A d \in Dirs : Abandoned(d)' =>
    \/ Abandoned(d) \/ SweepRestores(TRUE) \/ Crash
    \/ \E h \in Handlers : UploadBreaks(h) /\ handler[h].dir = d

(* Who keeps staged files: a request that ends an audit, or stages them.    *)
Pops(d)   == \E h \in Handlers : handler[h].at = "popping" /\ handler[h].dir = d
Staging   == {"uploading", "previewing", "rejecting"}
Staged(d) == \E h \in Handlers : handler[h].at \in Staging /\ handler[h].dir = d

LEMMA AbandonedMeans ==
  ASSUME NEW d \in Dirs
  PROVE  /\ Abandoned(d) <=> /\ disk[d] = "present" /\ row[d] = "absent"
                             /\ d \in audits => Pops(d)
                             /\ ~Staged(d)
         /\ Abandoned(d)' <=> /\ disk'[d] = "present" /\ row'[d] = "absent"
                              /\ d \in audits' => Pops(d)'
                              /\ ~Staged(d)'
BY DEF Abandoned, Pops, Staged, Staging, At

(* A step of one request, seen from a directory it adds no files to and     *)
(* whose row and audit stay.                                                *)
LEMMA OthersStep ==
  ASSUME NEW h \in Handlers, NEW d \in Dirs,
         disk'[d] = "present" => disk[d] = "present",
         row'[d] = "absent" => row[d] = "absent",
         d \in audits => d \in audits',
         handler[h].dir = d => handler[h].at \notin Staging,
         handler'[h].dir = d => handler'[h].at # "popping",
         \A g \in Handlers \ {h} : handler'[g] = handler[g],
         Abandoned(d)'
  PROVE  Abandoned(d)
<1>1. Pops(d)' => Pops(d)
  BY DEF Pops
<1>2. Staged(d) => Staged(d)'
  BY DEF Staged
<1> QED
  BY <1>1, <1>2, AbandonedMeans

(* The same for a step of no request. *)
LEMMA NobodysStep ==
  ASSUME NEW d \in Dirs,
         disk'[d] = "present" => disk[d] = "present",
         row'[d] = "absent" => row[d] = "absent" \/ disk'[d] # "present",
         d \in audits => d \in audits',
         UNCHANGED handler,
         Abandoned(d)'
  PROVE  Abandoned(d)
<1>1. Pops(d)' = Pops(d) /\ Staged(d)' = Staged(d)
  BY DEF Pops, Staged
<1> QED
  BY <1>1, AbandonedMeans

LEMMA OwnersStep ==
  ASSUME Shape, [Next]_vars
  PROVE  StaysOwned
<1> USE DEF StaysOwned
<1> DEFINE Alone(h) == \A g \in Handlers \ {h} : handler'[g] = handler[g]
<1>0. /\ Types /\ \A h \in Handlers : Relies(h) /\ handler[h] \in HandlerState
      /\ OneOwner /\ AuditsWait
  BY DEF Shape, Types
<1>1. CASE UNCHANGED <<disk, row, audits, handler>>
  BY <1>1, NobodysStep
<1>2. ASSUME NEW h \in Handlers, NEW d \in Dirs, UploadBegin(h, d)
      PROVE  StaysOwned
  <2>1. /\ handler[h].at = "idle" /\ UNCHANGED <<row, audits>> /\ Alone(h)
        /\ handler'[h].at = "uploading" /\ handler'[h].dir = d
        /\ \A e \in Dirs \ {d} : disk'[e] = disk[e]
    BY <1>0, <1>2 DEF UploadBegin, Idle, Free, Enter, Types, tables, tokens
  <2>2. Staged(d)'
    BY <2>1 DEF Staged, Staging
  <2>3. ~Abandoned(d)'
    BY <2>2, AbandonedMeans
  <2> QED
    BY <2>1, <2>3, OthersStep DEF Staging
<1>3. ASSUME NEW h \in Handlers,
             \/ UploadFails(h) \/ ApplyRejects(h) \/ ApplyRaises(h) \/ RejectRemoves(h)
      PROVE  StaysOwned
  <2>0. PICK d \in Dirs : d = handler[h].dir
    BY <1>0, <1>3 DEF Relies, UploadFails, ApplyRejects, ApplyRaises, RejectRemoves, At
  <2>1. /\ d \in Dirs /\ RemoveTrees({d}) /\ UNCHANGED <<row, audits>>
    BY <1>0, <2>0, <1>3 DEF UploadFails, ApplyRejects, ApplyRaises, RejectRemoves, At, Relies,
       tables, tokens
  <2>2. Alone(h) /\ (handler'[h].dir = d \/ handler'[h].at = "idle")
    BY <1>0, <2>0, <1>3 DEF UploadFails, ApplyRejects, ApplyRaises, RejectRemoves, HandlerState,
       Goto, Leave, Free, Types
  <2>3. disk'[d] # "present" /\ \A e \in Dirs \ {d} : disk'[e] = disk[e]
    BY <1>0, <2>0, <2>1 DEF RemoveTrees, Types
  <2>4. ~Abandoned(d)'
    BY <2>0, <2>1, <2>3, AbandonedMeans
  <2>5. ASSUME NEW e \in Dirs \ {d}, Abandoned(e)'
        PROVE  Abandoned(e)
    <3>1. /\ handler[h].dir # e /\ (handler'[h].dir # e \/ handler'[h].at # "popping")
          /\ disk'[e] = disk[e] /\ row' = row /\ audits' = audits
      <4>1. handler'[h].at = "idle" => handler'[h].at # "popping"
        OBVIOUS
      <4> QED
        BY <2>0, <2>1, <2>2, <2>3, <2>5, <4>1
    <3> QED
      BY <2>2, <2>5, <3>1, OthersStep
  <2> QED
    BY <2>4, <2>5
<1>4. ASSUME NEW h \in Handlers, NEW evicted \in SUBSET audits, UploadAwaitsAudit(h, evicted)
      PROVE  StaysOwned
  <2>0. PICK d \in Dirs : d = handler[h].dir
    BY <1>0, <1>4 DEF Relies, UploadAwaitsAudit, At
  <2>1. /\ d \in Dirs /\ handler[h].at = "uploading" /\ UNCHANGED row /\ evicted \subseteq Dirs
        /\ RemoveTrees(evicted) /\ audits' = (audits \ evicted) \cup {d}
    BY <1>0, <2>0, <1>4 DEF UploadAwaitsAudit, At, Relies, tables, Types
  <2>2. Alone(h) /\ handler'[h].dir = d /\ handler'[h].at = "leaving"
    BY <1>0, <2>0, <1>4 DEF UploadAwaitsAudit, HandlerState, Goto, Types
  <2>3. /\ \A e \in evicted : disk'[e] # "present"
        /\ \A e \in Dirs : disk'[e] = "present" => disk[e] = "present"
    BY <1>0, <2>0, <2>1 DEF RemoveTrees, Types
  <2>4. ~Pops(d)'
    BY <1>0, <2>0, <2>1, <2>2 DEF Pops, OneOwner, Owning, Applying
  <2>5. ~Abandoned(d)'
    BY <2>0, <2>1, <2>4, AbandonedMeans
  <2>6. \A e \in evicted : ~Abandoned(e)'
    BY <2>0, <2>1, <2>3, AbandonedMeans
  <2> QED
    BY <2>0, <2>1, <2>2, <2>3, <2>5, <2>6, OthersStep
<1>5. ASSUME NEW h \in Handlers, NEW expired \in BOOLEAN, ApplyReleases(h, expired)
      PROVE  StaysOwned
  <2>0. PICK d \in Dirs : d = handler[h].dir
    BY <1>0, <1>5 DEF Relies, ApplyReleases, At
  <2>1. /\ handler[h].at = "failing" /\ d \in Dirs /\ UNCHANGED row
        /\ handler' = [handler EXCEPT ![h] = Free]
    BY <1>0, <2>0, <1>5 DEF ApplyReleases, At, Relies, tables, Leave
  <2>2. Alone(h) /\ handler'[h].at = "idle"
    BY <1>0, <2>0, <2>1 DEF Free, Types
  <2>3. CASE expired
    <3>1. RemoveTrees({d}) /\ audits' = audits \ {d}
      BY <2>0, <1>5, <2>3 DEF ApplyReleases
    <3>2. disk'[d] # "present" /\ \A e \in Dirs \ {d} : disk'[e] = disk[e]
      BY <1>0, <2>0, <2>1, <3>1 DEF RemoveTrees, Types
    <3>3. ~Abandoned(d)'
      BY <2>0, <2>1, <3>2, AbandonedMeans
    <3> QED
      BY <2>0, <2>1, <2>2, <3>1, <3>2, <3>3, OthersStep
  <2>4. CASE ~expired
    <3>1. UNCHANGED <<disk, audits>>
      BY <2>0, <1>5, <2>4 DEF ApplyReleases
    <3> QED
      BY <2>0, <2>1, <2>2, <3>1, OthersStep DEF Staging
  <2> QED
    BY <2>0, <2>3, <2>4
<1>6. ASSUME NEW d \in Dirs, Expire(d)
      PROVE  StaysOwned
  <2>1. RemoveTrees({d}) /\ audits' = audits \ {d} /\ UNCHANGED <<row, handler>>
    BY <1>6 DEF Expire, tables
  <2>2. disk'[d] # "present" /\ \A e \in Dirs \ {d} : disk'[e] = disk[e]
    BY <1>0, <2>1 DEF RemoveTrees, Types
  <2>3. ~Abandoned(d)'
    BY <2>2, AbandonedMeans
  <2> QED
    BY <2>1, <2>2, <2>3, NobodysStep
<1>7. ASSUME NEW h \in Handlers, UploadCommits(h) \/ ApplyCommits(h)
      PROVE  StaysOwned
  <2>0. PICK d \in Dirs : d = handler[h].dir
    BY <1>0, <1>7 DEF Relies, UploadCommits, ApplyCommits, At
  <2>1. /\ row' = [row EXCEPT ![d] = "pending"] /\ UNCHANGED <<disk, audits>>
        /\ d \in Dirs
    BY <1>0, <2>0, <1>7 DEF UploadCommits, ApplyCommits, At, Relies, tokens
  <2>2. Alone(h) /\ handler'[h].dir = d
    BY <1>0, <2>0, <1>7 DEF UploadCommits, ApplyCommits, HandlerState, Goto, Types
  <2>3. row'[d] = "pending" /\ \A e \in Dirs \ {d} : row'[e] = row[e]
    BY <1>0, <2>0, <2>1 DEF Types
  <2>4. ~Abandoned(d)'
    BY <2>0, <2>1, <2>3, AbandonedMeans
  <2> QED
    BY <2>0, <2>1, <2>2, <2>3, <2>4, OthersStep
<1>8. ASSUME NEW h \in Handlers, StartQueues(h)
      PROVE  StaysOwned
  <2>1. /\ \A d \in Dirs : row'[d] = "absent" => row[d] = "absent"
        /\ UNCHANGED <<disk, audits>>
    BY <1>0, <1>8 DEF StartQueues, SetStatus, Types, tokens
  <2>2. /\ Alone(h)
        /\ handler[h].at = "starting" /\ handler'[h].at = "leaving"
    BY <1>0, <1>8 DEF StartQueues, HandlerState, Goto, At, Types
  <2> QED
    BY <2>1, <2>2, OthersStep DEF Staging
<1>9. ASSUME NEW d \in Dirs, NEW from \in Row, NEW to \in Row \ {"absent"},
             WorkerStep(d, from, to)
      PROVE  StaysOwned
  <2>1. /\ \A e \in Dirs : row'[e] = "absent" => row[e] = "absent"
        /\ UNCHANGED <<disk, audits, handler>>
    BY <1>0, <1>9 DEF WorkerStep, SetStatus, Types, tokens
  <2> QED
    BY <2>1, NobodysStep
<1>10. ASSUME NEW h \in Handlers,
              \/ \E d \in Dirs : \/ StartBegin(h, d) \/ ExportBegin(h, d)
                                \/ OverrideBegin(h, d) \/ ApplyBegin(h, d)
              \/ DropLease(h) \/ ExportFindsRun(h) \/ ExportStreams(h) \/ ExportEnds(h)
              \/ OverrideWrites(h) \/ ApplyRemaps(h) \/ RemapRaises(h) \/ ApplyParses(h)
              \/ ApplyBreaks(h)
       PROVE  StaysOwned
  <2>1. UNCHANGED <<disk, row, audits>> /\ handler[h].at \notin Staging
    BY <1>10 DEF StartBegin, ExportBegin, OverrideBegin, ApplyBegin, DropLease, ExportFindsRun,
       ExportStreams, ExportEnds, OverrideWrites, ApplyRemaps, RemapRaises, ApplyParses,
       ApplyBreaks, Exporting, Staging, At, Idle, Free, tables, tokens
  <2>2. handler'[h].at # "popping" /\ Alone(h)
    BY <1>0, <1>10 DEF StartBegin, ExportBegin, OverrideBegin, ApplyBegin, DropLease,
       ExportFindsRun, ExportStreams, ExportEnds, OverrideWrites, ApplyRemaps, RemapRaises,
       ApplyParses, ApplyBreaks, HandlerState, Enter, Goto, Leave, Free, Types
  <2> QED
    BY <2>1, <2>2, OthersStep DEF Staging
<1>11. ASSUME NEW h \in Handlers, ApplyPops(h)
       PROVE  StaysOwned
  <2>0. PICK d \in Dirs : d = handler[h].dir
    BY <1>0, <1>11 DEF Relies, ApplyPops, At
  <2>1. /\ UNCHANGED <<disk, row>> /\ audits' = audits \ {d} /\ d \in Dirs
        /\ handler' = [handler EXCEPT ![h] = Free]
        /\ \/ handler[h].at = "popping"
           \/ handler[h].at = "failing" /\ disk[d] # "present"
    BY <1>0, <2>0, <1>11 DEF ApplyPops, Pop, At, Relies, tables, Leave
  <2>2. Alone(h) /\ handler'[h].at = "idle"
    BY <1>0, <2>0, <2>1 DEF Free, Types
  <2>3. ASSUME Abandoned(d)' PROVE Abandoned(d)
    <3>1. disk[d] = "present" /\ row[d] = "absent" /\ ~Staged(d)'
      BY <2>0, <2>1, <2>3, AbandonedMeans
    <3>2. handler[h].at = "popping"
      BY <2>0, <2>1, <3>1
    <3>3. Pops(d)
      BY <2>0, <3>2 DEF Pops
    <3>4. ~Staged(d)
      BY <2>0, <2>2, <3>1, <3>2 DEF Staged, Staging
    <3> QED
      BY <2>0, <3>1, <3>3, <3>4, AbandonedMeans
  <2>4. ASSUME NEW e \in Dirs \ {d}, Abandoned(e)' PROVE Abandoned(e)
    BY <2>0, <2>1, <2>2, <2>4, OthersStep
  <2> QED
    BY <2>0, <2>3, <2>4
<1>12. ASSUME NEW h \in Handlers, NEW d \in Dirs, RejectPops(h, d)
       PROVE  StaysOwned
  <2>1. /\ handler[h].at = "idle" /\ UNCHANGED <<disk, row>> /\ audits' = audits \ {d}
        /\ handler'[h].at = "rejecting" /\ handler'[h].dir = d /\ Alone(h)
    BY <1>0, <1>12 DEF RejectPops, Pop, Idle, Free, Enter, tables, Types
  <2>2. ~Abandoned(d)'
    <3>1. Staged(d)'
      BY <2>1 DEF Staged, Staging
    <3> QED
      BY <3>1, AbandonedMeans
  <2> QED
    BY <2>1, <2>2, OthersStep DEF Staging
<1>13. ASSUME SweepForgets \/ SweepClaims \/ SweepRemoves \/ SweepRestores(FALSE)
              \/ \E d \in Dirs : SweepLeftover(d)
       PROVE  StaysOwned
  <2>1. /\ UNCHANGED <<audits, handler>>
        /\ \A d \in Dirs : disk'[d] = "present" => disk[d] = "present" /\ row'[d] = row[d]
    BY <1>0, <1>13 DEF SweepForgets, SweepClaims, SweepRemoves, SweepRestores, SweepLeftover,
       Shape, SweepHolds, Claiming, Types, tables, tokens
  <2>2. ASSUME NEW d \in Dirs, Abandoned(d)' PROVE Abandoned(d)
    <3>1. disk'[d] = "present" /\ row'[d] = "absent"
      BY <2>2, AbandonedMeans
    <3> QED
      BY <2>1, <2>2, <3>1, NobodysStep
  <2> QED
    BY <2>2
<1>14. ASSUME \/ \E d \in Dirs : SweepPicks(d)
              \/ SweepReadsAudits \/ SweepReadsLeases \/ SweepReadsRow
              \/ ForgetFails \/ SweepSettles
       PROVE  StaysOwned
  <2>1. UNCHANGED <<disk, row, audits, handler>>
    BY <1>14 DEF SweepPicks, SweepReadsAudits, SweepReadsLeases, SweepReadsRow, ForgetFails,
       SweepSettles, tables, tokens
  <2> QED
    BY <1>1, <2>1
<1>15. ASSUME SweepRestores(TRUE) \/ Crash
       PROVE  StaysOwned
  BY <1>15
<1>22. ASSUME NEW h \in Handlers, UploadParses(h)
       PROVE  StaysOwned
  <2>1. /\ UNCHANGED <<disk, row, audits>> /\ handler[h].at = "uploading"
        /\ handler'[h].at = "previewing" /\ handler'[h].dir = handler[h].dir /\ Alone(h)
    BY <1>0, <1>22 DEF UploadParses, HandlerState, Goto, At, tables, tokens, Types
  <2>2. ASSUME NEW d \in Dirs, Abandoned(d)' PROVE Abandoned(d)
    <3>1. Staged(d) => Staged(d)'
      BY <2>1 DEF Staged, Staging
    <3>2. Pops(d)' => Pops(d)
      BY <2>1 DEF Pops
    <3> QED
      BY <2>1, <2>2, <3>1, <3>2, AbandonedMeans
  <2> QED
    BY <2>2
<1>23. ASSUME NEW h \in Handlers, UploadBreaks(h)
       PROVE  StaysOwned
  <2>1. /\ UNCHANGED <<disk, row, audits>>
        /\ handler'[h].at = "leaving" /\ handler'[h].dir = handler[h].dir /\ Alone(h)
    BY <1>0, <1>23 DEF UploadBreaks, HandlerState, Goto, tables, tokens, Types
  <2>2. ASSUME NEW d \in Dirs, handler[h].dir # d, Abandoned(d)' PROVE Abandoned(d)
    BY <2>1, <2>2, OthersStep DEF Staging
  <2> QED
    BY <1>23, <2>2
<1> HIDE DEF StaysOwned
<1>16. ASSUME SweepNext
       PROVE  StaysOwned
  <2>1. ASSUME NEW renamed \in BOOLEAN, SweepRestores(renamed)
        PROVE  StaysOwned
    <3>1. CASE renamed = TRUE
      BY <1>15, <2>1, <3>1
    <3>2. CASE renamed = FALSE
      BY <1>13, <2>1, <3>2
    <3> QED
      BY <3>1, <3>2
  <2> QED
    BY <1>13, <1>14, <1>16, <2>1 DEF SweepNext
<1>17. CASE UNCHANGED vars
  BY <1>1, <1>17 DEF vars, tables, tokens
<1>18. ASSUME NEW h \in Handlers, HandlerStep(h)
       PROVE  StaysOwned
  BY ONLY <1>2, <1>3, <1>4, <1>5, <1>7, <1>8, <1>10, <1>11, <1>12, <1>18, <1>22, <1>23
     DEF HandlerStep
<1>19. ASSUME NEW d \in Dirs, DirStep(d)
       PROVE  StaysOwned
  BY ONLY <1>6, <1>9, <1>13, <1>14, <1>19 DEF DirStep
<1> QED
  BY <1>15, <1>16, <1>17, <1>18, <1>19, NextCases

(* Staged files lose their owner by the three things StagingIsOwned names   *)
(* and no other: every other path through upload, apply and reject, and     *)
(* through the sweep, removes them or hands them to a row or an audit.      *)
THEOREM StagingStaysOwned == Spec => StagingIsOwned
<1>1. IInv /\ [Next]_vars => [StaysOwned]_vars
  BY OwnersStep DEF IInv
<1>2. Spec => [][StaysOwned]_vars
  BY <1>1, IInvAlways, PTL DEF Spec
<1> QED
  BY <1>2 DEF StagingIsOwned, StaysOwned
=============================================================================
