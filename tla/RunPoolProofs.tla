--------------------------- MODULE RunPoolProofs ---------------------------
(***************************************************************************)
(* Proofs about RunPool, for any sets of runs, threads and options and any *)
(* positive cap.                                                           *)
(***************************************************************************)
EXTENDS RunPool, TLAPS, FiniteSetTheorems, SequenceTheorems

LEMMA InitInv == Init => Inv
<1> SUFFICES ASSUME Init PROVE Inv
  OBVIOUS
<1> USE RunPoolAssumption
<1>1. TypeOK /\ WellFormed
  BY EmptySeq DEF Init, TypeOK, WellFormed, Status, Phase, Message, ThreadState, FreeThread,
       ThreadStage, RequestState, RequestStage, NoRequest
<1>2. OneWorkerPerRun /\ ActiveBounded /\ WorkConserving
  BY FS_EmptySet DEF Init, OneWorkerPerRun, ActiveBounded, WorkConserving, Live, FreeThread,
       NoRequest
<1>3. LockIsDeferral /\ DownIsEmpty /\ WaitsInOnePlace /\ ThreadMatchesRow
      /\ WaitingIsQueued /\ RequestMatchesRow /\ RowConsistent
  BY DEF Init, LockIsDeferral, DownIsEmpty, WaitsInOnePlace, ThreadMatchesRow, Waiting,
       WaitingIsQueued, RequestMatchesRow, RowConsistent, FreeThread, NoRequest, InQueue
<1>4. QueuedIsOwned /\ RunningIsOwned /\ OptionsHonoured /\ RunningNotShownWaiting
  BY DEF Init, QueuedIsOwned, RunningIsOwned, OptionsHonoured, RunningNotShownWaiting,
       FreeThread, NoRequest
<1>5. QED
  BY <1>1, <1>2, <1>3, <1>4 DEF Inv

(* A worker that has not reached its teardown is the only one who knows its *)
(* run: no second thread, no queue and no start request names it.           *)
LEMMA WorkerIsAlone ==
  ASSUME Inv, NEW t \in Threads, thread[t].at \in {"spawned", "loaded", "running"}
  PROVE  /\ thread[t].run \in Runs /\ thread[t].run \in active
         /\ \A u \in Threads : thread[u].run = thread[t].run => u = t
         /\ ~Waiting(thread[t].run)
         /\ request.at # "idle" => request.run # thread[t].run
<1>1. thread[t].run \in Runs /\ thread[t].run \in active
  BY DEF Inv, WellFormed, OneWorkerPerRun, Live
<1>2. \A u \in Threads : thread[u].run = thread[t].run => u = t
  BY <1>1, RunPoolAssumption DEF Inv, WellFormed, OneWorkerPerRun, Live
<1>3. ~Waiting(thread[t].run)
  BY <1>1, <1>2 DEF Inv, WaitsInOnePlace, Waiting, InQueue
<1>4. request.at # "idle" => request.run # thread[t].run
  BY DEF Inv, RequestMatchesRow, ThreadMatchesRow, TypeOK, RequestState, RequestStage
<1>5. QED
  BY <1>1, <1>2, <1>3, <1>4

LEMMA StartReadInv ==
  ASSUME Inv, NEW r \in Runs, NEW o \in Options, StartRead(r, o)
  PROVE  Inv'
<1> USE RunPoolAssumption DEF Inv, StartRead, Proceed, rowVars, poolVars
<1>1. (TypeOK /\ WellFormed)'
  BY DEF TypeOK, WellFormed, RequestState, RequestStage
<1>2. (OneWorkerPerRun /\ ActiveBounded /\ WorkConserving)'
  BY DEF OneWorkerPerRun, ActiveBounded, WorkConserving, Live, NoRequest
<1>3. (LockIsDeferral /\ DownIsEmpty /\ WaitsInOnePlace /\ ThreadMatchesRow
      /\ WaitingIsQueued /\ RequestMatchesRow /\ RowConsistent)'
  BY DEF LockIsDeferral, DownIsEmpty, WaitsInOnePlace, ThreadMatchesRow, Waiting,
       WaitingIsQueued, RequestMatchesRow, RowConsistent, NoRequest, InQueue
<1>4. (QueuedIsOwned /\ RunningIsOwned /\ OptionsHonoured /\ RunningNotShownWaiting)'
  BY DEF QueuedIsOwned, RunningIsOwned, OptionsHonoured, RunningNotShownWaiting, NoRequest,
       Waiting, InQueue
<1>5. QED
  BY <1>1, <1>2, <1>3, <1>4

LEMMA StartCommitInv ==
  ASSUME Inv, StartCommit
  PROVE  Inv'
<1> USE RunPoolAssumption DEF Inv, StartCommit, rowVars, poolVars
<1>1. (TypeOK /\ WellFormed)'
  BY DEF TypeOK, WellFormed, Status, Phase, Message, ThreadState, ThreadStage, RequestState,
       RequestStage
<1>2. (OneWorkerPerRun /\ ActiveBounded /\ WorkConserving)'
  BY DEF TypeOK, OneWorkerPerRun, ActiveBounded, WorkConserving, Live
<1>3. (LockIsDeferral /\ DownIsEmpty)'
  BY DEF TypeOK, LockIsDeferral, DownIsEmpty, NoRequest, OneWorkerPerRun, Live
<1>4. WaitsInOnePlace'
  BY DEF TypeOK, OneWorkerPerRun, WellFormed, WaitsInOnePlace, Live
<1>5. (ThreadMatchesRow /\ WaitingIsQueued /\ RequestMatchesRow /\ RowConsistent)'
  <2>1. request.run \in Runs /\ request.options \in Options
    BY DEF WellFormed
  <2>2. \A t \in Threads : thread[t].run = request.run => thread[t].at = "ending"
    BY <2>1 DEF WellFormed, RequestMatchesRow, ThreadMatchesRow, TypeOK, ThreadState,
         ThreadStage
  <2>3. ThreadMatchesRow' /\ WaitingIsQueued'
    BY <2>1, <2>2 DEF TypeOK, ThreadMatchesRow, WaitingIsQueued, Waiting, InQueue
  <2>4. RequestMatchesRow'
    BY <2>1, <2>2, SMTT(30) DEF TypeOK, RequestState, ThreadMatchesRow, WaitingIsQueued, Waiting,
         InQueue, RequestMatchesRow, RowConsistent
  <2>5. RowConsistent'
    BY <2>1 DEF TypeOK, RowConsistent
  <2>6. QED
    BY <2>3, <2>4, <2>5
<1>6. (QueuedIsOwned /\ RunningIsOwned)'
  BY DEF TypeOK, WellFormed, QueuedIsOwned, RunningIsOwned, Waiting, InQueue,
       ThreadMatchesRow, OneWorkerPerRun, Live, RequestMatchesRow, WaitsInOnePlace,
       LockIsDeferral
<1>7. (OptionsHonoured /\ RunningNotShownWaiting)'
  BY DEF TypeOK, WellFormed, OptionsHonoured, RunningNotShownWaiting, ThreadMatchesRow,
       RequestMatchesRow, RowConsistent, OneWorkerPerRun, Live, WaitingIsQueued
<1>8. QED
  BY <1>1, <1>2, <1>3, <1>4, <1>5, <1>6, <1>7

LEMMA StartAbortInv ==
  ASSUME Inv, StartAbort
  PROVE  Inv'
<1> USE RunPoolAssumption DEF Inv, StartAbort, rowVars, poolVars, NoRequest
<1>1. (TypeOK /\ WellFormed)'
  BY DEF TypeOK, WellFormed, Status, Phase, Message, ThreadState, ThreadStage, RequestState,
       RequestStage
<1>2. (OneWorkerPerRun /\ ActiveBounded /\ WorkConserving)'
  BY DEF TypeOK, OneWorkerPerRun, ActiveBounded, WorkConserving, Live
<1>3. (LockIsDeferral /\ DownIsEmpty)'
  BY DEF TypeOK, LockIsDeferral, DownIsEmpty, NoRequest, OneWorkerPerRun, Live
<1>4. WaitsInOnePlace'
  BY DEF TypeOK, OneWorkerPerRun, WellFormed, WaitsInOnePlace, Live
<1>5. (ThreadMatchesRow /\ WaitingIsQueued /\ RequestMatchesRow /\ RowConsistent)'
  BY DEF TypeOK, WellFormed, OneWorkerPerRun, Live, ThreadMatchesRow, Waiting,
       WaitingIsQueued, RequestMatchesRow, RowConsistent, InQueue, WaitsInOnePlace
<1>6. (QueuedIsOwned /\ RunningIsOwned)'
  BY DEF TypeOK, WellFormed, QueuedIsOwned, RunningIsOwned, Waiting, InQueue,
       ThreadMatchesRow, OneWorkerPerRun, Live, RequestMatchesRow, WaitsInOnePlace,
       LockIsDeferral
<1>7. (OptionsHonoured /\ RunningNotShownWaiting)'
  BY DEF TypeOK, WellFormed, OptionsHonoured, RunningNotShownWaiting, ThreadMatchesRow,
       RequestMatchesRow, RowConsistent, OneWorkerPerRun, Live, WaitingIsQueued
<1>8. QED
  BY <1>1, <1>2, <1>3, <1>4, <1>5, <1>6, <1>7

LEMMA AdmitKnownInv ==
  ASSUME Inv, AdmitKnown
  PROVE  Inv'
<1> USE RunPoolAssumption DEF Inv, AdmitKnown, rowVars, poolVars, NoRequest
<1>1. (TypeOK /\ WellFormed)'
  BY DEF TypeOK, WellFormed, Status, Phase, Message, ThreadState, ThreadStage, RequestState,
       RequestStage
<1>2. (OneWorkerPerRun /\ ActiveBounded /\ WorkConserving)'
  BY DEF TypeOK, OneWorkerPerRun, ActiveBounded, WorkConserving, Live
<1>3. (LockIsDeferral /\ DownIsEmpty)'
  BY DEF TypeOK, LockIsDeferral, DownIsEmpty, NoRequest, OneWorkerPerRun, Live
<1>4. WaitsInOnePlace'
  <2>1. request.run \in active
    BY DEF RequestMatchesRow
  <2>2. PICK t \in Live : thread[t].run = request.run
    BY <2>1 DEF OneWorkerPerRun
  <2>3. t \in Threads /\ thread[t].at = "ending"
    BY <2>2 DEF Live, RequestMatchesRow
  <2>4. ~InQueue(request.run)
    BY DEF RequestMatchesRow, Waiting
  <2>5. QED
    BY <2>2, <2>3, <2>4, SMTT(30) DEF TypeOK, WaitsInOnePlace, InQueue
<1>5. (ThreadMatchesRow /\ WaitingIsQueued /\ RequestMatchesRow /\ RowConsistent)'
  BY DEF TypeOK, WellFormed, OneWorkerPerRun, Live, ThreadMatchesRow, Waiting,
       WaitingIsQueued, RequestMatchesRow, RowConsistent, InQueue, WaitsInOnePlace
<1>6. (QueuedIsOwned /\ RunningIsOwned)'
  BY DEF TypeOK, WellFormed, QueuedIsOwned, RunningIsOwned, Waiting, InQueue,
       ThreadMatchesRow, OneWorkerPerRun, Live, RequestMatchesRow, WaitsInOnePlace,
       LockIsDeferral
<1>7. (OptionsHonoured /\ RunningNotShownWaiting)'
  BY DEF TypeOK, WellFormed, OptionsHonoured, RunningNotShownWaiting, ThreadMatchesRow,
       RequestMatchesRow, RowConsistent, OneWorkerPerRun, Live, WaitingIsQueued
<1>8. QED
  BY <1>1, <1>2, <1>3, <1>4, <1>5, <1>6, <1>7

LEMMA DeferPersistInv ==
  ASSUME Inv, DeferPersist
  PROVE  Inv'
<1> USE RunPoolAssumption DEF Inv, DeferPersist, Announce, rowVars, poolVars
<1>1. (TypeOK /\ WellFormed)'
  BY DEF TypeOK, WellFormed, Status, Phase, Message, ThreadState, ThreadStage, RequestState,
       RequestStage
<1>2. (OneWorkerPerRun /\ ActiveBounded /\ WorkConserving)'
  <2>1. Cardinality(active) = MaxConcurrent
    BY FS_CardinalityType DEF ActiveBounded
  <2>2. QED
    BY <2>1 DEF OneWorkerPerRun, ActiveBounded, WorkConserving, Live
<1>3. (LockIsDeferral /\ DownIsEmpty)'
  BY DEF TypeOK, LockIsDeferral, DownIsEmpty, NoRequest, OneWorkerPerRun, Live
<1>4. WaitsInOnePlace'
  BY DEF TypeOK, OneWorkerPerRun, WellFormed, WaitsInOnePlace, Live
<1>5. (ThreadMatchesRow /\ WaitingIsQueued /\ RequestMatchesRow /\ RowConsistent)'
  BY DEF TypeOK, WellFormed, OneWorkerPerRun, Live, ThreadMatchesRow, Waiting,
       WaitingIsQueued, RequestMatchesRow, RowConsistent, InQueue, WaitsInOnePlace
<1>6. (QueuedIsOwned /\ RunningIsOwned)'
  BY DEF TypeOK, WellFormed, QueuedIsOwned, RunningIsOwned, Waiting, InQueue,
       ThreadMatchesRow, OneWorkerPerRun, Live, RequestMatchesRow, WaitsInOnePlace,
       LockIsDeferral
<1>7. (OptionsHonoured /\ RunningNotShownWaiting)'
  BY DEF TypeOK, WellFormed, OptionsHonoured, RunningNotShownWaiting, ThreadMatchesRow,
       RequestMatchesRow, RowConsistent, OneWorkerPerRun, Live, WaitingIsQueued
<1>8. QED
  BY <1>1, <1>2, <1>3, <1>4, <1>5, <1>6, <1>7

LEMMA DeferAppendInv ==
  ASSUME Inv, DeferAppend
  PROVE  Inv'
<1> USE RunPoolAssumption DEF Inv, DeferAppend, rowVars, poolVars, NoRequest
<1>1. (TypeOK /\ WellFormed)'
  <2>1. request.run \in Runs
    BY DEF WellFormed
  <2>2. pending' \in Seq(Runs)
    BY <2>1, AppendProperties DEF TypeOK
  <2>3. QED
    BY <2>2 DEF TypeOK, WellFormed, RequestState, RequestStage
<1>2. (OneWorkerPerRun /\ ActiveBounded /\ WorkConserving)'
  BY DEF TypeOK, OneWorkerPerRun, ActiveBounded, WorkConserving, Live
<1>3. (LockIsDeferral /\ DownIsEmpty)'
  BY DEF TypeOK, LockIsDeferral, DownIsEmpty, NoRequest, OneWorkerPerRun, Live
<1>4. WaitsInOnePlace'
  <2>1. request.run \in Runs /\ pending \in Seq(Runs)
    BY DEF WellFormed, TypeOK
  <2>2. /\ Len(pending') = Len(pending) + 1
        /\ \A i \in 1..Len(pending) : pending'[i] = pending[i]
        /\ pending'[Len(pending) + 1] = request.run
        /\ Len(pending) \in Nat
    BY <2>1, AppendProperties, LenProperties
  <2>3. ~InQueue(request.run) /\ request.run \notin active \cup restartPending
    BY DEF RequestMatchesRow, Waiting
  <2>4. \A i \in 1..Len(pending') : i \in 1..Len(pending) \/ i = Len(pending) + 1
    BY <2>2
  <2>5. QED
    BY <2>2, <2>3, <2>4 DEF WaitsInOnePlace, InQueue
<1>5. (ThreadMatchesRow /\ WaitingIsQueued /\ RequestMatchesRow /\ RowConsistent)'
  BY DEF TypeOK, WellFormed, OneWorkerPerRun, Live, ThreadMatchesRow, Waiting,
       WaitingIsQueued, RequestMatchesRow, RowConsistent, InQueue, WaitsInOnePlace
<1>6. (QueuedIsOwned /\ RunningIsOwned)'
  BY DEF TypeOK, WellFormed, QueuedIsOwned, RunningIsOwned, Waiting, InQueue,
       ThreadMatchesRow, OneWorkerPerRun, Live, RequestMatchesRow, WaitsInOnePlace,
       LockIsDeferral
<1>7. (OptionsHonoured /\ RunningNotShownWaiting)'
  BY DEF TypeOK, WellFormed, OptionsHonoured, RunningNotShownWaiting, ThreadMatchesRow,
       RequestMatchesRow, RowConsistent, OneWorkerPerRun, Live, WaitingIsQueued
<1>8. QED
  BY <1>1, <1>2, <1>3, <1>4, <1>5, <1>6, <1>7

LEMMA AdmitNowInv ==
  ASSUME Inv, NEW t \in Threads, AdmitNow(t)
  PROVE  Inv'
<1> USE RunPoolAssumption DEF Inv, AdmitNow, TakeSlot, rowVars, poolVars, NoRequest,
     FreeThread, Spawned
<1>1. (TypeOK /\ WellFormed)'
  BY DEF TypeOK, WellFormed, Status, Phase, Message, ThreadState, ThreadStage, RequestState,
       RequestStage
<1>2. (OneWorkerPerRun /\ ActiveBounded /\ WorkConserving)'
  <2>1. request.run \in Runs /\ thread[t].at = "free"
    BY DEF WellFormed
  <2>2. /\ Live' = Live \cup {t} /\ t \notin Live
        /\ thread'[t].run = request.run
        /\ \A u \in Live : thread'[u].run = thread[u].run
    BY <2>1 DEF Live, TypeOK
  <2>3. OneWorkerPerRun'
    BY <2>2 DEF OneWorkerPerRun
  <2>4. ActiveBounded'
    BY FS_AddElement, FS_CardinalityType DEF ActiveBounded
  <2>5. WorkConserving'
    BY FS_CardinalityType DEF WorkConserving, ActiveBounded
  <2>6. QED
    BY <2>3, <2>4, <2>5
<1>3. (LockIsDeferral /\ DownIsEmpty)'
  BY DEF TypeOK, LockIsDeferral, DownIsEmpty, NoRequest, OneWorkerPerRun, Live
<1>4. WaitsInOnePlace'
  <2>1. \A u \in Threads : thread[u].at = "ending" => thread'[u] = thread[u]
    BY DEF TypeOK
  <2>2. ~InQueue(request.run)
    BY DEF Waiting
  <2>3. QED
    BY <2>1, <2>2 DEF TypeOK, WaitsInOnePlace, InQueue
<1>5. (ThreadMatchesRow /\ WaitingIsQueued /\ RequestMatchesRow /\ RowConsistent)'
  BY DEF TypeOK, WellFormed, OneWorkerPerRun, Live, ThreadMatchesRow, Waiting,
       WaitingIsQueued, RequestMatchesRow, RowConsistent, InQueue, WaitsInOnePlace
<1>6. (QueuedIsOwned /\ RunningIsOwned)'
  BY DEF TypeOK, WellFormed, QueuedIsOwned, RunningIsOwned, Waiting, InQueue,
       ThreadMatchesRow, OneWorkerPerRun, Live, RequestMatchesRow, WaitsInOnePlace,
       LockIsDeferral
<1>7. (OptionsHonoured /\ RunningNotShownWaiting)'
  BY DEF TypeOK, WellFormed, OptionsHonoured, RunningNotShownWaiting, ThreadMatchesRow,
       RequestMatchesRow, RowConsistent, OneWorkerPerRun, Live, WaitingIsQueued
<1>8. QED
  BY <1>1, <1>2, <1>3, <1>4, <1>5, <1>6, <1>7

(* A step that frees no slot, takes none and leaves every worker its run     *)
(* keeps the registry exact.                                                *)
LEMMA RegistryKept ==
  ASSUME OneWorkerPerRun, active' = active, Live' = Live,
         \A u \in Threads : thread'[u].run = thread[u].run
  PROVE  OneWorkerPerRun'
BY DEF OneWorkerPerRun, Live

LEMMA LoadInv ==
  ASSUME Inv, NEW t \in Threads, Load(t)
  PROVE  Inv'
<1> USE RunPoolAssumption DEF Inv, Load, rowVars, poolVars
<1>1. (TypeOK /\ WellFormed)'
  BY ZenonT(30) DEF TypeOK, WellFormed, Status, Phase, Message, ThreadState, ThreadStage, RequestState,
       RequestStage
<1>2. (OneWorkerPerRun /\ ActiveBounded /\ WorkConserving)'
  <2>1. Live' = Live /\ \A u \in Threads : thread'[u].run = thread[u].run
    BY DEF Live, TypeOK
  <2>2. OneWorkerPerRun'
    BY <2>1, RegistryKept
  <2>3. ActiveBounded' /\ WorkConserving'
    BY DEF ActiveBounded, WorkConserving
  <2>4. QED
    BY <2>2, <2>3
<1>3. (LockIsDeferral /\ DownIsEmpty)'
  BY DEF TypeOK, LockIsDeferral, DownIsEmpty, NoRequest, OneWorkerPerRun, Live
<1>4. WaitsInOnePlace'
  BY DEF TypeOK, OneWorkerPerRun, WellFormed, WaitsInOnePlace, Live
<1>5. (ThreadMatchesRow /\ WaitingIsQueued /\ RequestMatchesRow /\ RowConsistent)'
  <2>1. /\ thread[t].run \in Runs
        /\ \A u \in Threads : thread[u].run = thread[t].run => u = t
        /\ ~Waiting(thread[t].run)
        /\ request.at # "idle" => request.run # thread[t].run
    BY WorkerIsAlone
  <2>2. ThreadMatchesRow' /\ RowConsistent'
    BY <2>1 DEF TypeOK, ThreadState, ThreadMatchesRow, RowConsistent
  <2>3. WaitingIsQueued'
    BY <2>1 DEF TypeOK, WaitingIsQueued, Waiting, InQueue
  <2>4. RequestMatchesRow'
    BY <2>1 DEF TypeOK, WellFormed, ThreadState, RequestMatchesRow, Waiting, InQueue
  <2>5. QED
    BY <2>2, <2>3, <2>4
<1>6. (QueuedIsOwned /\ RunningIsOwned)'
  <2>1. /\ \A u \in Threads : u # t => thread'[u] = thread[u]
        /\ thread'[t].run = thread[t].run /\ thread'[t].at = "loaded"
    BY DEF TypeOK, ThreadState
  <2>2. \A r \in Runs : Waiting(r)' <=> Waiting(r)
    BY DEF Waiting, InQueue
  <2>3. /\ QueuedIsOwned /\ RunningIsOwned
        /\ UNCHANGED <<status, request, up, faulty>> /\ thread[t].at = "spawned"
    OBVIOUS
  <2> HIDE DEF Inv, Load
  <2>4. QueuedIsOwned'
    BY <2>1, <2>2, <2>3 DEF QueuedIsOwned
  <2>5. RunningIsOwned'
    BY <2>1, <2>3 DEF RunningIsOwned
  <2>6. QED
    BY <2>4, <2>5
<1>7. (OptionsHonoured /\ RunningNotShownWaiting)'
  BY DEF TypeOK, WellFormed, OptionsHonoured, RunningNotShownWaiting, ThreadMatchesRow,
       RequestMatchesRow, RowConsistent, OneWorkerPerRun, Live, WaitingIsQueued
<1>8. QED
  BY <1>1, <1>2, <1>3, <1>4, <1>5, <1>6, <1>7

LEMMA LoadFailsInv ==
  ASSUME Inv, NEW t \in Threads, LoadFails(t)
  PROVE  Inv'
<1> USE RunPoolAssumption DEF Inv, LoadFails, rowVars, poolVars
<1>1. (TypeOK /\ WellFormed)'
  BY DEF TypeOK, WellFormed, Status, Phase, Message, ThreadState, ThreadStage, RequestState,
       RequestStage
<1>2. (OneWorkerPerRun /\ ActiveBounded /\ WorkConserving)'
  <2>1. Live' = Live /\ \A u \in Threads : thread'[u].run = thread[u].run
    BY DEF Live, TypeOK
  <2>2. OneWorkerPerRun'
    BY <2>1, RegistryKept
  <2>3. ActiveBounded' /\ WorkConserving'
    BY DEF ActiveBounded, WorkConserving
  <2>4. QED
    BY <2>2, <2>3
<1>3. (LockIsDeferral /\ DownIsEmpty)'
  BY DEF TypeOK, LockIsDeferral, DownIsEmpty, NoRequest, OneWorkerPerRun, Live
<1>4. WaitsInOnePlace'
  BY DEF TypeOK, OneWorkerPerRun, WellFormed, WaitsInOnePlace, Live
<1>5. (ThreadMatchesRow /\ WaitingIsQueued /\ RequestMatchesRow /\ RowConsistent)'
  <2>1. /\ thread[t].run \in Runs
        /\ \A u \in Threads : thread[u].run = thread[t].run => u = t
        /\ ~Waiting(thread[t].run)
        /\ request.at # "idle" => request.run # thread[t].run
    BY WorkerIsAlone
  <2>2. ThreadMatchesRow' /\ RowConsistent'
    BY <2>1 DEF TypeOK, ThreadState, ThreadMatchesRow, RowConsistent
  <2>3. WaitingIsQueued'
    BY <2>1 DEF TypeOK, WaitingIsQueued, Waiting, InQueue
  <2>4. RequestMatchesRow'
    BY <2>1 DEF TypeOK, WellFormed, ThreadState, RequestMatchesRow, Waiting, InQueue
  <2>5. QED
    BY <2>2, <2>3, <2>4
<1>6. (QueuedIsOwned /\ RunningIsOwned)'
  BY DEF TypeOK, WellFormed, QueuedIsOwned, RunningIsOwned, Waiting, InQueue,
       ThreadMatchesRow, OneWorkerPerRun, Live, RequestMatchesRow, WaitsInOnePlace,
       LockIsDeferral
<1>7. (OptionsHonoured /\ RunningNotShownWaiting)'
  BY DEF TypeOK, WellFormed, OptionsHonoured, RunningNotShownWaiting, ThreadMatchesRow,
       RequestMatchesRow, RowConsistent, OneWorkerPerRun, Live, WaitingIsQueued
<1>8. QED
  BY <1>1, <1>2, <1>3, <1>4, <1>5, <1>6, <1>7

LEMMA BeginInv ==
  ASSUME Inv, NEW t \in Threads, Begin(t)
  PROVE  Inv'
<1> USE RunPoolAssumption DEF Inv, Begin, Record, rowVars, poolVars
<1>1. (TypeOK /\ WellFormed)'
  BY DEF TypeOK, WellFormed, Status, Phase, Message, ThreadState, ThreadStage, RequestState,
       RequestStage
<1>2. (OneWorkerPerRun /\ ActiveBounded /\ WorkConserving)'
  <2>1. Live' = Live /\ \A u \in Threads : thread'[u].run = thread[u].run
    BY DEF Live, TypeOK
  <2>2. OneWorkerPerRun'
    BY <2>1, RegistryKept
  <2>3. ActiveBounded' /\ WorkConserving'
    BY DEF ActiveBounded, WorkConserving
  <2>4. QED
    BY <2>2, <2>3
<1>3. (LockIsDeferral /\ DownIsEmpty)'
  BY DEF TypeOK, LockIsDeferral, DownIsEmpty, NoRequest, OneWorkerPerRun, Live
<1>4. WaitsInOnePlace'
  BY DEF TypeOK, OneWorkerPerRun, WellFormed, WaitsInOnePlace, Live
<1>5. (ThreadMatchesRow /\ WaitingIsQueued /\ RequestMatchesRow /\ RowConsistent)'
  <2>1. /\ thread[t].run \in Runs
        /\ \A u \in Threads : thread[u].run = thread[t].run => u = t
        /\ ~Waiting(thread[t].run)
        /\ request.at # "idle" => request.run # thread[t].run
    BY WorkerIsAlone
  <2>2. ThreadMatchesRow' /\ RowConsistent'
    BY <2>1 DEF TypeOK, ThreadState, ThreadMatchesRow, RowConsistent
  <2>3. WaitingIsQueued'
    BY <2>1 DEF TypeOK, WaitingIsQueued, Waiting, InQueue
  <2>4. RequestMatchesRow'
    BY <2>1 DEF TypeOK, WellFormed, ThreadState, RequestMatchesRow, Waiting, InQueue
  <2>5. QED
    BY <2>2, <2>3, <2>4
<1>6. (QueuedIsOwned /\ RunningIsOwned)'
  <2>1. /\ \A u \in Threads : u # t => thread'[u] = thread[u]
        /\ thread'[t].run = thread[t].run /\ thread'[t].at = "running"
        /\ thread[t].run \in Runs
    BY WorkerIsAlone DEF TypeOK, ThreadState
  <2>2. \A r \in Runs : Waiting(r)' <=> Waiting(r)
    BY DEF Waiting, InQueue
  <2>3. /\ \A r \in Runs : r # thread[t].run => status'[r] = status[r]
        /\ status'[thread[t].run] = "running"
    BY <2>1 DEF TypeOK
  <2>4. QED
    BY <2>1, <2>2, <2>3 DEF QueuedIsOwned, RunningIsOwned
<1>7. (OptionsHonoured /\ RunningNotShownWaiting)'
  BY DEF TypeOK, WellFormed, OptionsHonoured, RunningNotShownWaiting, ThreadMatchesRow,
       RequestMatchesRow, RowConsistent, OneWorkerPerRun, Live, WaitingIsQueued
<1>8. QED
  BY <1>1, <1>2, <1>3, <1>4, <1>5, <1>6, <1>7

LEMMA ProgressInv ==
  ASSUME Inv, NEW t \in Threads, Progress(t)
  PROVE  Inv'
<1> USE RunPoolAssumption DEF Inv, Progress, rowVars, poolVars
<1>1. (TypeOK /\ WellFormed)'
  BY DEF TypeOK, WellFormed, Status, Phase, Message, ThreadState, ThreadStage, RequestState,
       RequestStage
<1>2. (OneWorkerPerRun /\ ActiveBounded /\ WorkConserving)'
  <2>1. Live' = Live /\ \A u \in Threads : thread'[u].run = thread[u].run
    BY DEF Live, TypeOK
  <2>2. OneWorkerPerRun'
    BY <2>1, RegistryKept
  <2>3. ActiveBounded' /\ WorkConserving'
    BY DEF ActiveBounded, WorkConserving
  <2>4. QED
    BY <2>2, <2>3
<1>3. (LockIsDeferral /\ DownIsEmpty)'
  BY DEF TypeOK, LockIsDeferral, DownIsEmpty, NoRequest, OneWorkerPerRun, Live
<1>4. WaitsInOnePlace'
  BY DEF TypeOK, OneWorkerPerRun, WellFormed, WaitsInOnePlace, Live
<1>5. (ThreadMatchesRow /\ WaitingIsQueued /\ RequestMatchesRow /\ RowConsistent)'
  <2>1. /\ thread[t].run \in Runs
        /\ \A u \in Threads : thread[u].run = thread[t].run => u = t
        /\ ~Waiting(thread[t].run)
        /\ request.at # "idle" => request.run # thread[t].run
    BY WorkerIsAlone
  <2>2. ThreadMatchesRow' /\ RowConsistent'
    BY <2>1 DEF TypeOK, ThreadState, ThreadMatchesRow, RowConsistent
  <2>3. WaitingIsQueued'
    BY <2>1 DEF TypeOK, WaitingIsQueued, Waiting, InQueue
  <2>4. RequestMatchesRow'
    BY <2>1 DEF TypeOK, WellFormed, ThreadState, RequestMatchesRow, Waiting, InQueue
  <2>5. QED
    BY <2>2, <2>3, <2>4
<1>6. (QueuedIsOwned /\ RunningIsOwned)'
  BY DEF TypeOK, WellFormed, QueuedIsOwned, RunningIsOwned, Waiting, InQueue,
       ThreadMatchesRow, OneWorkerPerRun, Live, RequestMatchesRow, WaitsInOnePlace,
       LockIsDeferral
<1>7. (OptionsHonoured /\ RunningNotShownWaiting)'
  BY DEF TypeOK, WellFormed, OptionsHonoured, RunningNotShownWaiting, ThreadMatchesRow,
       RequestMatchesRow, RowConsistent, OneWorkerPerRun, Live, WaitingIsQueued
<1>8. QED
  BY <1>1, <1>2, <1>3, <1>4, <1>5, <1>6, <1>7

LEMMA CompleteInv ==
  ASSUME Inv, NEW t \in Threads, Complete(t)
  PROVE  Inv'
<1> USE RunPoolAssumption DEF Inv, Complete, Record, rowVars, poolVars
<1>1. (TypeOK /\ WellFormed)'
  BY DEF TypeOK, WellFormed, Status, Phase, Message, ThreadState, ThreadStage, RequestState,
       RequestStage
<1>2. (OneWorkerPerRun /\ ActiveBounded /\ WorkConserving)'
  <2>1. Live' = Live /\ \A u \in Threads : thread'[u].run = thread[u].run
    BY DEF Live, TypeOK
  <2>2. OneWorkerPerRun'
    BY <2>1, RegistryKept
  <2>3. ActiveBounded' /\ WorkConserving'
    BY DEF ActiveBounded, WorkConserving
  <2>4. QED
    BY <2>2, <2>3
<1>3. (LockIsDeferral /\ DownIsEmpty)'
  BY DEF TypeOK, LockIsDeferral, DownIsEmpty, NoRequest, OneWorkerPerRun, Live
<1>4. WaitsInOnePlace'
  BY DEF TypeOK, OneWorkerPerRun, WellFormed, WaitsInOnePlace, Live
<1>5. (ThreadMatchesRow /\ WaitingIsQueued /\ RequestMatchesRow /\ RowConsistent)'
  <2>1. /\ thread[t].run \in Runs
        /\ \A u \in Threads : thread[u].run = thread[t].run => u = t
        /\ ~Waiting(thread[t].run)
        /\ request.at # "idle" => request.run # thread[t].run
    BY WorkerIsAlone
  <2>2. ThreadMatchesRow' /\ RowConsistent'
    BY <2>1 DEF TypeOK, ThreadState, ThreadMatchesRow, RowConsistent
  <2>3. WaitingIsQueued'
    BY <2>1 DEF TypeOK, WaitingIsQueued, Waiting, InQueue
  <2>4. RequestMatchesRow'
    BY <2>1 DEF TypeOK, WellFormed, ThreadState, RequestMatchesRow, Waiting, InQueue
  <2>5. QED
    BY <2>2, <2>3, <2>4
<1>6. (QueuedIsOwned /\ RunningIsOwned)'
  BY DEF TypeOK, WellFormed, QueuedIsOwned, RunningIsOwned, Waiting, InQueue,
       ThreadMatchesRow, OneWorkerPerRun, Live, RequestMatchesRow, WaitsInOnePlace,
       LockIsDeferral
<1>7. (OptionsHonoured /\ RunningNotShownWaiting)'
  BY DEF TypeOK, WellFormed, OptionsHonoured, RunningNotShownWaiting, ThreadMatchesRow,
       RequestMatchesRow, RowConsistent, OneWorkerPerRun, Live, WaitingIsQueued
<1>8. QED
  BY <1>1, <1>2, <1>3, <1>4, <1>5, <1>6, <1>7

LEMMA FailInv ==
  ASSUME Inv, NEW t \in Threads, Fail(t)
  PROVE  Inv'
<1> USE RunPoolAssumption DEF Inv, Fail, Record, rowVars, poolVars
<1>1. (TypeOK /\ WellFormed)'
  BY DEF TypeOK, WellFormed, Status, Phase, Message, ThreadState, ThreadStage, RequestState,
       RequestStage
<1>2. (OneWorkerPerRun /\ ActiveBounded /\ WorkConserving)'
  <2>1. Live' = Live /\ \A u \in Threads : thread'[u].run = thread[u].run
    BY DEF Live, TypeOK
  <2>2. OneWorkerPerRun'
    BY <2>1, RegistryKept
  <2>3. ActiveBounded' /\ WorkConserving'
    BY DEF ActiveBounded, WorkConserving
  <2>4. QED
    BY <2>2, <2>3
<1>3. (LockIsDeferral /\ DownIsEmpty)'
  BY DEF TypeOK, LockIsDeferral, DownIsEmpty, NoRequest, OneWorkerPerRun, Live
<1>4. WaitsInOnePlace'
  BY DEF TypeOK, OneWorkerPerRun, WellFormed, WaitsInOnePlace, Live
<1>5. (ThreadMatchesRow /\ WaitingIsQueued /\ RequestMatchesRow /\ RowConsistent)'
  <2>1. /\ thread[t].run \in Runs
        /\ \A u \in Threads : thread[u].run = thread[t].run => u = t
        /\ ~Waiting(thread[t].run)
        /\ request.at # "idle" => request.run # thread[t].run
    BY WorkerIsAlone
  <2>2. ThreadMatchesRow' /\ RowConsistent'
    BY <2>1 DEF TypeOK, ThreadState, ThreadMatchesRow, RowConsistent
  <2>3. WaitingIsQueued'
    BY <2>1 DEF TypeOK, WaitingIsQueued, Waiting, InQueue
  <2>4. RequestMatchesRow'
    BY <2>1 DEF TypeOK, WellFormed, ThreadState, RequestMatchesRow, Waiting, InQueue
  <2>5. QED
    BY <2>2, <2>3, <2>4
<1>6. (QueuedIsOwned /\ RunningIsOwned)'
  <2>1. /\ \A u \in Threads : u # t => thread'[u] = thread[u]
        /\ thread[t].run \in Runs
    BY WorkerIsAlone DEF TypeOK, ThreadState
  <2>2. \A r \in Runs : Waiting(r)' <=> Waiting(r)
    BY DEF Waiting, InQueue
  <2>3. /\ \A r \in Runs : r # thread[t].run => status'[r] = status[r]
        /\ status'[thread[t].run] = "error"
    BY <2>1 DEF TypeOK
  <2>4. QED
    BY <2>1, <2>2, <2>3 DEF QueuedIsOwned, RunningIsOwned
<1>7. (OptionsHonoured /\ RunningNotShownWaiting)'
  BY DEF TypeOK, WellFormed, OptionsHonoured, RunningNotShownWaiting, ThreadMatchesRow,
       RequestMatchesRow, RowConsistent, OneWorkerPerRun, Live, WaitingIsQueued
<1>8. QED
  BY <1>1, <1>2, <1>3, <1>4, <1>5, <1>6, <1>7

LEMMA FailUnrecordedInv ==
  ASSUME Inv, NEW t \in Threads, FailUnrecorded(t)
  PROVE  Inv'
<1> USE RunPoolAssumption DEF Inv, FailUnrecorded, rowVars, poolVars
<1>1. (TypeOK /\ WellFormed)'
  BY ZenonT(30) DEF TypeOK, WellFormed, Status, Phase, Message, ThreadState, ThreadStage, RequestState,
       RequestStage
<1>2. (OneWorkerPerRun /\ ActiveBounded /\ WorkConserving)'
  <2>1. Live' = Live /\ \A u \in Threads : thread'[u].run = thread[u].run
    BY DEF Live, TypeOK
  <2>2. OneWorkerPerRun'
    BY <2>1, RegistryKept
  <2>3. ActiveBounded' /\ WorkConserving'
    BY DEF ActiveBounded, WorkConserving
  <2>4. QED
    BY <2>2, <2>3
<1>3. (LockIsDeferral /\ DownIsEmpty)'
  BY DEF TypeOK, LockIsDeferral, DownIsEmpty, NoRequest, OneWorkerPerRun, Live
<1>4. WaitsInOnePlace'
  BY DEF TypeOK, OneWorkerPerRun, WellFormed, WaitsInOnePlace, Live
<1>5. (ThreadMatchesRow /\ WaitingIsQueued /\ RequestMatchesRow /\ RowConsistent)'
  <2>1. /\ thread[t].run \in Runs
        /\ \A u \in Threads : thread[u].run = thread[t].run => u = t
        /\ ~Waiting(thread[t].run)
        /\ request.at # "idle" => request.run # thread[t].run
    BY WorkerIsAlone
  <2>2. ThreadMatchesRow' /\ RowConsistent'
    BY <2>1 DEF TypeOK, ThreadState, ThreadMatchesRow, RowConsistent
  <2>3. WaitingIsQueued'
    BY <2>1 DEF TypeOK, WaitingIsQueued, Waiting, InQueue
  <2>4. RequestMatchesRow'
    BY <2>1 DEF TypeOK, WellFormed, ThreadState, RequestMatchesRow, Waiting, InQueue
  <2>5. QED
    BY <2>2, <2>3, <2>4
<1>6. (QueuedIsOwned /\ RunningIsOwned)'
  BY DEF TypeOK, WellFormed, QueuedIsOwned, RunningIsOwned, Waiting, InQueue,
       ThreadMatchesRow, OneWorkerPerRun, Live, RequestMatchesRow, WaitsInOnePlace,
       LockIsDeferral
<1>7. (OptionsHonoured /\ RunningNotShownWaiting)'
  BY DEF TypeOK, WellFormed, OptionsHonoured, RunningNotShownWaiting, ThreadMatchesRow,
       RequestMatchesRow, RowConsistent, OneWorkerPerRun, Live, WaitingIsQueued
<1>8. QED
  BY <1>1, <1>2, <1>3, <1>4, <1>5, <1>6, <1>7

LEMMA HandToRetryInv ==
  ASSUME Inv, NEW t \in Threads, HandToRetry(t)
  PROVE  Inv'
<1> USE RunPoolAssumption DEF Inv, HandToRetry, PassSlot, rowVars, poolVars, Spawned
<1>1. (TypeOK /\ WellFormed)'
  BY DEF TypeOK, WellFormed, Status, Phase, Message, ThreadState, ThreadStage, RequestState,
       RequestStage
<1>2. (OneWorkerPerRun /\ ActiveBounded /\ WorkConserving)'
  <2>1. active' = active
    BY DEF OneWorkerPerRun, Live
  <2>2. Live' = Live /\ \A u \in Threads : thread'[u].run = thread[u].run
    BY DEF Live, TypeOK
  <2>3. OneWorkerPerRun'
    BY <2>1, <2>2 DEF OneWorkerPerRun, Live
  <2>4. ActiveBounded' /\ WorkConserving'
    BY <2>1 DEF ActiveBounded, WorkConserving
  <2>5. QED
    BY <2>3, <2>4
<1>3. (LockIsDeferral /\ DownIsEmpty)'
  BY DEF TypeOK, LockIsDeferral, DownIsEmpty, NoRequest, OneWorkerPerRun, Live
<1>4. WaitsInOnePlace'
  BY DEF TypeOK, OneWorkerPerRun, WellFormed, WaitsInOnePlace, Live
<1>5. (ThreadMatchesRow /\ WaitingIsQueued /\ RequestMatchesRow /\ RowConsistent)'
  BY DEF TypeOK, WellFormed, OneWorkerPerRun, Live, ThreadMatchesRow, Waiting,
       WaitingIsQueued, RequestMatchesRow, RowConsistent, InQueue, WaitsInOnePlace
<1>6. (QueuedIsOwned /\ RunningIsOwned)'
  BY DEF TypeOK, WellFormed, QueuedIsOwned, RunningIsOwned, Waiting, InQueue,
       ThreadMatchesRow, OneWorkerPerRun, Live, RequestMatchesRow, WaitsInOnePlace,
       LockIsDeferral
<1>7. (OptionsHonoured /\ RunningNotShownWaiting)'
  BY DEF TypeOK, WellFormed, OptionsHonoured, RunningNotShownWaiting, ThreadMatchesRow,
       RequestMatchesRow, RowConsistent, OneWorkerPerRun, Live, WaitingIsQueued
<1>8. QED
  BY <1>1, <1>2, <1>3, <1>4, <1>5, <1>6, <1>7

LEMMA HandToNextInv ==
  ASSUME Inv, NEW t \in Threads, HandToNext(t)
  PROVE  Inv'
<1> USE RunPoolAssumption DEF Inv, HandToNext, PassSlot, RoomForNext, rowVars, poolVars,
     Spawned
<1>1. (TypeOK /\ WellFormed)'
  BY DEF TypeOK, WellFormed, Status, Phase, Message, ThreadState, ThreadStage, RequestState,
       RequestStage
<1>2. (OneWorkerPerRun /\ ActiveBounded /\ WorkConserving)'
  <2>1. Len(pending) >= 1 /\ Head(pending) = pending[1]
    BY EmptySeq DEF TypeOK
  <2>2. Head(pending) \notin active
    BY <2>1, EmptySeq DEF WaitsInOnePlace, TypeOK
  <2>3. thread[t].run \in active
    BY DEF OneWorkerPerRun, Live
  <2>4. /\ Live' = Live /\ t \in Live /\ thread'[t].run = Head(pending)
        /\ \A u \in Threads : u # t => thread'[u] = thread[u]
    BY DEF Live, TypeOK
  <2>5. OneWorkerPerRun'
    BY <2>2, <2>3, <2>4 DEF OneWorkerPerRun, Live
  <2>6. IsFiniteSet(active') /\ Cardinality(active') = Cardinality(active)
    <3>1. /\ IsFiniteSet(active \ {thread[t].run})
          /\ Cardinality(active \ {thread[t].run}) = Cardinality(active) - 1
      BY <2>3, FS_RemoveElement DEF ActiveBounded
    <3>2. Head(pending) \notin active \ {thread[t].run}
      BY <2>2
    <3>3. Cardinality(active) \in Nat
      BY FS_CardinalityType DEF ActiveBounded
    <3>4. /\ IsFiniteSet((active \ {thread[t].run}) \cup {Head(pending)})
          /\ Cardinality((active \ {thread[t].run}) \cup {Head(pending)})
               = Cardinality(active \ {thread[t].run}) + 1
      BY <3>1, <3>2, FS_AddElement
    <3>5. QED
      BY <3>1, <3>3, <3>4
  <2>7. ActiveBounded' /\ WorkConserving'
    BY <2>6 DEF ActiveBounded, WorkConserving, LockIsDeferral
  <2>8. QED
    BY <2>5, <2>7
<1>3. (LockIsDeferral /\ DownIsEmpty)'
  BY DEF TypeOK, LockIsDeferral, DownIsEmpty, NoRequest, OneWorkerPerRun, Live
<1>4. WaitsInOnePlace'
  <2>1. /\ Head(pending) \in Runs /\ Tail(pending) \in Seq(Runs)
        /\ Len(pending) \in Nat /\ Len(pending) >= 1
        /\ Len(Tail(pending)) = Len(pending) - 1
        /\ \A i \in 1..Len(Tail(pending)) : Tail(pending)[i] = pending[i + 1]
        /\ Head(pending) = pending[1]
    BY HeadTailProperties, EmptySeq DEF TypeOK
  <2>2. Head(pending) \in Runs \ active /\ Head(pending) \notin restartPending
    BY <2>1 DEF WaitsInOnePlace
  <2>3. \A i \in 1..Len(pending') :
          /\ i \in 1..Len(pending) /\ i + 1 \in 1..Len(pending)
          /\ pending'[i] = pending[i + 1]
    BY <2>1
  <2>4. \A i, j \in 1..Len(pending') : pending'[i] = pending'[j] => i = j
    BY <2>3 DEF WaitsInOnePlace
  <2>5. \A i \in 1..Len(pending') :
          pending'[i] \notin active' \cup restartPending' /\ pending'[i] # Head(pending)
    BY <2>1, <2>3 DEF WaitsInOnePlace
  <2>6. \A r \in restartPending' :
          \E u \in Threads : thread'[u].run = r /\ thread'[u].at = "ending"
    BY DEF WaitsInOnePlace, TypeOK
  <2>7. QED
    BY <2>4, <2>5, <2>6 DEF WaitsInOnePlace
<1>5. (ThreadMatchesRow /\ WaitingIsQueued /\ RequestMatchesRow /\ RowConsistent)'
  <2>1. /\ Head(pending) \in Runs /\ Tail(pending) \in Seq(Runs)
        /\ Len(pending) \in Nat /\ Len(pending) >= 1
        /\ Len(Tail(pending)) = Len(pending) - 1
        /\ \A i \in 1..Len(Tail(pending)) : Tail(pending)[i] = pending[i + 1]
        /\ Head(pending) = pending[1]
    BY HeadTailProperties, EmptySeq DEF TypeOK
  <2>2. \A r \in Runs : Waiting(r) <=> Waiting(r)' \/ r = Head(pending)
    BY <2>1 DEF Waiting, InQueue

  <2>3. status[Head(pending)] = "queued"
    BY <2>1, <2>2 DEF WaitingIsQueued
  <2>4. ThreadMatchesRow' /\ RowConsistent'
    BY <2>3 DEF TypeOK, ThreadMatchesRow, RowConsistent
  <2>5. WaitingIsQueued'
    BY <2>2 DEF WaitingIsQueued
  <2>6. RequestMatchesRow'
    BY <2>1, <2>2, <2>3 DEF TypeOK, WellFormed, RequestMatchesRow, LockIsDeferral
  <2>7. QED
    BY <2>4, <2>5, <2>6
<1>6. (QueuedIsOwned /\ RunningIsOwned)'
  <2>1. /\ Head(pending) \in Runs /\ Tail(pending) \in Seq(Runs)
        /\ Len(pending) \in Nat /\ Len(pending) >= 1
        /\ Len(Tail(pending)) = Len(pending) - 1
        /\ \A i \in 1..Len(Tail(pending)) : Tail(pending)[i] = pending[i + 1]
        /\ Head(pending) = pending[1]
    BY HeadTailProperties, EmptySeq DEF TypeOK
  <2>2. \A r \in Runs : Waiting(r) <=> Waiting(r)' \/ r = Head(pending)
    BY <2>1 DEF Waiting, InQueue

  <2>3. /\ thread'[t].run = Head(pending) /\ thread'[t].at = "spawned"
        /\ \A u \in Threads : u # t => thread'[u] = thread[u]
    BY DEF TypeOK
  <2>4. QED
    BY <2>2, <2>3 DEF QueuedIsOwned, RunningIsOwned
<1>7. (OptionsHonoured /\ RunningNotShownWaiting)'
  BY DEF TypeOK, WellFormed, OptionsHonoured, RunningNotShownWaiting, ThreadMatchesRow,
       RequestMatchesRow, RowConsistent, OneWorkerPerRun, Live, WaitingIsQueued
<1>8. QED
  BY <1>1, <1>2, <1>3, <1>4, <1>5, <1>6, <1>7

LEMMA FreeSlotInv ==
  ASSUME Inv, NEW t \in Threads, FreeSlot(t)
  PROVE  Inv'
<1> USE RunPoolAssumption DEF Inv, FreeSlot, CloseSlot, RoomForNext, rowVars, poolVars,
     FreeThread
<1>1. (TypeOK /\ WellFormed)'
  BY DEF TypeOK, WellFormed, Status, Phase, Message, ThreadState, ThreadStage, RequestState,
       RequestStage
<1>2. (OneWorkerPerRun /\ ActiveBounded /\ WorkConserving)'
  <2>1. thread[t].run \in active
    BY DEF OneWorkerPerRun, Live
  <2>2. /\ Live' = Live \ {t} /\ t \in Live
        /\ \A u \in Threads : u # t => thread'[u] = thread[u]
    BY DEF Live, TypeOK
  <2>3. OneWorkerPerRun'
    BY <2>1, <2>2 DEF OneWorkerPerRun, Live
  <2>4. /\ IsFiniteSet(active') /\ Cardinality(active') = Cardinality(active) - 1
        /\ Cardinality(active) \in Nat
    BY <2>1, FS_RemoveElement, FS_CardinalityType DEF ActiveBounded
  <2>5. ActiveBounded' /\ WorkConserving'
    BY <2>4 DEF ActiveBounded, WorkConserving, LockIsDeferral
  <2>6. QED
    BY <2>3, <2>5
<1>3. (LockIsDeferral /\ DownIsEmpty)'
  BY DEF TypeOK, LockIsDeferral, DownIsEmpty, NoRequest, OneWorkerPerRun, Live
<1>4. WaitsInOnePlace'
  BY DEF TypeOK, OneWorkerPerRun, WellFormed, WaitsInOnePlace, Live
<1>5. (ThreadMatchesRow /\ WaitingIsQueued /\ RequestMatchesRow /\ RowConsistent)'
  BY DEF TypeOK, WellFormed, OneWorkerPerRun, Live, ThreadMatchesRow, Waiting,
       WaitingIsQueued, RequestMatchesRow, RowConsistent, InQueue, WaitsInOnePlace
<1>6. (QueuedIsOwned /\ RunningIsOwned)'
  <2>1. /\ \A u \in Threads : u # t => thread'[u] = thread[u]
        /\ UNCHANGED <<status, request, up, faulty>> /\ thread[t].at = "ending"
    BY DEF TypeOK
  <2>2. \A r \in Runs : Waiting(r)' <=> Waiting(r)
    BY DEF Waiting, InQueue
  <2>3. QED
    BY <2>1, <2>2 DEF QueuedIsOwned, RunningIsOwned
<1>7. (OptionsHonoured /\ RunningNotShownWaiting)'
  BY DEF TypeOK, WellFormed, OptionsHonoured, RunningNotShownWaiting, ThreadMatchesRow,
       RequestMatchesRow, RowConsistent, OneWorkerPerRun, Live, WaitingIsQueued
<1>8. QED
  BY <1>1, <1>2, <1>3, <1>4, <1>5, <1>6, <1>7

LEMMA CrashInv ==
  ASSUME Inv, Crash
  PROVE  Inv'
<1> USE RunPoolAssumption DEF Inv, Crash, rowVars, poolVars, FreeThread, NoRequest
<1>1. (TypeOK /\ WellFormed)'
  BY EmptySeq DEF TypeOK, WellFormed, ThreadState, ThreadStage, RequestState, RequestStage
<1>2. (OneWorkerPerRun /\ ActiveBounded /\ WorkConserving)'
  <2>1. Live' = {}
    BY DEF Live
  <2>2. QED
    BY <2>1, FS_EmptySet DEF OneWorkerPerRun, ActiveBounded, WorkConserving
<1>3. (LockIsDeferral /\ DownIsEmpty)'
  BY DEF TypeOK, LockIsDeferral, DownIsEmpty, NoRequest, OneWorkerPerRun, Live
<1>4. WaitsInOnePlace'
  BY DEF TypeOK, OneWorkerPerRun, WellFormed, WaitsInOnePlace, Live
<1>5. (ThreadMatchesRow /\ WaitingIsQueued /\ RequestMatchesRow /\ RowConsistent)'
  BY DEF TypeOK, WellFormed, OneWorkerPerRun, Live, ThreadMatchesRow, Waiting,
       WaitingIsQueued, RequestMatchesRow, RowConsistent, InQueue, WaitsInOnePlace
<1>6. (QueuedIsOwned /\ RunningIsOwned)'
  BY DEF TypeOK, WellFormed, QueuedIsOwned, RunningIsOwned, Waiting, InQueue,
       ThreadMatchesRow, OneWorkerPerRun, Live, RequestMatchesRow, WaitsInOnePlace,
       LockIsDeferral
<1>7. (OptionsHonoured /\ RunningNotShownWaiting)'
  BY DEF TypeOK, WellFormed, OptionsHonoured, RunningNotShownWaiting, ThreadMatchesRow,
       RequestMatchesRow, RowConsistent, OneWorkerPerRun, Live, WaitingIsQueued
<1>8. QED
  BY <1>1, <1>2, <1>3, <1>4, <1>5, <1>6, <1>7

LEMMA RecoverOrphansInv ==
  ASSUME Inv, RecoverOrphans
  PROVE  Inv'
<1> USE RunPoolAssumption DEF Inv, RecoverOrphans, Interrupt, rowVars, poolVars, Orphaned
<1>1. (TypeOK /\ WellFormed)'
  BY DEF TypeOK, WellFormed, Status, Phase, Message, ThreadState, ThreadStage, RequestState,
       RequestStage
<1>2. (OneWorkerPerRun /\ ActiveBounded /\ WorkConserving)'
  BY DEF TypeOK, OneWorkerPerRun, ActiveBounded, WorkConserving, Live
<1>3. (LockIsDeferral /\ DownIsEmpty)'
  BY DEF TypeOK, LockIsDeferral, DownIsEmpty, NoRequest, OneWorkerPerRun, Live
<1>4. WaitsInOnePlace'
  BY DEF TypeOK, OneWorkerPerRun, WellFormed, WaitsInOnePlace, Live
<1>5. (ThreadMatchesRow /\ WaitingIsQueued /\ RequestMatchesRow /\ RowConsistent)'
  <2>1. Live = {} /\ ~InQueue(NoRun) /\ restartPending = {} /\ request.at = "idle"
        /\ pending = <<>>
    BY DEF DownIsEmpty, OneWorkerPerRun, NoRequest, InQueue
  <2>2. ThreadMatchesRow' /\ RequestMatchesRow'
    BY <2>1 DEF ThreadMatchesRow, RequestMatchesRow, Live
  <2>3. WaitingIsQueued'
    BY <2>1 DEF WaitingIsQueued, Waiting, InQueue
  <2>4. RowConsistent'
    BY DEF TypeOK, Status, RowConsistent
  <2>5. QED
    BY <2>2, <2>3, <2>4
<1>6. (QueuedIsOwned /\ RunningIsOwned)'
  BY DEF TypeOK, WellFormed, QueuedIsOwned, RunningIsOwned, Waiting, InQueue,
       ThreadMatchesRow, OneWorkerPerRun, Live, RequestMatchesRow, WaitsInOnePlace,
       LockIsDeferral
<1>7. (OptionsHonoured /\ RunningNotShownWaiting)'
  BY DEF TypeOK, WellFormed, OptionsHonoured, RunningNotShownWaiting, ThreadMatchesRow,
       RequestMatchesRow, RowConsistent, OneWorkerPerRun, Live, WaitingIsQueued
<1>8. QED
  BY <1>1, <1>2, <1>3, <1>4, <1>5, <1>6, <1>7

LEMMA NextInv == Inv /\ [Next]_vars => Inv'
<1> SUFFICES ASSUME Inv, [Next]_vars PROVE Inv'
  OBVIOUS
<1>1. ASSUME NEW r \in Runs, NEW o \in Options, StartRead(r, o) PROVE Inv'
  BY <1>1, StartReadInv
<1>2. CASE StartStep
  BY <1>2, StartCommitInv, AdmitKnownInv, DeferPersistInv, DeferAppendInv, AdmitNowInv
     DEF StartStep
<1>3. CASE StartAbort
  BY <1>3, StartAbortInv
<1>4. ASSUME NEW t \in Threads, Work(t) \/ Progress(t) \/ Fault(t) \/ Release(t)
      PROVE  Inv'
  <2>1. CASE Work(t)
    BY <2>1, LoadInv, BeginInv, CompleteInv, FailInv DEF Work
  <2>2. CASE Progress(t)
    BY <2>2, ProgressInv
  <2>3. CASE Fault(t)
    BY <2>3, LoadFailsInv, FailUnrecordedInv DEF Fault
  <2>4. CASE Release(t)
    BY <2>4, HandToRetryInv, HandToNextInv, FreeSlotInv DEF Release
  <2>5. QED
    BY <1>4, <2>1, <2>2, <2>3, <2>4
<1>5. CASE Crash
  BY <1>5, CrashInv
<1>6. CASE RecoverOrphans
  BY <1>6, RecoverOrphansInv
<1>7. CASE UNCHANGED vars
  <2> USE <1>7 DEF vars, rowVars, poolVars, Inv
  <2>1. (TypeOK /\ WellFormed /\ LockIsDeferral /\ DownIsEmpty /\ ActiveBounded)'
    BY DEF TypeOK, WellFormed, LockIsDeferral, DownIsEmpty, ActiveBounded
  <2>2. (OneWorkerPerRun /\ WorkConserving /\ WaitsInOnePlace)'
    BY DEF OneWorkerPerRun, Live, WorkConserving, WaitsInOnePlace
  <2>3. (ThreadMatchesRow /\ WaitingIsQueued /\ RequestMatchesRow /\ RowConsistent)'
    BY DEF ThreadMatchesRow, WaitingIsQueued, Waiting, InQueue, RequestMatchesRow,
         RowConsistent
  <2>4. (QueuedIsOwned /\ RunningIsOwned)'
    BY DEF QueuedIsOwned, RunningIsOwned, Waiting, InQueue
  <2>5. (OptionsHonoured /\ RunningNotShownWaiting)'
    BY DEF OptionsHonoured, RunningNotShownWaiting
  <2>6. QED
    BY <2>1, <2>2, <2>3, <2>4, <2>5
<1>8. QED
  BY <1>1, <1>2, <1>3, <1>4, <1>5, <1>6, <1>7 DEF Next

(* Inv holds in every state: its parts are what every theorem below uses. *)
THEOREM InvariantHolds == Spec => []Inv
BY InitInv, NextInv, PTL DEF Spec

(* Every variable keeps its type. *)
THEOREM TypeCorrect == Spec => []TypeOK
<1>1. Inv => TypeOK
  BY DEF Inv
<1>2. QED
  BY <1>1, InvariantHolds, PTL

(* A run never has two worker threads: a retry started while the errored    *)
(* worker of the same run is tearing down waits for that very worker.       *)
THEOREM NoDoubleExecution == Spec => []OneWorkerPerRun
<1>1. Inv => OneWorkerPerRun
  BY DEF Inv
<1>2. QED
  BY <1>1, InvariantHolds, PTL

(* There are never more than RUN_MAX_CONCURRENT workers: the threads that   *)
(* are alive map one to one into the registry the code counts.              *)
THEOREM CapHolds == Spec => []ConcurrencyCap
<1>1. Inv => ConcurrencyCap
  <2> SUFFICES ASSUME Inv PROVE ConcurrencyCap
    OBVIOUS
  <2> DEFINE f == [t \in Live |-> thread[t].run]
  <2>1. f \in Injection(Live, active)
    BY DEF Inv, OneWorkerPerRun, Injection, IsInjective
  <2>2. Cardinality(Live) <= Cardinality(active) /\ IsFiniteSet(Live)
    <3> HIDE DEF f
    <3>1. QED
      BY <2>1, FS_Injection DEF Inv, ActiveBounded
  <2>3. Cardinality(Live) \in Nat /\ Cardinality(active) \in Nat
    BY <2>2, FS_CardinalityType DEF Inv, ActiveBounded
  <2>4. QED
    BY <2>2, <2>3, RunPoolAssumption DEF Inv, ActiveBounded, ConcurrencyCap
<1>2. QED
  BY <1>1, InvariantHolds, PTL

(* No run waits while a slot is idle. *)
THEOREM NoIdleSlotWhileWaiting == Spec => []WorkConserving
<1>1. Inv => WorkConserving
  BY DEF Inv
<1>2. QED
  BY <1>1, InvariantHolds, PTL

(* A row shown as queued or running is in somebody's hands. *)
THEOREM NothingStranded == Spec => []RowsAreOwned
<1>1. Inv => RowsAreOwned
  BY DEF Inv, RowsAreOwned
<1>2. QED
  BY <1>1, InvariantHolds, PTL

(* A worker computes with the options of the start that queued it. *)
THEOREM FreshOptions == Spec => []OptionsHonoured
<1>1. Inv => OptionsHonoured
  BY DEF Inv
<1>2. QED
  BY <1>1, InvariantHolds, PTL

(* A done row is never written again, by anyone. *)
THEOREM DoneStays == Spec => DoneIsFinal
<1> DEFINE Kept == \A r \in Runs : status[r] = "done"
                     => status'[r] = "done" /\ result'[r] = result[r]
                        /\ options'[r] = options[r]
<1>1. ASSUME Inv, [Next]_vars PROVE [Kept]_vars
  <2> SUFFICES ASSUME NEW r \in Runs, status[r] = "done", Next
               PROVE  status'[r] = "done" /\ result'[r] = result[r]
                      /\ options'[r] = options[r]
    BY <1>1
  <2>1. \A t \in Threads :
          thread[t].at \in {"loaded", "running"} => thread[t].run # r
    BY <1>1 DEF Inv, ThreadMatchesRow
  <2>2. request.at = "read" => request.run # r
    BY <1>1 DEF Inv, RequestMatchesRow
  <2>3. CASE StartStep
    BY <1>1, <2>2, <2>3 DEF Inv, TypeOK, StartStep, StartCommit, AdmitKnown, DeferPersist,
         Announce, DeferAppend, AdmitNow, TakeSlot, rowVars
  <2>4. ASSUME NEW t \in Threads, Work(t) \/ Progress(t) \/ Fault(t) \/ Release(t)
        PROVE  status'[r] = "done" /\ result'[r] = result[r] /\ options'[r] = options[r]
    BY <1>1, <2>1, <2>4 DEF Inv, TypeOK, Work, Load, Begin, Record, Complete, Fail, Progress,
         Fault, LoadFails, FailUnrecorded, Release, HandToRetry, HandToNext, PassSlot,
         FreeSlot, CloseSlot, rowVars
  <2>5. CASE RecoverOrphans
    BY <1>1, <2>5 DEF RecoverOrphans, Interrupt, Orphaned
  <2>6. QED
    BY <2>3, <2>4, <2>5 DEF Next, StartRead, Proceed, StartAbort, Crash, rowVars
<1>2. QED
  BY <1>1, InvariantHolds, PTL DEF Spec, DoneIsFinal

(* While the FIFO is not empty a worker starts only for its head, or for the *)
(* retry of the run whose slot it takes over: no request can overtake those  *)
(* that wait, since a waiting run means that every slot is taken (runs.py).  *)
THEOREM ServedInOrder == Spec => FifoService
<1> DEFINE Turn(r, t) == r = Head(pending) \/ (r = thread[t].run /\ r \in restartPending)
           Starts(t)  == thread'[t].at = "spawned" /\ thread[t].at # "spawned"
           Ordered == \A r \in Runs, t \in Threads :
             (pending # <<>> /\ thread'[t].at = "spawned"
                /\ thread'[t].run = r /\ thread[t].at # "spawned")
               => \/ r = Head(pending)
                  \/ r = thread[t].run /\ r \in restartPending
<1>1. ASSUME Inv, [Next]_vars PROVE [Ordered]_vars
  <2> SUFFICES ASSUME NEW t \in Threads, Starts(t), pending # <<>>, Next
               PROVE  Turn(thread'[t].run, t)
    BY <1>1
  <2>1. /\ thread \in [Threads -> ThreadState] /\ FreeThread.at = "free"
        /\ \A r : Spawned(r).at = "spawned" /\ Spawned(r).run = r
    BY <1>1 DEF Inv, TypeOK, FreeThread, Spawned
  <2>2. ASSUME NEW u \in Threads, AdmitNow(u) PROVE FALSE
    BY <1>1, <2>2, RunPoolAssumption DEF AdmitNow, Inv, WorkConserving
  <2>3. thread' # thread
    OBVIOUS
  <2>4. CASE StartStep
    BY <2>2, <2>3, <2>4 DEF StartStep, StartCommit, AdmitKnown, DeferPersist, Announce, DeferAppend
  <2>5. ASSUME NEW u \in Threads, Work(u) \/ Progress(u) \/ Fault(u) \/ FreeSlot(u) PROVE FALSE
    <3>1. thread'[t].at # "spawned" \/ thread'[t] = thread[t]
      BY <2>1, <2>5 DEF ThreadState, Work, Load, Begin, Complete, Fail, Progress, Fault, LoadFails,
           FailUnrecorded, FreeSlot, CloseSlot
    <3> QED
      BY <3>1
  <2>6. ASSUME NEW u \in Threads, HandToRetry(u) \/ HandToNext(u) PROVE Turn(thread'[t].run, t)
    <3>1. u = t
      BY <2>1, <2>6 DEF HandToRetry, HandToNext, PassSlot
    <3>2. CASE HandToRetry(t)
      BY <2>1, <3>2 DEF HandToRetry, PassSlot
    <3>3. CASE HandToNext(t)
      BY <2>1, <3>3 DEF HandToNext, PassSlot
    <3> QED
      BY <2>6, <3>1, <3>2, <3>3
  <2>7. CASE Crash
    BY <2>1, <2>7 DEF Crash
  <2> QED
    BY <2>3, <2>4, <2>5, <2>6, <2>7
       DEF Next, Release, StartRead, Proceed, StartAbort, RecoverOrphans, Interrupt
<1> QED
  BY <1>1, InvariantHolds, PTL DEF Spec, FifoService

-----------------------------------------------------------------------------
(* The pool implements RunLifecycle. *)

(* What changes Executing: a thread that enters or leaves the stage running. *)
LEMMA ExecutingChange ==
  ASSUME Inv, NEW t \in Threads,
         \A u \in Threads : u # t => thread'[u] = thread[u]
  PROVE  /\ (thread[t].at # "running" /\ thread'[t].at # "running")
              => Executing' = Executing
         /\ (thread[t].at # "running" /\ thread'[t].at = "running"
             /\ thread'[t].run \in Runs)
              => Executing' = Executing \cup {thread'[t].run}
         /\ (thread[t].at = "running" /\ thread'[t].at # "running")
              => Executing' = Executing \ {thread[t].run}
<1>1. thread[t].at = "running" =>
        \A u \in Threads : thread[u].run = thread[t].run => u = t
  BY WorkerIsAlone
<1>2. QED
  BY <1>1 DEF Executing

(* The instance brings its own copy of the operator Cardinality. *)
LEMMA CardinalityAgrees == \A S : Lifecycle!Cardinality(S) = Cardinality(S)
BY DEF Cardinality, Lifecycle!Cardinality, IsFiniteSet, Lifecycle!IsFiniteSet

LEMMA BeginRefines ==
  ASSUME Inv, NEW t \in Threads, Begin(t)
  PROVE  Lifecycle!Execute(thread[t].run)
<1> DEFINE r == thread[t].run
<1>1. /\ r \in Runs /\ r \in active
      /\ \A u \in Threads : thread[u].run = r => u = t
  BY WorkerIsAlone DEF Begin, Record
<1>2. status[r] = "queued"
  BY DEF Begin, Record, Inv, ThreadMatchesRow
<1>3. Executing' = Executing \cup {r}
  <2>1. /\ \A u \in Threads : u # t => thread'[u] = thread[u]
        /\ thread[t].at = "loaded" /\ thread'[t].at = "running" /\ thread'[t].run = r
    BY DEF Begin, Record, Inv, TypeOK, ThreadState
  <2>2. QED
    BY <1>1, <2>1, ExecutingChange
<1>4. r \notin Executing /\ Executing \subseteq active \ {r}
  BY <1>1 DEF Executing, Begin, Record, Inv, OneWorkerPerRun, Live
<1>5. Cardinality(Executing) < MaxConcurrent
  <2>1. /\ IsFiniteSet(active \ {r})
        /\ Cardinality(active \ {r}) = Cardinality(active) - 1
    BY <1>1, FS_RemoveElement DEF Inv, ActiveBounded
  <2>2. Cardinality(Executing) <= Cardinality(active \ {r}) /\ IsFiniteSet(Executing)
    BY <1>4, <2>1, FS_Subset
  <2>3. QED
    BY <2>1, <2>2, FS_CardinalityType, RunPoolAssumption DEF Inv, ActiveBounded
<1>6. /\ status' = [status EXCEPT ![r] = "running"]
      /\ UNCHANGED <<options, result>>
  BY DEF Begin, Record
<1>7. QED
  BY <1>2, <1>3, <1>4, <1>5, <1>6, CardinalityAgrees DEF Lifecycle!Execute

LEMMA EndRefines ==
  ASSUME Inv, NEW t \in Threads
  PROVE  /\ Complete(t) => Lifecycle!Succeed(thread[t].run)
         /\ Fail(t) => Lifecycle!FailRun(thread[t].run)
         /\ FailUnrecorded(t) =>
              \/ Lifecycle!Vanish(thread[t].run)
              \/ UNCHANGED <<status, options, result, Executing>>
<1> DEFINE r == thread[t].run
<1>1. thread[t].at = "running" => r \in Executing
  BY DEF Executing, Inv, WellFormed
<1>2. thread[t].at = "loaded" => r \notin Executing
  BY WorkerIsAlone DEF Executing
<1>3. ASSUME Complete(t) \/ Fail(t) \/ FailUnrecorded(t)
      PROVE  /\ \A u \in Threads : u # t => thread'[u] = thread[u]
             /\ thread'[t].at = "ending"
  BY <1>3 DEF Complete, Record, Fail, FailUnrecorded, Inv, TypeOK, ThreadState
<1>4. ASSUME Complete(t) PROVE Lifecycle!Succeed(r)
  <2>1. Executing' = Executing \ {r}
    BY <1>3, <1>4, ExecutingChange DEF Complete, Record
  <2>2. thread[t].options = options[r]
    BY <1>4 DEF Complete, Record, Inv, OptionsHonoured
  <2>3. QED
    BY <1>1, <1>4, <2>1, <2>2 DEF Complete, Record, Lifecycle!Succeed
<1>5. ASSUME Fail(t) PROVE Lifecycle!FailRun(r)
  <2>1. Executing' = Executing \ {r}
    BY <1>2, <1>3, <1>5, ExecutingChange DEF Fail, Record
  <2>2. status[r] \in {"queued", "running"}
    BY <1>5 DEF Fail, Record, Inv, ThreadMatchesRow
  <2>3. QED
    BY <1>5, <2>1, <2>2 DEF Fail, Record, Lifecycle!FailRun
<1>6. ASSUME FailUnrecorded(t)
      PROVE  Lifecycle!Vanish(r) \/ UNCHANGED <<status, options, result, Executing>>
  <2>1. CASE thread[t].at = "running"
    <3>1. Executing' = Executing \ {r}
      BY <1>3, <1>6, <2>1, ExecutingChange
    <3>2. QED
      BY <1>1, <1>6, <2>1, <3>1 DEF FailUnrecorded, rowVars, Lifecycle!Vanish
  <2>2. CASE thread[t].at = "loaded"
    BY <1>3, <1>6, <2>2, ExecutingChange DEF FailUnrecorded, rowVars
  <2>3. QED
    BY <1>6, <2>1, <2>2 DEF FailUnrecorded
<1>7. QED
  BY <1>4, <1>5, <1>6

LEMMA StepRefines ==
  ASSUME Inv, [Next]_vars
  PROVE  [Lifecycle!LNext]_(Lifecycle!lifecycleVars)
<1> DEFINE Still == UNCHANGED <<status, options, result, Executing>>
<1>0. Still => UNCHANGED Lifecycle!lifecycleVars
  BY DEF Lifecycle!lifecycleVars
<1>1. ASSUME NEW r \in Runs, NEW o \in Options, StartRead(r, o) PROVE Still
  BY <1>1 DEF StartRead, Proceed, rowVars, Executing
<1>2. CASE StartStep
  <2>1. CASE StartCommit
    <3>1. request.run \in Runs /\ request.options \in Options
          /\ status[request.run] \in {"pending", "error"}
      BY <2>1 DEF StartCommit, Inv, WellFormed, RequestMatchesRow
    <3>2. request.run \notin Executing
      BY <3>1 DEF Executing, Inv, ThreadMatchesRow
    <3>3. Lifecycle!Submit(request.run, request.options)
      BY <2>1, <3>1, <3>2 DEF StartCommit, Executing, Lifecycle!Submit
    <3>4. QED
      BY <3>1, <3>3 DEF Lifecycle!LNext
  <2>2. CASE AdmitKnown \/ DeferPersist \/ DeferAppend
    BY <1>0, <2>2 DEF AdmitKnown, DeferPersist, Announce, DeferAppend, rowVars, Executing
  <2>3. ASSUME NEW t \in Threads, AdmitNow(t) PROVE Still
    <3>1. /\ \A u \in Threads : u # t => thread'[u] = thread[u]
          /\ thread[t].at = "free" /\ thread'[t].at = "spawned"
      BY <2>3 DEF AdmitNow, TakeSlot, FreeThread, Spawned, Inv, TypeOK
    <3>2. QED
      BY <2>3, <3>1, ExecutingChange DEF AdmitNow, TakeSlot, rowVars
  <2>4. QED
    BY <1>0, <1>2, <2>1, <2>2, <2>3 DEF StartStep
<1>3. CASE StartAbort
  BY <1>0, <1>3 DEF StartAbort, rowVars, Executing
<1>4. ASSUME NEW t \in Threads, Work(t) \/ Progress(t) \/ Fault(t) \/ Release(t)
      PROVE  Lifecycle!LNext \/ Still
  <2>1. thread[t].at # "free" => thread[t].run \in Runs
    BY DEF Inv, WellFormed
  <2>2. CASE Begin(t)
    BY <2>1, <2>2, BeginRefines DEF Begin, Record, Lifecycle!LNext
  <2>3. CASE Complete(t) \/ Fail(t) \/ FailUnrecorded(t)
    BY <2>1, <2>3, EndRefines DEF Complete, Record, Fail, FailUnrecorded, Lifecycle!LNext
  <2>4. CASE Progress(t)
    BY <2>4 DEF Progress, Executing
  <2>5. CASE Load(t) \/ LoadFails(t) \/ Release(t)
    <3>1. /\ \A u \in Threads : u # t => thread'[u] = thread[u]
          /\ thread[t].at # "running" /\ thread'[t].at # "running"
      BY <2>5 DEF Load, LoadFails, Release, HandToRetry, HandToNext, PassSlot, FreeSlot,
           CloseSlot, Spawned, FreeThread, Inv, TypeOK, ThreadState
    <3>2. QED
      BY <2>5, <3>1, ExecutingChange DEF Load, LoadFails, Release, HandToRetry, HandToNext,
           PassSlot, FreeSlot, CloseSlot, RoomForNext, rowVars
  <2>6. QED
    BY <1>4, <2>2, <2>3, <2>4, <2>5 DEF Work, Fault
<1>5. CASE Crash
  <2>1. Executing' = {}
    BY <1>5 DEF Crash, Executing, FreeThread
  <2>2. Lifecycle!Die
    BY <1>5, <2>1 DEF Crash, rowVars, Lifecycle!Die
  <2>3. QED
    BY <2>2 DEF Lifecycle!LNext
<1>6. CASE RecoverOrphans
  <2>1. Executing = {} /\ Executing' = {}
    BY <1>6, ZenonT(30) DEF RecoverOrphans, Interrupt, Executing, Inv, DownIsEmpty, OneWorkerPerRun, Live
  <2>2. Lifecycle!Interrupt
    BY <1>6, <2>1 DEF RecoverOrphans, Interrupt, Orphaned, Lifecycle!Interrupt
  <2>3. QED
    BY <2>2 DEF Lifecycle!LNext
<1>7. CASE UNCHANGED vars
  BY <1>0, <1>7 DEF vars, rowVars, Executing
<1>8. QED
  BY <1>0, <1>1, <1>2, <1>3, <1>4, <1>5, <1>6, <1>7 DEF Next

(* Every behaviour of the pool is one RunLifecycle allows. *)
THEOREM PoolImplementsLifecycle == Spec => ImplementsLifecycle
<1>1. Init => Lifecycle!LInit
  BY DEF Init, Executing, FreeThread, Lifecycle!LInit
<1>2. Inv /\ [Next]_vars => [Lifecycle!LNext]_(Lifecycle!lifecycleVars)
  BY StepRefines
<1>3. QED
  BY <1>1, <1>2, InvariantHolds, PTL DEF Spec, ImplementsLifecycle, Lifecycle!LSpec
=============================================================================
