------------------------------ MODULE RunPool ------------------------------
(***************************************************************************)
(* The run pool of app/reconciler/runs.py together with the part of the    *)
(* start route (app/reconciler/routes.py) that feeds it.                   *)
(*                                                                         *)
(* A reconciliation run is a row of the SQLite table runs.  POST           *)
(* /runs/{id}/start marks the row queued and calls start_run, which gives  *)
(* the run a worker thread, or parks it in the FIFO _pending when          *)
(* RUN_MAX_CONCURRENT workers are alive, or -- when the old worker of the  *)
(* same run has recorded its error but has not left _run_slot yet --       *)
(* attaches it to that worker's slot.  A worker thread loads the row, runs *)
(* the pipeline, records done or error, and in the finally block of        *)
(* _run_slot hands its slot over.                                          *)
(*                                                                         *)
(* The route runs on the event loop, so there is one start request at a    *)
(* time; every worker is a thread of its own.  A step is one database call *)
(* or one critical section of _pool_lock.  The process may die at any      *)
(* time: the pool and the threads are lost, the table survives.            *)
(***************************************************************************)
EXTENDS Naturals, Sequences, FiniteSets

CONSTANTS
  Runs,           (* identifiers of the runs the table holds               *)
  Threads,        (* identities of worker threads                          *)
  Options,        (* values of options_json a start may submit             *)
  MaxConcurrent,  (* config.RUN_MAX_CONCURRENT                             *)
  NoRun,          (* "no run": a thread or a request slot that is free     *)
  NoOptions       (* options_json / result_json is NULL                    *)

ASSUME RunPoolAssumption ==
  /\ MaxConcurrent \in Nat \ {0}
  /\ NoRun \notin Runs
  /\ NoOptions \notin Options

VARIABLES
  (* The row of each run. *)
  status, phase, message, options, result,
  (* The pool: _active, _pending, _restart_pending, and _pool_lock, which   *)
  (* only _defer_locked holds across two steps.                            *)
  active, pending, restartPending, poolLocked,
  (* Worker threads and the start request being served. *)
  thread, request,
  (* Whether the process is up, and the runs a failed database call of this *)
  (* process has touched (a history variable).                              *)
  up, faulty

rowVars  == <<status, phase, message, options, result>>
poolVars == <<active, pending, restartPending, poolLocked>>
vars     == <<rowVars, poolVars, thread, request, up, faulty>>

Status  == {"pending", "queued", "running", "done", "error"}
Phase   == {"none", "parse", "match", "done", "error"}
Message == {"none", "waiting", "progress", "complete", "failed"}

(* A thread: the run it works on, where it is in _run_slot, and the         *)
(* options it read from the row.                                            *)
ThreadStage == {"free", "spawned", "loaded", "running", "ending"}
ThreadState == [run : Runs \cup {NoRun}, at : ThreadStage,
                options : Options \cup {NoOptions}]
FreeThread  == [run |-> NoRun, at |-> "free", options |-> NoOptions]

(* The start request: read = the row was read as startable, queued = the    *)
(* row is committed as queued, deferring = inside _defer_locked.            *)
RequestStage == {"idle", "read", "queued", "deferring"}
RequestState == [run : Runs \cup {NoRun}, at : RequestStage,
                 options : Options \cup {NoOptions}]
NoRequest    == [run |-> NoRun, at |-> "idle", options |-> NoOptions]

Live        == {t \in Threads : thread[t].at # "free"}
InQueue(r)  == \E i \in 1..Len(pending) : pending[i] = r
Waiting(r)  == InQueue(r) \/ r \in restartPending

Spawned(r)  == [run |-> r, at |-> "spawned", options |-> NoOptions]

Init ==
  /\ status  = [r \in Runs |-> "pending"]
  /\ phase   = [r \in Runs |-> "none"]
  /\ message = [r \in Runs |-> "none"]
  /\ options = [r \in Runs |-> NoOptions]
  /\ result  = [r \in Runs |-> NoOptions]
  /\ active = {} /\ pending = <<>> /\ restartPending = {}
  /\ poolLocked = FALSE
  /\ thread  = [t \in Threads |-> FreeThread]
  /\ request = NoRequest
  /\ up = TRUE
  /\ faulty = {}

-----------------------------------------------------------------------------
(* What the steps do to the row, to the pool and to a slot. *)

(* run_update of the progress columns of row r. *)
Record(r, s, p, m) ==
  /\ status'  = [status EXCEPT ![r] = s]
  /\ phase'   = [phase EXCEPT ![r] = p]
  /\ message' = [message EXCEPT ![r] = m]

(* start_run takes a slot for the requested run and starts thread t. *)
TakeSlot(t) ==
  /\ request.at = "queued" /\ ~poolLocked
  /\ thread[t] = FreeThread
  /\ active' = active \cup {request.run}
  /\ thread' = [thread EXCEPT ![t] = Spawned(request.run)]
  /\ request' = NoRequest
  /\ UNCHANGED <<rowVars, pending, restartPending, poolLocked, up, faulty>>

(* The finally block of thread t hands its slot to r, leaving queue in the FIFO. *)
PassSlot(t, r, queue) ==
  /\ thread[t].at = "ending" /\ ~poolLocked
  /\ pending' = queue
  /\ active'  = (active \ {thread[t].run}) \cup {r}
  /\ thread'  = [thread EXCEPT ![t] = Spawned(r)]
  /\ UNCHANGED <<rowVars, poolLocked, request, up, faulty>>

(* It gives the slot up. *)
CloseSlot(t) ==
  /\ thread[t].at = "ending" /\ ~poolLocked
  /\ thread[t].run \notin restartPending
  /\ active' = active \ {thread[t].run}
  /\ thread' = [thread EXCEPT ![t] = FreeThread]
  /\ UNCHANGED <<rowVars, pending, restartPending, poolLocked, request, up, faulty>>

(* A thread that ends is followed by the head of the FIFO if there is one   *)
(* and, with its own run discarded, the pool has room.                      *)
RoomForNext(t) ==
  pending # <<>> /\ Cardinality(active \ {thread[t].run}) < MaxConcurrent

(* The UPDATE of recover_orphans, for the rows in lost. *)
Interrupt(lost) ==
  /\ ~up /\ up' = TRUE
  /\ status'  = [r \in Runs |-> IF r \in lost THEN "error" ELSE status[r]]
  /\ phase'   = [r \in Runs |-> IF r \in lost THEN "error" ELSE phase[r]]
  /\ message' = [r \in Runs |-> IF r \in lost THEN "failed" ELSE message[r]]
  /\ UNCHANGED <<options, result, poolVars, thread, request, faulty>>

(* The row was read; the request goes on to write it. *)
Proceed(r, o) ==
  /\ up /\ request = NoRequest
  /\ request' = [run |-> r, at |-> "read", options |-> o]
  /\ UNCHANGED <<rowVars, poolVars, thread, up, faulty>>

(* _defer_locked commits the waiting message; locked says whether under the lock. *)
Announce(locked) ==
  /\ request.at = "queued" /\ ~poolLocked
  /\ ~Waiting(request.run) /\ request.run \notin active
  /\ Cardinality(active) >= MaxConcurrent
  /\ message' = [message EXCEPT ![request.run] = "waiting"]
  /\ poolLocked' = locked
  /\ request' = [request EXCEPT !.at = "deferring"]
  /\ UNCHANGED <<status, phase, options, result, active, pending,
                 restartPending, thread, up, faulty>>

-----------------------------------------------------------------------------
(* Seeded bugs: variants of the steps below, each a slip that a change to   *)
(* the code could make.  No specification uses them; each is put in the     *)
(* place of the step it varies to see that a property notices.              *)

(* The start route does not look at the status, or starts a done run again. *)
StartReadUnchecked(r, o) == Proceed(r, o)
StartReadDone(r, o) == status[r] \in {"pending", "error", "done"} /\ Proceed(r, o)

(* start_run ignores every active run, one in teardown as well ...          *)
AdmitKnownNoRetry ==
  /\ request.at = "queued" /\ ~poolLocked
  /\ request.run \in active \cup {s \in Runs : Waiting(s)}
  /\ request' = NoRequest
  /\ UNCHANGED <<rowVars, poolVars, thread, up, faulty>>

(* ... or puts the retry of an active run in the shared FIFO.               *)
AdmitKnownShared ==
  /\ request.at = "queued" /\ ~poolLocked /\ request.run \in active
  /\ message' = [message EXCEPT ![request.run] = "waiting"]
  /\ pending' = Append(pending, request.run)
  /\ request' = NoRequest
  /\ UNCHANGED <<status, phase, options, result, active, restartPending,
                 poolLocked, thread, up, faulty>>

(* _defer_locked is called without the lock. *)
DeferPersistUnlocked == Announce(FALSE)

(* The run is queued first, the waiting message written after the release.  *)
DeferAppendMessageLast ==
  LET r == request.run
  IN /\ request.at = "deferring"
     /\ IF poolLocked
        THEN /\ pending' = Append(pending, r) /\ poolLocked' = FALSE
             /\ UNCHANGED <<message, request>>
        ELSE /\ message' = [message EXCEPT ![r] = "waiting"]
             /\ request' = NoRequest
             /\ UNCHANGED <<pending, poolLocked>>
     /\ UNCHANGED <<status, phase, options, result, active, restartPending,
                    thread, up, faulty>>

(* A slot is taken by a run that is active already, or one slot too many is. *)
AdmitNowUnchecked(t) == Cardinality(active) < MaxConcurrent /\ TakeSlot(t)
AdmitNowOffByOne(t)  ==
  ~Waiting(request.run) /\ request.run \notin active
  /\ Cardinality(active) <= MaxConcurrent /\ TakeSlot(t)

(* The error handler also covers what happens after the result is stored.   *)
FailLate(t) ==
  /\ thread[t].at \in {"loaded", "running", "ending"}
  /\ Record(thread[t].run, "error", "error", "failed")
  /\ thread' = [thread EXCEPT ![t].at = "ending"]
  /\ UNCHANGED <<options, result, poolVars, request, up, faulty>>

(* pop() in the place of popleft(). *)
HandToNewest(t) ==
  /\ thread[t].run \notin restartPending /\ RoomForNext(t)
  /\ PassSlot(t, pending[Len(pending)], SubSeq(pending, 1, Len(pending) - 1))
  /\ UNCHANGED restartPending

(* A slot may close although runs wait. *)
FreeSlotAnyway(t) == CloseSlot(t)

(* The restart forgets the runs that were executing. *)
RecoverQueuedOnly == Interrupt({r \in Runs : status[r] = "queued"})

-----------------------------------------------------------------------------
(* The start route. *)

(* The route reads the row; it goes on only for a pending or errored run.   *)
StartRead(r, o) == status[r] \in {"pending", "error"} /\ Proceed(r, o)

(* The new options and the status queued are committed in one UPDATE.       *)
StartCommit ==
  /\ request.at = "read"
  /\ status'  = [status EXCEPT ![request.run] = "queued"]
  /\ options' = [options EXCEPT ![request.run] = request.options]
  /\ request' = [request EXCEPT !.at = "queued"]
  /\ UNCHANGED <<phase, message, result, poolVars, thread, up, faulty>>

(* A database call of the request raises: the commit itself, the perimeter  *)
(* promotion before start_run, or the message update inside _defer_locked.  *)
(* The with block releases the pool lock.                                   *)
StartAbort ==
  /\ request.at # "idle"
  /\ faulty' = IF request.at = "read" THEN faulty ELSE faulty \cup {request.run}
  /\ request' = NoRequest
  /\ poolLocked' = FALSE
  /\ UNCHANGED <<rowVars, active, pending, restartPending, thread, up>>

(* start_run for a run that waits already or is active.  Only a retry that  *)
(* caught the errored worker before its teardown is recorded.               *)
AdmitKnown ==
  LET r     == request.run
      retry == r \in active /\ ~Waiting(r)
               /\ status[r] = "queued" /\ phase[r] = "error"
  IN /\ request.at = "queued" /\ ~poolLocked
     /\ r \in active \cup {s \in Runs : Waiting(s)}
     /\ message' = IF retry THEN [message EXCEPT ![r] = "waiting"] ELSE message
     /\ restartPending' = restartPending \cup (IF retry THEN {r} ELSE {})
     /\ request' = NoRequest
     /\ UNCHANGED <<status, phase, options, result, active, pending,
                    poolLocked, thread, up, faulty>>

(* start_run with no slot free enters _defer_locked: the waiting message    *)
(* is committed while the pool lock is held ...                             *)
DeferPersist == Announce(TRUE)

(* ... and only then is the run appended to the FIFO and the lock released. *)
DeferAppend ==
  /\ request.at = "deferring"
  /\ pending' = Append(pending, request.run)
  /\ poolLocked' = FALSE
  /\ request' = NoRequest
  /\ UNCHANGED <<rowVars, active, restartPending, thread, up, faulty>>

(* start_run with a slot free: take it and start a thread.                  *)
AdmitNow(t) ==
  /\ ~Waiting(request.run) /\ request.run \notin active
  /\ Cardinality(active) < MaxConcurrent
  /\ TakeSlot(t)

-----------------------------------------------------------------------------
(* A worker thread in _run. *)

(* run_get: the options are read once, before the status changes.           *)
Load(t) ==
  /\ thread[t].at = "spawned"
  /\ thread' = [thread EXCEPT ![t].at = "loaded",
                              ![t].options = options[thread[t].run]]
  /\ UNCHANGED <<rowVars, poolVars, request, up, faulty>>

(* run_get raises outside the try block: nothing is recorded.               *)
LoadFails(t) ==
  /\ thread[t].at = "spawned"
  /\ thread' = [thread EXCEPT ![t].at = "ending"]
  /\ faulty' = faulty \cup {thread[t].run}
  /\ UNCHANGED <<rowVars, poolVars, request, up>>

Begin(t) ==
  /\ thread[t].at = "loaded"
  /\ Record(thread[t].run, "running", "parse", "progress")
  /\ thread' = [thread EXCEPT ![t].at = "running"]
  /\ UNCHANGED <<options, result, poolVars, request, up, faulty>>

(* run_progress from the pipeline, the adjudicator or the summary: the      *)
(* status is not among the columns it writes.                               *)
Progress(t) ==
  LET r == thread[t].run
  IN /\ thread[t].at = "running"
     /\ phase'   = [phase EXCEPT ![r] = "match"]
     /\ message' = [message EXCEPT ![r] = "progress"]
     /\ UNCHANGED <<status, options, result, poolVars, thread, request, up,
                    faulty>>

Complete(t) ==
  /\ thread[t].at = "running"
  /\ Record(thread[t].run, "done", "done", "complete")
  /\ result' = [result EXCEPT ![thread[t].run] = thread[t].options]
  /\ thread' = [thread EXCEPT ![t].at = "ending"]
  /\ UNCHANGED <<options, poolVars, request, up, faulty>>

(* Any exception inside the try block: the error is recorded ...            *)
Fail(t) ==
  /\ thread[t].at \in {"loaded", "running"}
  /\ Record(thread[t].run, "error", "error", "failed")
  /\ thread' = [thread EXCEPT ![t].at = "ending"]
  /\ UNCHANGED <<options, result, poolVars, request, up, faulty>>

(* ... unless the UPDATE of the except block raises as well.                *)
FailUnrecorded(t) ==
  /\ thread[t].at \in {"loaded", "running"}
  /\ thread' = [thread EXCEPT ![t].at = "ending"]
  /\ faulty' = faulty \cup {thread[t].run}
  /\ UNCHANGED <<rowVars, poolVars, request, up>>

-----------------------------------------------------------------------------
(* The finally block of _run_slot, one critical section of the pool lock.   *)
(* The thread started at its end continues as the same slot t.              *)

HandToRetry(t) ==
  /\ thread[t].run \in restartPending
  /\ restartPending' = restartPending \ {thread[t].run}
  /\ PassSlot(t, thread[t].run, pending)

HandToNext(t) ==
  /\ thread[t].run \notin restartPending /\ RoomForNext(t)
  /\ PassSlot(t, Head(pending), Tail(pending))
  /\ UNCHANGED restartPending

FreeSlot(t) == ~RoomForNext(t) /\ CloseSlot(t)

-----------------------------------------------------------------------------
(* Process death, and recover_orphans in the lifespan of the next process,  *)
(* before it serves a request.                                              *)

Crash ==
  /\ up
  /\ up' = FALSE
  /\ active' = {} /\ pending' = <<>> /\ restartPending' = {}
  /\ poolLocked' = FALSE
  /\ thread' = [t \in Threads |-> FreeThread]
  /\ request' = NoRequest
  /\ faulty' = {}
  /\ UNCHANGED rowVars

Orphaned == {r \in Runs : status[r] \in {"running", "queued"}}

RecoverOrphans == Interrupt(Orphaned)

-----------------------------------------------------------------------------
StartStep == StartCommit \/ AdmitKnown \/ DeferPersist \/ DeferAppend
             \/ \E t \in Threads : AdmitNow(t)

Work(t)    == Load(t) \/ Begin(t) \/ Complete(t) \/ Fail(t)
Release(t) == HandToRetry(t) \/ HandToNext(t) \/ FreeSlot(t)
Fault(t)   == LoadFails(t) \/ FailUnrecorded(t)

Next ==
  \/ \E r \in Runs, o \in Options : StartRead(r, o)
  \/ StartStep
  \/ StartAbort
  \/ \E t \in Threads : Work(t) \/ Progress(t) \/ Fault(t) \/ Release(t)
  \/ Crash
  \/ RecoverOrphans

Spec == Init /\ [][Next]_vars

(* A request the event loop has begun goes on, a thread that can run runs   *)
(* (its parse and its network calls all have time limits) and a dead        *)
(* process is started again by the platform.  Nobody has to press start.    *)
Fairness ==
  /\ WF_vars(StartStep)
  /\ \A t \in Threads : WF_vars(Work(t)) /\ WF_vars(Release(t))
  /\ WF_vars(RecoverOrphans)

FairSpec == Spec /\ Fairness

-----------------------------------------------------------------------------
(* Every variable has its type. *)
TypeOK ==
  /\ status  \in [Runs -> Status]
  /\ phase   \in [Runs -> Phase]
  /\ message \in [Runs -> Message]
  /\ options \in [Runs -> Options \cup {NoOptions}]
  /\ result  \in [Runs -> Options \cup {NoOptions}]
  /\ active \in SUBSET Runs
  /\ pending \in Seq(Runs)
  /\ restartPending \in SUBSET Runs
  /\ poolLocked \in BOOLEAN
  /\ thread  \in [Threads -> ThreadState]
  /\ request \in RequestState
  /\ up \in BOOLEAN
  /\ faulty \in SUBSET Runs

(* The registry _active names exactly the runs that have a worker thread,   *)
(* and no run has two: a retry never runs beside the errored generation it  *)
(* replaces.                                                                *)
OneWorkerPerRun ==
  /\ active = {thread[t].run : t \in Live}
  /\ \A t1, t2 \in Live : thread[t1].run = thread[t2].run => t1 = t2

(* However starts, retries, failures and handovers interleave, there are    *)
(* never more than RUN_MAX_CONCURRENT workers.                              *)
ConcurrencyCap == Cardinality(Live) <= MaxConcurrent

(* A run waits in the FIFO only while every slot is taken: a slot that      *)
(* finishes between the decision to defer and the append cannot leave the   *)
(* run waiting beside an idle slot.                                         *)
WorkConserving ==
  (pending # <<>> \/ request.at = "deferring")
    => Cardinality(active) = MaxConcurrent

(* A run waits in one place, once: FIFO entries are distinct and inactive,  *)
(* and a retry attached to a slot belongs to a worker that is still in its  *)
(* teardown.                                                                *)
WaitsInOnePlace ==
  /\ \A i, j \in 1..Len(pending) : pending[i] = pending[j] => i = j
  /\ \A i \in 1..Len(pending) : pending[i] \notin active \cup restartPending
  /\ \A r \in restartPending :
       \E t \in Threads : thread[t].run = r /\ thread[t].at = "ending"

(* A row that says queued is in somebody's hands: the start request that    *)
(* queued it, the FIFO, a slot in teardown, or a worker about to begin it.  *)
(* A failed database call may strand the one run it was made for, never     *)
(* another.                                                                 *)
QueuedIsOwned ==
  \A r \in Runs :
    (up /\ status[r] = "queued" /\ r \notin faulty)
      => \/ request.run = r /\ request.at \in {"queued", "deferring"}
         \/ Waiting(r)
         \/ \E t \in Threads :
              thread[t].run = r /\ thread[t].at \in {"spawned", "loaded"}

(* A row that says running has a worker running it, so the progress page    *)
(* is never polling for nobody.                                             *)
RunningIsOwned ==
  \A r \in Runs :
    (up /\ status[r] = "running" /\ r \notin faulty)
      => \E t \in Threads : thread[t].run = r /\ thread[t].at = "running"

(* Both: neither the progress page nor the queue waits for nobody.          *)
RowsAreOwned == QueuedIsOwned /\ RunningIsOwned

(* A worker works on the options of the start that queued it, although it   *)
(* reads them once and a retry may replace them while an old worker lives;  *)
(* and a finished result was computed from the options the row shows.       *)
OptionsHonoured ==
  /\ \A t \in Threads :
       thread[t].at \in {"loaded", "running"}
         => thread[t].options = options[thread[t].run]
  /\ \A r \in Runs :
       status[r] = "done" => result[r] = options[r] /\ result[r] # NoOptions

(* The waiting message is never written over the progress of a worker that  *)
(* has begun.                                                               *)
RunningNotShownWaiting ==
  \A r \in Runs : status[r] = "running" => message[r] # "waiting"

-----------------------------------------------------------------------------
(* The inductive invariant.  The properties above are not inductive by      *)
(* themselves: why a retry never meets a live worker of its own run depends *)
(* on what the status column says of every stage a thread or a request is   *)
(* in.  Each part below is one such relation.                               *)

(* Threads and requests that are in use name a run and its options. *)
WellFormed ==
  /\ \A t \in Threads : IF thread[t].at = "free" THEN thread[t].run = NoRun
                                               ELSE thread[t].run \in Runs
  /\ request.at # "idle" => request.run \in Runs /\ request.options \in Options

(* The pool lock is held across steps exactly by a request that defers. *)
LockIsDeferral == poolLocked <=> request.at = "deferring"

(* What the row says of a run a thread works on. *)
ThreadMatchesRow ==
  \A t \in Threads :
    /\ thread[t].at \in {"spawned", "loaded"} => status[thread[t].run] = "queued"
    /\ thread[t].at = "running" => status[thread[t].run] = "running"
    /\ thread[t].at = "ending" => status[thread[t].run] # "pending"

(* What the row says of a run that waits. *)
WaitingIsQueued == \A r \in Runs : Waiting(r) => status[r] = "queued"

(* What the row says of a run being started, and who else may know it: only *)
(* a worker in teardown, whose run then shows the phase error.              *)
RequestMatchesRow ==
  /\ request.at = "read" => status[request.run] \in {"pending", "error"}
  /\ request.at \in {"queued", "deferring"} =>
       /\ status[request.run] = "queued"
       /\ ~Waiting(request.run)
       /\ \A t \in Threads : thread[t].run = request.run =>
            thread[t].at = "ending" /\ phase[request.run] = "error"
  /\ request.at = "deferring" => request.run \notin active

(* A row in error shows the phase error; a started row has options. *)
RowConsistent ==
  \A r \in Runs :
    /\ status[r] = "error" => phase[r] = "error"
    /\ status[r] # "pending" => options[r] \in Options

(* A process that is down holds nothing. *)
DownIsEmpty ==
  ~up => /\ active = {} /\ pending = <<>> /\ restartPending = {}
         /\ request = NoRequest

(* The registry is finite and never larger than the cap. *)
ActiveBounded == IsFiniteSet(active) /\ Cardinality(active) <= MaxConcurrent

(* What the proofs carry from step to step: the relations above together    *)
(* with the properties they make inductive.                                 *)
Inv ==
  /\ TypeOK /\ WellFormed /\ LockIsDeferral /\ DownIsEmpty
  /\ OneWorkerPerRun /\ ActiveBounded /\ WorkConserving /\ WaitsInOnePlace
  /\ ThreadMatchesRow /\ WaitingIsQueued /\ RequestMatchesRow /\ RowConsistent
  /\ QueuedIsOwned /\ RunningIsOwned /\ OptionsHonoured
  /\ RunningNotShownWaiting

-----------------------------------------------------------------------------
(* A worker starts only for the head of the FIFO while the FIFO is not      *)
(* empty; the one exception is a slot handed to the retry of its own run.   *)
FifoService ==
  [][\A r \in Runs, t \in Threads :
       (pending # <<>> /\ thread'[t].at = "spawned"
          /\ thread'[t].run = r /\ thread[t].at # "spawned")
         => \/ r = Head(pending)
            \/ r = thread[t].run /\ r \in restartPending]_vars

(* A done run stays done, with its result: no late write of another         *)
(* generation and no start touches it.                                      *)
DoneIsFinal ==
  [][\A r \in Runs : status[r] = "done"
       => status'[r] = "done" /\ result'[r] = result[r]
          /\ options'[r] = options[r]]_vars

-----------------------------------------------------------------------------
(* The pool implements the life cycle its callers rely on: threads, FIFO,   *)
(* lock and start request are invisible, a run executes while a thread has  *)
(* it marked running.                                                       *)
Executing == {r \in Runs : \E t \in Threads : thread[t].run = r
                                              /\ thread[t].at = "running"}

Lifecycle == INSTANCE RunLifecycle WITH
  Capacity <- MaxConcurrent, state <- status, submitted <- options,
  outcome <- result, executing <- Executing

ImplementsLifecycle == Lifecycle!LSpec

-----------------------------------------------------------------------------
(* A queued run is taken from the queue, unless a database call for it      *)
(* failed or a teardown retry keeps taking a slot ahead of the FIFO.        *)
QueuedIsServed ==
  \A r \in Runs :
    status[r] = "queued"
      ~> (status[r] # "queued" \/ r \in faulty \/ restartPending # {})

(* A running run comes to an end, in this process or, after a crash, as the *)
(* error recover_orphans records.                                           *)
RunningEnds ==
  \A r \in Runs :
    status[r] = "running" ~> (status[r] \in {"done", "error"} \/ r \in faulty)
=============================================================================
