---------------------------- MODULE RunLifecycle ----------------------------
(***************************************************************************)
(* What the run pool promises its callers, with no queue, no lock and no   *)
(* thread in it: a run that was started and not finished is executed at    *)
(* most once at a time and with the options of its last start, at most     *)
(* Capacity runs execute together, a run ends done or error, done is       *)
(* final, and a restart turns everything unfinished into an error that can *)
(* be started again.  RunPool implements it (see Lifecycle there).         *)
(***************************************************************************)
EXTENDS Naturals, FiniteSets

CONSTANTS Runs, Options, Capacity, NoOptions

VARIABLES
  state,      (* status column of each run                                 *)
  submitted,  (* options of the last accepted start                        *)
  outcome,    (* options the stored result was computed with               *)
  executing   (* the runs being executed                                   *)

lifecycleVars == <<state, submitted, outcome, executing>>

LInit ==
  /\ state     = [r \in Runs |-> "pending"]
  /\ submitted = [r \in Runs |-> NoOptions]
  /\ outcome   = [r \in Runs |-> NoOptions]
  /\ executing = {}

(* A user starts a run for the first time, or again after an error. *)
Submit(r, o) ==
  /\ state[r] \in {"pending", "error"}
  /\ r \notin executing
  /\ state'     = [state EXCEPT ![r] = "queued"]
  /\ submitted' = [submitted EXCEPT ![r] = o]
  /\ UNCHANGED <<outcome, executing>>

Execute(r) ==
  /\ state[r] = "queued"
  /\ r \notin executing
  /\ Cardinality(executing) < Capacity
  /\ state' = [state EXCEPT ![r] = "running"]
  /\ executing' = executing \cup {r}
  /\ UNCHANGED <<submitted, outcome>>

Succeed(r) ==
  /\ r \in executing
  /\ state'   = [state EXCEPT ![r] = "done"]
  /\ outcome' = [outcome EXCEPT ![r] = submitted[r]]
  /\ executing' = executing \ {r}
  /\ UNCHANGED submitted

(* A run fails while it executes, or before it was marked running. *)
FailRun(r) ==
  /\ state[r] \in {"queued", "running"}
  /\ state' = [state EXCEPT ![r] = "error"]
  /\ executing' = executing \ {r}
  /\ UNCHANGED <<submitted, outcome>>

(* The end of a run could not be recorded: its row keeps saying running.    *)
Vanish(r) ==
  /\ r \in executing
  /\ executing' = executing \ {r}
  /\ UNCHANGED <<state, submitted, outcome>>

(* The process dies ... *)
Die ==
  /\ executing' = {}
  /\ UNCHANGED <<state, submitted, outcome>>

(* ... and the next one marks what it left unfinished. *)
Interrupt ==
  /\ executing = {}
  /\ state' = [r \in Runs |-> IF state[r] \in {"queued", "running"}
                              THEN "error" ELSE state[r]]
  /\ UNCHANGED <<submitted, outcome, executing>>

LNext ==
  \/ \E r \in Runs, o \in Options : Submit(r, o)
  \/ \E r \in Runs : Execute(r) \/ Succeed(r) \/ FailRun(r) \/ Vanish(r)
  \/ Die
  \/ Interrupt

LSpec == LInit /\ [][LNext]_lifecycleVars
=============================================================================
