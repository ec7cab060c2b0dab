---------------------------- MODULE AuditTicket ----------------------------
(***************************************************************************)
(* What PENDING_MAPS promises: an audit token is a ticket that is used at  *)
(* most once, by the one request that holds it.  A ticket nobody holds may *)
(* be dropped (it expired, or the store needed the room); one that is held *)
(* changes only by its holder, who uses it up, drops it, or puts it back.  *)
(* TokenStore implements it (see Ticket there).                            *)
(***************************************************************************)
EXTENDS Naturals, FiniteSets

CONSTANTS Tokens, Consumers, Capacity, Nobody

VARIABLES
  ticket,  (* state of each ticket                                         *)
  holder   (* the request that holds it, or Nobody                         *)

ticketVars == <<ticket, holder>>

Outstanding == {t \in Tokens : ticket[t] = "open"}

TInit ==
  /\ ticket = [t \in Tokens |-> "new"]
  /\ holder = [t \in Tokens |-> Nobody]

Set(t, s, c) == /\ ticket' = [ticket EXCEPT ![t] = s]
                /\ holder' = [holder EXCEPT ![t] = c]

(* Tickets in D are dropped unheld.  The dropping and the issue that needed *)
(* the room are one step.                                                   *)
DropUnheld(D) ==
  /\ \A t \in D : ticket[t] = "open" /\ holder[t] = Nobody
  /\ ticket' = [t \in Tokens |-> IF t \in D THEN "dropped" ELSE ticket[t]]
  /\ UNCHANGED holder

Issue(t, D) ==
  /\ ticket[t] = "new"
  /\ \A d \in D : ticket[d] = "open" /\ holder[d] = Nobody
  /\ Cardinality(Outstanding \ D) < Capacity
  /\ ticket' = [x \in Tokens |-> IF x = t THEN "open"
                                 ELSE IF x \in D THEN "dropped" ELSE ticket[x]]
  /\ UNCHANGED holder

Refuse(t, D) ==
  /\ ticket[t] = "new"
  /\ \A d \in D : ticket[d] = "open" /\ holder[d] = Nobody
  /\ \A o \in Outstanding \ D : holder[o] # Nobody
  /\ ticket' = [x \in Tokens |-> IF x = t \/ x \in D THEN "dropped" ELSE ticket[x]]
  /\ UNCHANGED holder

Hold(c, t) == ticket[t] = "open" /\ holder[t] = Nobody /\ Set(t, "open", c)

(* A rejection holds, drops and lets go in one step: DropUnheld. *)
Return(c, t)   == holder[t] = c /\ Set(t, "open", Nobody)
Use(c, t)      == holder[t] = c /\ Set(t, "used", Nobody)
DropHeld(c, t) == holder[t] = c /\ Set(t, "dropped", Nobody)

TNext ==
  \/ \E D \in SUBSET Tokens :
       \/ DropUnheld(D)
       \/ \E t \in Tokens \ D : Issue(t, D) \/ Refuse(t, D)
  \/ \E c \in Consumers, t \in Tokens :
       Hold(c, t) \/ Return(c, t) \/ Use(c, t) \/ DropHeld(c, t)

TSpec == TInit /\ [][TNext]_ticketVars
=============================================================================
