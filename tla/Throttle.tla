------------------------------ MODULE Throttle ------------------------------
(***************************************************************************)
(* app/auth/throttle.py: failed attempts inside a sliding window, counted  *)
(* in one bucket per username and per address.  Every function runs under  *)
(* _LOCK, so it is one operator here.                                      *)
(*                                                                         *)
(* A bucket is the number of its entries inside the window.  Which entry   *)
(* release takes does not matter to the number; the entries themselves     *)
(* leave the window one by one (Ages).  The bound of 10 000 buckets, past  *)
(* which the oldest is dropped, is left out.                               *)
(***************************************************************************)
EXTENDS Naturals

CONSTANTS
  Users,   (* normalised usernames                                         *)
  Ips,     (* client addresses                                             *)
  LIMITS   (* scope -> most failures inside the window                     *)

Scopes  == {"user", "ip", "setup"}
Buckets == ({"user"} \X Users) \cup ({"ip", "setup"} \X Ips)

ASSUME ThrottleAssumption == LIMITS \in [Scopes -> Nat \ {0}]

VARIABLE failures  (* _failures: entries of each bucket                    *)

NoFailures == [b \in Buckets |-> 0]

(* retry_after # 0 *)
Full(b) == failures[b] >= LIMITS[b[1]]

(* register_failure: only the last `limit' entries are kept. *)
Registered(f, b) ==
  [f EXCEPT ![b] = IF @ < LIMITS[b[1]] THEN @ + 1 ELSE LIMITS[b[1]]]

(* reserve, for buckets none of which is full. *)
Reserved(f, B) == [b \in Buckets |-> IF b \in B THEN f[b] + 1 ELSE f[b]]

(* Seeded bug: the address is forgiven everything. *)
ReleasedAll(f, b) == [f EXCEPT ![b] = 0]

(* release *)
Released(f, b) == [f EXCEPT ![b] = IF @ > 0 THEN @ - 1 ELSE 0]

Cleared(f, b) == [f EXCEPT ![b] = 0]

(* An entry leaves the window. *)
Ages(b) == /\ failures[b] > 0
           /\ failures' = [failures EXCEPT ![b] = @ - 1]
=============================================================================
