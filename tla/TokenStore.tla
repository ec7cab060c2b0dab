----------------------------- MODULE TokenStore -----------------------------
(***************************************************************************)
(* The store of pending header-mapping audits: the class TokenStore of     *)
(* app/core/token_store.py as PENDING_MAPS (app/remap/service.py), and the *)
(* requests of app/remap/routes.py that consume its tokens.                *)
(*                                                                         *)
(* An entry owns a payload: the staging directory of an upload (flow run)  *)
(* or the workbook in memory (flow eff).  It waits for a human, for        *)
(* ttl_seconds at most; apply looks at it while the form is validated,     *)
(* claims it, continues the upload -- which takes long and may fail -- and *)
(* pops or releases it.  Every operation holds the store's lock, so it is  *)
(* one step; a request is suspended between its operations.                *)
(***************************************************************************)
EXTENDS Naturals, FiniteSets

CONSTANTS
  Tokens,      (* tokens uploads may be given (each a fresh uuid)          *)
  Consumers,   (* apply requests in progress together                      *)
  MaxEntries,  (* max_entries                                              *)
  NoToken      (* an apply request slot that is free                       *)

ASSUME TokenStoreAssumption ==
  /\ MaxEntries \in Nat \ {0}
  /\ NoToken \notin Tokens \cup Consumers

VARIABLES
  entries,  (* _entries: the created of each token in the store            *)
  expired,  (* those of them that are past the TTL                         *)
  claimed,  (* _claimed                                                    *)
  payload,  (* what became of each entry's payload                         *)
  apply     (* the apply requests                                          *)

vars == <<entries, expired, claimed, payload, apply>>

Payload == {"new", "staged", "used", "dropped"}
Stages  == {"form", "claimed"}
Free    == [at |-> "idle", token |-> NoToken]

Init ==
  /\ entries = [t \in {} |-> 0] /\ expired = {}
  /\ claimed = {}
  /\ payload = [t \in Tokens |-> "new"]
  /\ apply = [c \in Consumers |-> Free]

-----------------------------------------------------------------------------
(* Helpers. *)

Entries      == DOMAIN entries
Unclaimed    == Entries \ claimed

(* Seeded bug: a claim does not stop the clock. *)
LapsedAnyway == expired
(* Past its deadline and nobody's. *)
Lapsed       == expired \ claimed

(* The oldest of some entries: the least created. *)
Oldest(S) == CHOOSE t \in S : \A u \in S : entries[t] <= entries[u]

(* time.time() of a put: nothing but the order of the puts is asked of it,  *)
(* and every token is put once.                                             *)
Stored == {t \in Tokens : payload[t] # "new"}
Now    == Cardinality(Stored)

Live(t)         == t \in Entries \ Lapsed
At(c, s)        == apply[c].at = s
Enter(c, t, s)  == apply' = [apply EXCEPT ![c] = [at |-> s, token |-> t]]
Leave(c)        == apply' = [apply EXCEPT ![c] = Free]

(* _delete_locked of the tokens in D, whose payloads end as result. *)
Delete(D, result) ==
  /\ entries' = [t \in Entries \ D |-> entries[t]]
  /\ expired' = expired \ D
  /\ claimed' = claimed \ D
  /\ payload' = [t \in Tokens |-> IF t \in D THEN result ELSE payload[t]]

(* Every access drops the entry it asks for when that has lapsed. *)
Touch(t) ==
  IF t \in Lapsed THEN Delete({t}, "dropped")
                  ELSE UNCHANGED <<entries, expired, claimed, payload>>

-----------------------------------------------------------------------------
(* An upload waits for its audit: put.  Lapsed entries go first, then the   *)
(* oldest unclaimed one if there is no room; with everything claimed put    *)
(* raises and the upload removes its staging.                               *)

(* Seeded bug: the store takes one entry too many. *)
PutOverCap(t) ==
  /\ payload[t] = "new"
  /\ entries' = [x \in Entries \cup {t} |-> IF x = t THEN Now ELSE entries[x]]
  /\ payload' = [payload EXCEPT ![t] = "staged"]
  /\ UNCHANGED <<expired, claimed, apply>>

Victims == LET room == Entries \ Lapsed IN
  IF Cardinality(room) < MaxEntries \/ room \subseteq claimed THEN Lapsed
  ELSE Lapsed \cup {Oldest(room \ claimed)}

Put(t) ==
  LET kept   == Entries \ Victims
      stored == IF Cardinality(kept) < MaxEntries THEN {t} ELSE {}
  IN
  /\ payload[t] = "new"
  /\ entries' = [x \in kept \cup stored |-> IF x = t THEN Now ELSE entries[x]]
  /\ expired' = expired \ Victims
  /\ payload' = [x \in Tokens |->
       IF x \in Victims THEN "dropped"
       ELSE IF x # t THEN payload[x]
       ELSE IF x \in stored THEN "staged" ELSE "dropped"]
  /\ UNCHANGED <<claimed, apply>>

(* The TTL of the next oldest entry passes. *)
Expire ==
  /\ Entries \ expired # {}
  /\ expired' = expired \cup {Oldest(Entries \ expired)}
  /\ UNCHANGED <<entries, claimed, payload, apply>>

(* discard_expired, from the maintenance loop. *)
DiscardExpired ==
  /\ Lapsed # {}
  /\ Delete(Lapsed, "dropped")
  /\ UNCHANGED apply

(* GET /remap/{token} *)
Show(t) == t \in Lapsed /\ Touch(t) /\ UNCHANGED apply

-----------------------------------------------------------------------------
(* POST /remap/{token}/apply *)

(* get, then the form is read and validated. *)
Open(c, t) ==
  /\ apply[c] = Free
  /\ Touch(t)
  /\ IF Live(t) THEN Enter(c, t, "form") ELSE UNCHANGED apply

(* A selection is missing or doubled (422), or the client is gone: nothing  *)
(* has been claimed.                                                        *)
FormInvalid(c) ==
  /\ At(c, "form")
  /\ Leave(c)
  /\ UNCHANGED <<entries, expired, claimed, payload>>

(* claim: missing (404), busy (409), or claimed. *)
ClaimMissing(c) ==
  /\ At(c, "form") /\ ~Live(apply[c].token)
  /\ Touch(apply[c].token)
  /\ Leave(c)

(* Seeded bug: a token another request has claimed is claimed again. *)
ClaimShared(c) ==
  LET t == apply[c].token IN
  /\ At(c, "form") /\ Live(t)
  /\ claimed' = claimed \cup {t}
  /\ Enter(c, t, "claimed")
  /\ UNCHANGED <<entries, expired, payload>>

ClaimBusy(c) ==
  /\ At(c, "form") /\ apply[c].token \in claimed
  /\ Leave(c)
  /\ UNCHANGED <<entries, expired, claimed, payload>>

Claim(c) ==
  LET t == apply[c].token IN
  /\ At(c, "form") /\ Live(t) /\ t \notin claimed
  /\ claimed' = claimed \cup {t}
  /\ Enter(c, t, "claimed")
  /\ UNCHANGED <<entries, expired, payload>>

(* The continuation answers: the run is created, or its staging was removed *)
(* with an error page.  Or it raises after removing the staging: the token  *)
(* cannot be retried either.                                                *)
Consume(c, result) ==
  /\ At(c, "claimed")
  /\ result \in {"used", "dropped"}
  /\ Delete({apply[c].token}, result)
  /\ Leave(c)

(* Seeded bug: a request that fails does not give its claim back. *)
ReleaseHolding(c) ==
  /\ At(c, "claimed")
  /\ Leave(c)
  /\ UNCHANGED <<entries, expired, claimed, payload>>

(* It raises with the staging intact: release, which discards the entry if  *)
(* it lapsed while it was claimed.                                          *)
Release(c) ==
  LET t == apply[c].token IN
  /\ At(c, "claimed")
  /\ IF t \in expired
       THEN Delete({t}, "dropped")
       ELSE /\ claimed' = claimed \ {t}
            /\ UNCHANGED <<entries, expired, payload>>
  /\ Leave(c)

(* POST /remap/{token}/reject: claim, pop and cleanup without a suspension; *)
(* a token that is busy or lapsed is not rejected.                          *)
Reject(t) ==
  /\ t \in Unclaimed
  /\ Delete({t}, "dropped")
  /\ UNCHANGED apply

-----------------------------------------------------------------------------
Finish(c) == Release(c) \/ \E result \in {"used", "dropped"} : Consume(c, result)

Next ==
  \/ \E t \in Tokens : Put(t) \/ Show(t) \/ Reject(t)
  \/ Expire
  \/ DiscardExpired
  \/ \E c \in Consumers, t \in Tokens : Open(c, t)
  \/ \E c \in Consumers :
       FormInvalid(c) \/ ClaimMissing(c) \/ ClaimBusy(c) \/ Claim(c) \/ Finish(c)

Spec == Init /\ [][Next]_vars

(* Time passes, the maintenance loop comes round, and a continuation ends.  *)
FairSpec == Spec /\ WF_vars(Expire) /\ WF_vars(DiscardExpired)
                 /\ \A c \in Consumers : WF_vars(Finish(c))

-----------------------------------------------------------------------------
TypeOK ==
  /\ entries \in [Entries -> Nat] /\ Entries \subseteq Tokens
  /\ IsFiniteSet(Entries) /\ Cardinality(Entries) <= MaxEntries
  /\ expired \subseteq Entries
  /\ claimed \subseteq Tokens
  /\ payload \in [Tokens -> Payload] /\ IsFiniteSet(Stored)
  /\ apply \in [Consumers -> {Free} \cup [at : Stages, token : Tokens]]

Applying(t) == {c \in Consumers : apply[c] = [at |-> "claimed", token |-> t]}

(* A staged payload is in the store until it is used or dropped, so it can  *)
(* neither be lost track of nor outlive its entry; and a claim is exactly   *)
(* the request that continues the upload, whatever expiry, eviction, a full *)
(* store and other requests do meanwhile.                                   *)
PayloadsAreOwned ==
  /\ \A t \in Tokens : payload[t] = "staged" <=> t \in Entries
  /\ \A t \in Tokens : IF t \in claimed
                         THEN t \in Entries /\ \E c \in Consumers : Applying(t) = {c}
                         ELSE Applying(t) = {}

(* Types and ownership together. *)
StoreIsSound == TypeOK /\ PayloadsAreOwned

(* The store implements the ticket: used at most once, by its holder; never *)
(* dropped under the holder.                                                *)
Ticket == INSTANCE AuditTicket WITH
  Capacity <- MaxEntries, Nobody <- NoToken,
  ticket <- [t \in Tokens |-> IF payload[t] = "staged" THEN "open" ELSE payload[t]],
  holder <- [t \in Tokens |-> IF Applying(t) = {} THEN NoToken
                              ELSE CHOOSE c \in Applying(t) : TRUE]

ImplementsTicket == Ticket!TSpec

(* An audit nobody finishes does not keep its staging directory for ever.   *)
StagingIsReclaimed ==
  \A t \in Tokens : payload[t] = "staged" ~> payload[t] # "staged"
=============================================================================
