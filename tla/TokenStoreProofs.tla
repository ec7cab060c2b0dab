-------------------------- MODULE TokenStoreProofs --------------------------
(***************************************************************************)
(* Proofs about TokenStore, for any tokens and apply requests and any room *)
(* in the store: what is staged is in the store, a claim is one request    *)
(* that continues an upload, and the store implements AuditTicket.         *)
(***************************************************************************)
EXTENDS TokenStore, FiniteSetTheorems, TLAPS

USE TokenStoreAssumption

-----------------------------------------------------------------------------
(* The oldest entry exists. *)

(* A nonempty set of natural numbers has a least element.  Of the intervals *)
(* that end in it, a smallest one ends there.                               *)
LEMMA LeastExists ==
  ASSUME NEW T, T \subseteq Nat, T # {}
  PROVE  \E x \in T : \A y \in T : x <= y
<1> DEFINE Upto == {0..k : k \in T}
<1>1. Upto \subseteq FiniteSubsetsOf(Nat) /\ Upto # {}
  <2>1. \A k \in T : 0..k \in SUBSET Nat /\ IsFiniteSet(0..k)
    BY FS_Interval
  <2> QED
    BY <2>1 DEF FiniteSubsetsOf
<1>2. PICK U \in Upto : \A V \in Upto : <<V, U>> \notin StrictSubsetOrdering(Nat)
  <2> HIDE DEF Upto
  <2> QED
    BY <1>1, FS_StrictSubsetOrderingWellFounded, WFMin
<1>3. PICK x \in T : U = 0..x
  OBVIOUS
<1>4. ASSUME NEW y \in T, y < x PROVE FALSE
  <2>1. 0..y \in Upto /\ x \in Nat /\ y \in Nat
    OBVIOUS
  <2>2. 0..y \subseteq 0..x /\ x \in 0..x /\ x \notin 0..y
    BY <1>4, <2>1
  <2>3. <<0..y, U>> \in StrictSubsetOrdering(Nat)
    BY <1>3, <2>1, <2>2 DEF StrictSubsetOrdering
  <2> QED
    BY <1>2, <2>1, <2>3
<1> QED
  BY <1>4

LEMMA OldestExists ==
  ASSUME TypeOK, NEW S, S \subseteq Entries, S # {}
  PROVE  Oldest(S) \in S
<1>1. {entries[t] : t \in S} \subseteq Nat /\ {entries[t] : t \in S} # {}
  BY DEF TypeOK
<1>2. PICK x \in {entries[t] : t \in S} : \A y \in {entries[t] : t \in S} : x <= y
  BY <1>1, LeastExists
<1>3. \E t \in S : \A u \in S : entries[t] <= entries[u]
  BY <1>2
<1> QED
  BY <1>3 DEF Oldest

(* What a full store gives up is nobody's, and leaves room unless every     *)
(* entry is somebody's.                                                     *)
LEMMA VictimsFit ==
  ASSUME TypeOK
  PROVE  /\ Victims \subseteq Entries \ claimed
         /\ IsFiniteSet(Entries \ Victims)
         /\ Cardinality(Entries \ Victims) \in Nat
         /\ \/ Cardinality(Entries \ Victims) < MaxEntries
            \/ Entries \ Victims \subseteq claimed
<1> DEFINE room == Entries \ Lapsed
<1>1. IsFiniteSet(Entries) /\ Cardinality(Entries) <= MaxEntries /\ Lapsed \subseteq Entries
  BY DEF TypeOK, Lapsed
<1>2. IsFiniteSet(room) /\ Cardinality(room) \in Nat /\ Cardinality(room) <= MaxEntries
  BY <1>1, FS_Subset, FS_CardinalityType
<1>3. CASE Cardinality(room) < MaxEntries \/ room \subseteq claimed
  <2>1. Victims = Lapsed
    BY <1>3 DEF Victims
  <2> QED
    BY <1>1, <1>2, <1>3, <2>1 DEF Lapsed
<1>4. CASE ~(Cardinality(room) < MaxEntries \/ room \subseteq claimed)
  <2> DEFINE o == Oldest(room \ claimed)
  <2>1. o \in room \ claimed
    BY <1>4, OldestExists
  <2>2. Victims = Lapsed \cup {o}
    BY <1>4 DEF Victims
  <2>3. Entries \ Victims = room \ {o}
    BY <2>2
  <2>4. IsFiniteSet(room \ {o}) /\ Cardinality(room \ {o}) = Cardinality(room) - 1
    BY <1>2, <2>1, FS_RemoveElement
  <2>5. Victims \subseteq Entries \ claimed
    BY <1>1, <2>1, <2>2 DEF Lapsed
  <2>6. Cardinality(room \ {o}) \in Nat /\ Cardinality(room \ {o}) < MaxEntries
    BY <1>2, <2>4, FS_CardinalityType
  <2> HIDE DEF room, o
  <2> QED
    BY <2>3, <2>4, <2>5, <2>6
<1> QED
  BY <1>3, <1>4

-----------------------------------------------------------------------------
(* The requests that hold a token. *)

LEMMA NobodyApplies ==
  ASSUME StoreIsSound, NEW t \in Tokens, t \notin claimed
  PROVE  Applying(t) = {}
BY DEF StoreIsSound, PayloadsAreOwned

LEMMA OneApplies ==
  ASSUME StoreIsSound, NEW c \in Consumers, At(c, "claimed")
  PROVE  /\ apply[c].token \in Tokens /\ apply[c].token \in claimed
         /\ Applying(apply[c].token) = {c}
<1> DEFINE t == apply[c].token
<1>1. t \in Tokens /\ apply[c] = [at |-> "claimed", token |-> t]
  BY DEF StoreIsSound, TypeOK, At, Free, Stages
<1>2. c \in Applying(t)
  BY <1>1 DEF Applying
<1>3. t \in claimed /\ \E d \in Consumers : Applying(t) = {d}
  BY <1>1, <1>2 DEF StoreIsSound, PayloadsAreOwned
<1> QED
  BY <1>1, <1>2, <1>3

(* Only the request that moves changes what is applied.                     *)
LEMMA ApplyingMoves ==
  ASSUME TypeOK, NEW t \in Tokens, NEW c \in Consumers, NEW v,
         apply' = [apply EXCEPT ![c] = v]
  PROVE  Applying(t)' = IF v = [at |-> "claimed", token |-> t]
                          THEN Applying(t) \cup {c} ELSE Applying(t) \ {c}
BY DEF Applying, TypeOK

(* The claims are exactly the requests, token by token.                     *)
ClaimsAreRequests ==
  \A t \in Tokens : IF t \in claimed
                       THEN t \in Entries /\ \E c \in Consumers : Applying(t) = {c}
                       ELSE Applying(t) = {}

StoreTypes ==
  /\ entries \in [Entries -> Nat] /\ Entries \subseteq Tokens
  /\ IsFiniteSet(Entries) /\ Cardinality(Entries) <= MaxEntries
  /\ expired \subseteq Entries /\ claimed \subseteq Tokens
  /\ payload \in [Tokens -> Payload] /\ IsFiniteSet(Stored)
  /\ \A t \in Tokens : payload[t] = "staged" <=> t \in Entries

LEMMA Parts ==
  StoreIsSound <=> /\ StoreTypes /\ ClaimsAreRequests
                   /\ apply \in [Consumers -> {Free} \cup [at : Stages, token : Tokens]]
BY DEF StoreIsSound, TypeOK, PayloadsAreOwned, StoreTypes, ClaimsAreRequests

LEMMA PartsNext ==
  StoreIsSound' <=> /\ StoreTypes' /\ ClaimsAreRequests'
                    /\ apply' \in [Consumers -> {Free} \cup [at : Stages, token : Tokens]]
BY DEF StoreIsSound, TypeOK, PayloadsAreOwned, StoreTypes, ClaimsAreRequests

-----------------------------------------------------------------------------
(* What is in the store. *)

LEMMA DeleteKeepsTypes ==
  ASSUME StoreTypes, NEW D, D \subseteq Entries,
         NEW result \in {"used", "dropped"}, Delete(D, result)
  PROVE  StoreTypes' /\ Entries' = Entries \ D /\ claimed' = claimed \ D
<1>1. Entries' = Entries \ D /\ entries' \in [Entries' -> Nat] /\ expired' \subseteq Entries'
  BY DEF Delete, StoreTypes, Entries
<1>2. IsFiniteSet(Entries') /\ Cardinality(Entries') <= MaxEntries
  <2>1. IsFiniteSet(Entries') /\ Cardinality(Entries') <= Cardinality(Entries)
        /\ Cardinality(Entries') \in Nat /\ Cardinality(Entries) \in Nat
    BY <1>1, FS_Subset, FS_CardinalityType DEF StoreTypes
  <2> QED
    BY <2>1 DEF StoreTypes
<1>3. payload' \in [Tokens -> Payload] /\ claimed' \subseteq Tokens
      /\ \A t \in Tokens : payload'[t] = IF t \in D THEN result ELSE payload[t]
  BY DEF Delete, StoreTypes, Payload
<1>4. Stored' = Stored
  BY <1>3 DEF Stored, StoreTypes
<1>5. \A t \in Tokens : payload'[t] = "staged" <=> t \in Entries'
  BY <1>1, <1>3 DEF StoreTypes
<1> QED
  BY <1>1, <1>2, <1>3, <1>4, <1>5 DEF StoreTypes, Delete

LEMMA TouchKeepsTypes ==
  ASSUME StoreTypes, NEW t, Touch(t)
  PROVE  /\ StoreTypes' /\ claimed' = claimed
         /\ \A x \in claimed : x \in Entries => x \in Entries'
<1>1. CASE t \in Lapsed
  <2>1. {t} \subseteq Entries /\ t \notin claimed /\ Delete({t}, "dropped")
    BY <1>1 DEF Touch, Lapsed, StoreTypes
  <2>2. StoreTypes' /\ Entries' = Entries \ {t} /\ claimed' = claimed \ {t}
    BY <2>1, DeleteKeepsTypes
  <2> QED
    BY <2>1, <2>2
<1>2. CASE t \notin Lapsed
  BY <1>2 DEF Touch, StoreTypes, Entries, Stored
<1> QED
  BY <1>1, <1>2

LEMMA PutKeepsTypes ==
  ASSUME StoreTypes, TypeOK, NEW t \in Tokens, Put(t)
  PROVE  /\ StoreTypes' /\ claimed' = claimed
         /\ \A x \in claimed : x \in Entries => x \in Entries'
<1> DEFINE kept   == Entries \ Victims
           stored == IF Cardinality(kept) < MaxEntries THEN {t} ELSE {}
<1>1. /\ Victims \subseteq Entries \ claimed
      /\ IsFiniteSet(kept) /\ Cardinality(kept) \in Nat
  BY VictimsFit
<1>2. Now \in Nat
  BY FS_CardinalityType DEF Now, StoreTypes
<1>3. t \notin Entries
  BY DEF Put, StoreTypes
<1>4. Entries' = kept \cup stored /\ entries' \in [Entries' -> Nat]
  <2>1. entries' = [x \in kept \cup stored |-> IF x = t THEN Now ELSE entries[x]]
    BY DEF Put
  <2>2. Entries' = kept \cup stored
    BY <2>1 DEF Entries
  <2> QED
    BY <1>2, <2>1, <2>2 DEF StoreTypes
<1>5. IsFiniteSet(Entries') /\ Cardinality(Entries') <= MaxEntries
  <2>1. CASE Cardinality(kept) < MaxEntries
    <3>1. Entries' = kept \cup {t} /\ t \notin kept
      BY <1>3, <1>4, <2>1
    <3>2. IsFiniteSet(Entries') /\ Cardinality(Entries') = Cardinality(kept) + 1
      BY <1>1, <3>1, FS_AddElement
    <3> QED
      BY <1>1, <2>1, <3>2
  <2>2. CASE ~(Cardinality(kept) < MaxEntries)
    <3>1. Entries' = kept /\ kept \in SUBSET Entries
      BY <1>4, <2>2
    <3>2. Cardinality(kept) <= Cardinality(Entries) /\ Cardinality(Entries) \in Nat
      BY FS_Subset, FS_CardinalityType DEF StoreTypes
    <3> QED
      BY <1>1, <3>1, <3>2 DEF StoreTypes
  <2> QED
    BY <2>1, <2>2
<1>6. /\ payload' \in [Tokens -> Payload]
      /\ \A x \in Tokens : payload'[x] = IF x \in Victims THEN "dropped"
                                         ELSE IF x # t THEN payload[x]
                                         ELSE IF x \in stored THEN "staged" ELSE "dropped"
  BY DEF Put, StoreTypes, Payload
<1>7. IsFiniteSet(Stored')
  <2>1. Stored' \subseteq Stored \cup {t}
    BY <1>1, <1>6 DEF Stored, StoreTypes
  <2> QED
    BY <2>1, FS_AddElement, FS_Subset DEF StoreTypes
<1>8. \A x \in Tokens : payload'[x] = "staged" <=> x \in Entries'
  BY <1>1, <1>3, <1>4, <1>6 DEF StoreTypes
<1>9. expired' \subseteq Entries' /\ claimed' = claimed /\ Entries' \subseteq Tokens
  BY <1>4 DEF Put, StoreTypes
<1> QED
  BY <1>1, <1>4, <1>5, <1>6, <1>7, <1>8, <1>9 DEF StoreTypes

-----------------------------------------------------------------------------
(* StoreIsSound is inductive. *)

(* A step that changes no request and takes entries from nobody.            *)
LEMMA OthersKeepSound ==
  ASSUME StoreIsSound, StoreTypes', UNCHANGED apply,
         claimed' = claimed, \A x \in claimed : x \in Entries'
  PROVE  StoreIsSound'
<1>1. \A t \in Tokens : Applying(t)' = Applying(t)
  BY DEF Applying
<1>2. ClaimsAreRequests'
  BY <1>1, Parts DEF ClaimsAreRequests
<1> QED
  BY <1>2, Parts, PartsNext

(* A request moves that holds nothing before and nothing after, and takes   *)
(* entries from nobody.                                                     *)
LEMMA LookingKeepsSound ==
  ASSUME StoreIsSound, StoreTypes', NEW c \in Consumers,
         NEW v \in {Free} \cup [at : {"form"}, token : Tokens],
         apply' = [apply EXCEPT ![c] = v], apply[c].at # "claimed",
         claimed' = claimed, \A x \in claimed : x \in Entries'
  PROVE  StoreIsSound'
<1>1. ASSUME NEW t \in Tokens PROVE Applying(t)' = Applying(t)
  <2>1. v # [at |-> "claimed", token |-> t] /\ apply[c] # [at |-> "claimed", token |-> t]
    BY DEF Free
  <2> QED
    BY <2>1, ApplyingMoves DEF StoreIsSound, Applying
<1>2. ClaimsAreRequests'
  BY <1>1, Parts DEF ClaimsAreRequests
<1>3. apply' \in [Consumers -> {Free} \cup [at : Stages, token : Tokens]]
  BY Parts DEF Stages
<1> QED
  BY <1>2, <1>3, PartsNext

(* A request lets go of what it holds.                                      *)
LEMMA LettingGoKeepsSound ==
  ASSUME StoreIsSound, StoreTypes', NEW c \in Consumers, At(c, "claimed"), Leave(c),
         claimed' = claimed \ {apply[c].token},
         \A x \in Entries : x # apply[c].token => x \in Entries'
  PROVE  StoreIsSound'
<1> DEFINE h == apply[c].token
<1>1. h \in Tokens /\ h \in claimed /\ Applying(h) = {c}
  BY OneApplies
<1>2. apply[c] = [at |-> "claimed", token |-> h]
  BY <1>1 DEF Applying
<1>3. ASSUME NEW t \in Tokens PROVE Applying(t)' = IF t = h THEN {} ELSE Applying(t)
  <2>1. Free # [at |-> "claimed", token |-> t]
    BY DEF Free
  <2>2. Applying(t)' = Applying(t) \ {c}
    BY <2>1, ApplyingMoves DEF StoreIsSound, Leave
  <2>3. CASE t = h
    BY <1>1, <2>2, <2>3
  <2>4. CASE t # h
    <3>1. apply[c] # [at |-> "claimed", token |-> t]
      BY <1>2, <2>4
    <3> QED
      BY <2>2, <2>4, <3>1 DEF Applying
  <2> QED
    BY <2>3, <2>4
<1>4. ClaimsAreRequests'
  BY <1>1, <1>3, Parts DEF ClaimsAreRequests
<1>5. apply' \in [Consumers -> {Free} \cup [at : Stages, token : Tokens]]
  BY Parts DEF Leave
<1> QED
  BY <1>4, <1>5, PartsNext

LEMMA ClaimKeepsSound ==
  ASSUME StoreIsSound, NEW c \in Consumers, Claim(c)
  PROVE  StoreIsSound'
<1> DEFINE h == apply[c].token
           v == [at |-> "claimed", token |-> h]
<1>1. h \in Entries /\ h \in Tokens /\ h \notin claimed
  BY DEF Claim, Live, StoreIsSound, TypeOK
<1>2. apply' = [apply EXCEPT ![c] = v] /\ claimed' = claimed \cup {h}
      /\ apply[c].at = "form"
  BY DEF Claim, Enter, At
<1>3. StoreTypes'
  BY <1>1, <1>2, Parts DEF Claim, StoreTypes, Entries, Stored
<1>4. ASSUME NEW t \in Tokens PROVE Applying(t)' = IF t = h THEN {c} ELSE Applying(t)
  <2>1. Applying(h) = {}
    BY <1>1, NobodyApplies
  <2>2. apply[c] # [at |-> "claimed", token |-> t]
    BY <1>2
  <2>3. c \notin Applying(t)
    BY <2>2 DEF Applying
  <2>4. v = [at |-> "claimed", token |-> t] <=> t = h
    OBVIOUS
  <2>5. Applying(t)' = IF v = [at |-> "claimed", token |-> t]
                       THEN Applying(t) \cup {c} ELSE Applying(t) \ {c}
    BY <1>2, ApplyingMoves DEF StoreIsSound
  <2> HIDE DEF h, v
  <2> QED
    BY <2>1, <2>3, <2>4, <2>5
<1>5. ClaimsAreRequests'
  <2>1. Entries' = Entries
    BY DEF Claim, Entries
  <2> HIDE DEF h
  <2> QED
    BY <1>1, <1>2, <1>4, <2>1, Parts DEF ClaimsAreRequests
<1>6. apply' \in [Consumers -> {Free} \cup [at : Stages, token : Tokens]]
  BY <1>1, <1>2, Parts DEF Stages
<1> QED
  BY <1>3, <1>5, <1>6, PartsNext

LEMMA InitIsSound == Init => StoreIsSound
<1> SUFFICES ASSUME Init PROVE StoreIsSound
  OBVIOUS
<1>1. Entries = {} /\ Stored = {} /\ IsFiniteSet({}) /\ Cardinality({}) = 0
  BY FS_EmptySet DEF Init, Entries, Stored
<1>2. \A t \in Tokens : Applying(t) = {}
  BY DEF Init, Applying, Free
<1> QED
  BY <1>1, <1>2 DEF Init, StoreIsSound, TypeOK, PayloadsAreOwned, Payload, Free

LEMMA StepKeepsSound == StoreIsSound /\ [Next]_vars => StoreIsSound'
<1> SUFFICES ASSUME StoreIsSound, [Next]_vars PROVE StoreIsSound'
  OBVIOUS
<1>0. /\ StoreTypes /\ TypeOK /\ \A x \in claimed : x \in Entries
      /\ expired \subseteq Entries
  BY Parts DEF StoreIsSound, ClaimsAreRequests, StoreTypes
<1>1. ASSUME NEW t \in Tokens, Put(t) PROVE StoreIsSound'
  BY <1>0, <1>1, PutKeepsTypes, OthersKeepSound DEF Put
<1>2. ASSUME NEW t \in Tokens, Show(t) PROVE StoreIsSound'
  BY <1>0, <1>2, TouchKeepsTypes, OthersKeepSound DEF Show
<1>3. ASSUME NEW t \in Tokens, Reject(t) PROVE StoreIsSound'
  <2>1. {t} \subseteq Entries /\ t \notin claimed /\ Delete({t}, "dropped")
    BY <1>3 DEF Reject, Unclaimed
  <2>2. StoreTypes' /\ Entries' = Entries \ {t} /\ claimed' = claimed \ {t}
    BY <1>0, <2>1, DeleteKeepsTypes
  <2> QED
    BY <1>0, <1>3, <2>1, <2>2, OthersKeepSound DEF Reject
<1>4. CASE Expire
  <2>1. Oldest(Entries \ expired) \in Entries
    BY <1>0, <1>4, OldestExists DEF Expire
  <2>2. StoreTypes' /\ Entries' = Entries
    BY <1>0, <1>4, <2>1 DEF Expire, StoreTypes, Entries, Stored
  <2> QED
    BY <1>0, <1>4, <2>2, OthersKeepSound DEF Expire
<1>5. CASE DiscardExpired
  <2>1. Lapsed \subseteq Entries /\ Lapsed \cap claimed = {} /\ Delete(Lapsed, "dropped")
    BY <1>0, <1>5 DEF DiscardExpired, Lapsed
  <2>2. StoreTypes' /\ Entries' = Entries \ Lapsed /\ claimed' = claimed \ Lapsed
    BY <1>0, <2>1, DeleteKeepsTypes
  <2> QED
    BY <1>0, <1>5, <2>1, <2>2, OthersKeepSound DEF DiscardExpired
<1>6. ASSUME NEW c \in Consumers, NEW t \in Tokens, Open(c, t) PROVE StoreIsSound'
  <2>1. StoreTypes' /\ claimed' = claimed /\ \A x \in claimed : x \in Entries'
    BY <1>0, <1>6, TouchKeepsTypes DEF Open
  <2>2. CASE Live(t)
    <3>1. apply' = [apply EXCEPT ![c] = [at |-> "form", token |-> t]]
          /\ apply[c].at # "claimed"
      BY <1>6, <2>2 DEF Open, Enter, Free
    <3> QED
      BY <2>1, <3>1, LookingKeepsSound
  <2>3. CASE ~Live(t)
    BY <1>0, <1>6, <2>1, <2>3, OthersKeepSound DEF Open
  <2> QED
    BY <2>2, <2>3
<1>7. ASSUME NEW c \in Consumers, FormInvalid(c) \/ ClaimBusy(c) PROVE StoreIsSound'
  <2>1. StoreTypes' /\ claimed' = claimed /\ Entries' = Entries
    BY <1>0, <1>7 DEF FormInvalid, ClaimBusy, StoreTypes, Entries, Stored
  <2>2. apply' = [apply EXCEPT ![c] = Free] /\ apply[c].at # "claimed"
    BY <1>7 DEF FormInvalid, ClaimBusy, Leave, At
  <2> QED
    BY <1>0, <2>1, <2>2, LookingKeepsSound
<1>8. ASSUME NEW c \in Consumers, ClaimMissing(c) PROVE StoreIsSound'
  <2>1. StoreTypes' /\ claimed' = claimed /\ \A x \in claimed : x \in Entries'
    BY <1>0, <1>8, TouchKeepsTypes DEF ClaimMissing
  <2>2. apply' = [apply EXCEPT ![c] = Free] /\ apply[c].at # "claimed"
    BY <1>8 DEF ClaimMissing, Leave, At
  <2> QED
    BY <2>1, <2>2, LookingKeepsSound
<1>9. ASSUME NEW c \in Consumers, NEW result \in {"used", "dropped"}, Consume(c, result)
      PROVE  StoreIsSound'
  <2>1. At(c, "claimed") /\ Leave(c) /\ Delete({apply[c].token}, result)
        /\ apply[c].token \in Entries
    BY <1>0, <1>9, OneApplies DEF Consume
  <2>2. StoreTypes' /\ Entries' = Entries \ {apply[c].token}
        /\ claimed' = claimed \ {apply[c].token}
    BY <1>0, <2>1, DeleteKeepsTypes
  <2> QED
    BY <2>1, <2>2, LettingGoKeepsSound
<1>10. ASSUME NEW c \in Consumers, Release(c) PROVE StoreIsSound'
  <2>1. At(c, "claimed") /\ Leave(c) /\ apply[c].token \in Entries
    BY <1>0, <1>10, OneApplies DEF Release
  <2>2. CASE apply[c].token \in expired
    <3>1. Delete({apply[c].token}, "dropped")
      BY <1>10, <2>2 DEF Release
    <3>2. StoreTypes' /\ Entries' = Entries \ {apply[c].token}
          /\ claimed' = claimed \ {apply[c].token}
      BY <1>0, <2>1, <3>1, DeleteKeepsTypes
    <3> QED
      BY <2>1, <3>2, LettingGoKeepsSound
  <2>3. CASE apply[c].token \notin expired
    <3>1. claimed' = claimed \ {apply[c].token} /\ UNCHANGED <<entries, expired, payload>>
      BY <1>10, <2>3 DEF Release
    <3>2. StoreTypes' /\ Entries' = Entries
      BY <1>0, <3>1 DEF StoreTypes, Entries, Stored
    <3> QED
      BY <2>1, <3>1, <3>2, LettingGoKeepsSound
  <2> QED
    BY <2>2, <2>3
<1>11. ASSUME NEW c \in Consumers, Claim(c) PROVE StoreIsSound'
  BY <1>11, ClaimKeepsSound
<1>12. CASE UNCHANGED vars
  <2>1. StoreTypes' /\ Entries' = Entries
    BY <1>0, <1>12 DEF vars, StoreTypes, Entries, Stored
  <2> QED
    BY <1>0, <1>12, <2>1, OthersKeepSound DEF vars
<1> QED
  BY <1>1, <1>2, <1>3, <1>4, <1>5, <1>6, <1>7, <1>8, <1>9, <1>10, <1>11, <1>12
     DEF Next, Finish

(* A staged payload is in the store until it is used or dropped, and a      *)
(* claim is exactly one request that continues an upload, whatever expires, *)
(* is evicted or is asked for meanwhile (token_store.py).                   *)
THEOREM AlwaysOwned == Spec => []StoreIsSound
<1> QED
  BY InitIsSound, StepKeepsSound, PTL DEF Spec

-----------------------------------------------------------------------------
(* The store implements the ticket. *)

(* What the mapping makes of the state.                                     *)
TicketOf == [t \in Tokens |-> IF payload[t] = "staged" THEN "open" ELSE payload[t]]
OneOf(S) == IF S = {} THEN NoToken ELSE CHOOSE c \in S : TRUE
HolderOf == [t \in Tokens |-> OneOf(Applying(t))]

LEMMA Mapping ==
  /\ Ticket!Outstanding = {t \in Tokens : TicketOf[t] = "open"}
  /\ HolderOf = [t \in Tokens |-> IF Applying(t) = {} THEN NoToken
                                  ELSE CHOOSE c \in Applying(t) : TRUE]
  /\ HolderOf' = [t \in Tokens |-> OneOf(Applying(t)')]
BY DEF HolderOf, OneOf, Ticket!Outstanding, TicketOf

LEMMA Counted == \A S : Ticket!Cardinality(S) = Cardinality(S)
BY DEF Ticket!Cardinality, Cardinality

LEMMA OneOfOne == OneOf({}) = NoToken /\ \A c : OneOf({c}) = c
BY DEF OneOf

LEMMA MappedState ==
  ASSUME StoreIsSound
  PROVE  /\ \A t \in Tokens : TicketOf[t] = "open" <=> t \in Entries
         /\ \A t \in Tokens : t \notin claimed => HolderOf[t] = NoToken
         /\ \A t \in claimed : HolderOf[t] # NoToken
         /\ \A t \in Tokens, c \in Consumers : Applying(t) = {c} => HolderOf[t] = c
<1>1. \A t \in Tokens : TicketOf[t] = "open" <=> t \in Entries
  BY DEF TicketOf, StoreIsSound, TypeOK, PayloadsAreOwned, Payload
<1>2. \A t \in Tokens : t \notin claimed => HolderOf[t] = NoToken
  BY NobodyApplies, OneOfOne DEF HolderOf
<1>3. \A t \in Tokens, c \in Consumers : Applying(t) = {c} => HolderOf[t] = c
  BY OneOfOne DEF HolderOf
<1>4. \A t \in claimed : HolderOf[t] # NoToken
  <2> TAKE t \in claimed
  <2>1. PICK c \in Consumers : t \in Tokens /\ Applying(t) = {c}
    BY DEF StoreIsSound, TypeOK, PayloadsAreOwned
  <2> QED
    BY <1>3, <2>1
<1> QED
  BY <1>1, <1>2, <1>3, <1>4

(* Entries that are nobody's are dropped, and no claim changes.             *)
LEMMA DroppingRefines ==
  ASSUME StoreIsSound, NEW D, D \subseteq Entries \ claimed, HolderOf' = HolderOf,
         \A t \in Tokens : payload'[t] = IF t \in D THEN "dropped" ELSE payload[t]
  PROVE  Ticket!TNext
<1>1. D \in SUBSET Tokens
  BY DEF StoreIsSound, TypeOK
<1>2. TicketOf' = [t \in Tokens |-> IF t \in D THEN "dropped" ELSE TicketOf[t]]
  BY DEF TicketOf
<1>3. \A t \in D : TicketOf[t] = "open" /\ HolderOf[t] = NoToken
  BY <1>1, MappedState
<1>4. Ticket!DropUnheld(D)
  BY <1>2, <1>3 DEF Ticket!DropUnheld, TicketOf, HolderOf, OneOf
<1> QED
  BY <1>1, <1>4 DEF Ticket!TNext

LEMMA SameHolders ==
  ASSUME \A t \in Tokens : Applying(t)' = Applying(t)
  PROVE  HolderOf' = HolderOf
BY Mapping DEF HolderOf

LEMMA PuttingRefines ==
  ASSUME StoreIsSound, NEW t \in Tokens, Put(t)
  PROVE  Ticket!TNext
<1> DEFINE kept == Entries \ Victims
<1>1. /\ Victims \subseteq Entries \ claimed /\ Cardinality(kept) \in Nat
      /\ Cardinality(kept) < MaxEntries \/ kept \subseteq claimed
  BY VictimsFit DEF StoreIsSound
<1>2. t \notin Entries /\ TicketOf[t] = "new" /\ Victims \subseteq Tokens
  BY <1>1 DEF Put, TicketOf, StoreIsSound, TypeOK, PayloadsAreOwned
<1>3. HolderOf' = HolderOf
  <2>1. \A x \in Tokens : Applying(x)' = Applying(x)
    BY DEF Put, Applying
  <2> QED
    BY <2>1, SameHolders
<1>4. \A x \in Victims : TicketOf[x] = "open" /\ HolderOf[x] = NoToken
  BY <1>1, <1>2, MappedState
<1>5. {x \in Tokens : TicketOf[x] = "open"} \ Victims = kept
  BY MappedState DEF StoreIsSound, TypeOK
<1>8. PICK D : D = Victims /\ D \in SUBSET Tokens /\ t \in Tokens \ D
  BY <1>1, <1>2
<1>6. CASE Cardinality(kept) < MaxEntries
  <2>1. \A x \in Tokens : payload'[x] = IF x = t THEN "staged"
                                        ELSE IF x \in Victims THEN "dropped" ELSE payload[x]
    BY <1>1, <1>2, <1>6 DEF Put
  <2>2. TicketOf' = [x \in Tokens |-> IF x = t THEN "open"
                                     ELSE IF x \in Victims THEN "dropped" ELSE TicketOf[x]]
    BY <2>1 DEF TicketOf
  <2>3. Ticket!Cardinality(Ticket!Outstanding \ Victims) < MaxEntries
    BY <1>5, <1>6, Mapping, Counted
  <2>4. Ticket!Issue(t, D)
    BY <1>8, <1>2, <1>3, <1>4, <2>2, <2>3 DEF Ticket!Issue, TicketOf, HolderOf, OneOf
  <2> QED
    BY <1>8, <2>4 DEF Ticket!TNext
<1>7. CASE ~(Cardinality(kept) < MaxEntries)
  <2>1. \A x \in Tokens : payload'[x] = IF x = t \/ x \in Victims THEN "dropped" ELSE payload[x]
    BY <1>1, <1>2, <1>7 DEF Put
  <2>2. TicketOf' = [x \in Tokens |-> IF x = t \/ x \in Victims THEN "dropped" ELSE TicketOf[x]]
    BY <2>1 DEF TicketOf
  <2>3. \A x \in kept : HolderOf[x] # NoToken
    BY <1>1, <1>7, MappedState
  <2>4. Ticket!Refuse(t, D)
    BY <1>8, <1>2, <1>3, <1>4, <1>5, <2>2, <2>3, Mapping DEF Ticket!Refuse, TicketOf, HolderOf, OneOf
  <2> QED
    BY <1>8, <2>4 DEF Ticket!TNext
<1> QED
  BY <1>6, <1>7

LEMMA ClaimingRefines ==
  ASSUME StoreIsSound, NEW c \in Consumers, Claim(c)
  PROVE  Ticket!TNext
<1>1. PICK h \in Tokens : h = apply[c].token /\ h \in Entries /\ h \notin claimed
  BY DEF Claim, Live, StoreIsSound, TypeOK
<1>2. TicketOf[h] = "open" /\ HolderOf[h] = NoToken
  BY <1>1, MappedState
<1>3. TicketOf' = [TicketOf EXCEPT ![h] = "open"]
  BY <1>1, <1>2 DEF Claim, TicketOf
<1>4. ASSUME NEW t \in Tokens PROVE Applying(t)' = IF t = h THEN {c} ELSE Applying(t)
  <2>1. Applying(h) = {}
    BY <1>1, NobodyApplies
  <2>2. apply[c] # [at |-> "claimed", token |-> t]
        /\ apply' = [apply EXCEPT ![c] = [at |-> "claimed", token |-> h]]
    BY <1>1 DEF Claim, At, Enter
  <2>3. c \notin Applying(t)
    BY <2>2 DEF Applying
  <2>4. [at |-> "claimed", token |-> h] = [at |-> "claimed", token |-> t] <=> t = h
    OBVIOUS
  <2>5. Applying(t)' = IF [at |-> "claimed", token |-> h] = [at |-> "claimed", token |-> t]
                       THEN Applying(t) \cup {c} ELSE Applying(t) \ {c}
    BY <2>2, ApplyingMoves DEF StoreIsSound
  <2> QED
    BY <2>1, <2>3, <2>4, <2>5
<1>5. HolderOf' = [HolderOf EXCEPT ![h] = c]
  BY <1>1, <1>4, Mapping, OneOfOne DEF HolderOf
<1>6. Ticket!Hold(c, h)
  BY <1>2, <1>3, <1>5 DEF Ticket!Hold, Ticket!Set, TicketOf, HolderOf, OneOf
<1> QED
  BY <1>1, <1>6 DEF Ticket!TNext

(* A holder uses up, drops or puts back what it holds.                      *)
LEMMA LettingGoRefines ==
  ASSUME StoreIsSound, NEW c \in Consumers, At(c, "claimed"), Leave(c),
         NEW result \in {"staged", "used", "dropped"},
         \A t \in Tokens : payload'[t] = IF t = apply[c].token THEN result ELSE payload[t]
  PROVE  Ticket!TNext
<1> DEFINE h == apply[c].token
           s == IF result = "staged" THEN "open" ELSE result
<1>1. h \in Tokens /\ Applying(h) = {c} /\ HolderOf[h] = c
  BY OneApplies, MappedState
<1>2. TicketOf' = [TicketOf EXCEPT ![h] = s]
  BY <1>1 DEF TicketOf
<1>3. ASSUME NEW t \in Tokens PROVE Applying(t)' = IF t = h THEN {} ELSE Applying(t)
  <2>1. apply' = [apply EXCEPT ![c] = Free] /\ Free # [at |-> "claimed", token |-> t]
    BY DEF Leave, Free
  <2>2. Applying(t)' = Applying(t) \ {c}
    BY <2>1, ApplyingMoves DEF StoreIsSound
  <2>3. c \in Applying(t) => t = h
    BY DEF Applying
  <2> HIDE DEF h
  <2> QED
    BY <1>1, <2>2, <2>3
<1>4. HolderOf' = [HolderOf EXCEPT ![h] = NoToken]
  BY <1>1, <1>3, Mapping, OneOfOne DEF HolderOf
<1>5. CASE result = "staged"
  BY <1>1, <1>2, <1>4, <1>5 DEF Ticket!TNext, Ticket!Return, Ticket!Set, TicketOf, HolderOf, OneOf
<1>6. CASE result = "used"
  BY <1>1, <1>2, <1>4, <1>6 DEF Ticket!TNext, Ticket!Use, Ticket!Set, TicketOf, HolderOf, OneOf
<1>7. CASE result = "dropped"
  BY <1>1, <1>2, <1>4, <1>7 DEF Ticket!TNext, Ticket!DropHeld, Ticket!Set, TicketOf, HolderOf, OneOf
<1> QED
  BY <1>5, <1>6, <1>7

(* Every step of the store is a step of the ticket, or none.                *)
LEMMA StepRefines == StoreIsSound /\ [Next]_vars => [Ticket!TNext]_(Ticket!ticketVars)
<1> SUFFICES ASSUME StoreIsSound, [Next]_vars PROVE Ticket!TNext
  OBVIOUS
<1>0. /\ expired \subseteq Entries /\ Lapsed = expired \ claimed
      /\ payload \in [Tokens -> Payload]
  BY DEF StoreIsSound, TypeOK, Lapsed
<1>1. ASSUME UNCHANGED apply PROVE HolderOf' = HolderOf
  BY <1>1, SameHolders DEF Applying
<1>2. ASSUME NEW c \in Consumers, NEW v \in {Free} \cup [at : {"form"}, token : Tokens],
             apply' = [apply EXCEPT ![c] = v], apply[c].at # "claimed"
      PROVE  HolderOf' = HolderOf
  <2>1. ASSUME NEW t \in Tokens PROVE Applying(t)' = Applying(t)
    <3>1. v # [at |-> "claimed", token |-> t] /\ apply[c] # [at |-> "claimed", token |-> t]
      BY <1>2 DEF Free
    <3> QED
      BY <1>2, <3>1, ApplyingMoves DEF StoreIsSound, Applying
  <2> QED
    BY <2>1, SameHolders
<1>3. ASSUME HolderOf' = HolderOf, NEW t, Touch(t) PROVE Ticket!TNext
  <2>1. PICK D : D = IF t \in Lapsed THEN {t} ELSE {}
    OBVIOUS
  <2>2. D \subseteq Entries \ claimed
    BY <1>0, <2>1
  <2>3. \A x \in Tokens : payload'[x] = IF x \in D THEN "dropped" ELSE payload[x]
    BY <1>3, <2>1 DEF Touch, Delete
  <2> QED
    BY <1>3, <2>2, <2>3, DroppingRefines
<1>4. ASSUME HolderOf' = HolderOf, payload' = payload PROVE Ticket!TNext
  <2>1. PICK D : D = {}
    OBVIOUS
  <2>2. D \subseteq Entries \ claimed
        /\ \A x \in Tokens : payload'[x] = IF x \in D THEN "dropped" ELSE payload[x]
    BY <1>4, <2>1
  <2> QED
    BY <1>4, <2>2, DroppingRefines
<1>5. ASSUME NEW t \in Tokens, Put(t) PROVE Ticket!TNext
  BY <1>5, PuttingRefines
<1>6. ASSUME NEW t \in Tokens, Show(t) PROVE Ticket!TNext
  BY <1>1, <1>3, <1>6 DEF Show
<1>7. ASSUME NEW t \in Tokens, Reject(t) PROVE Ticket!TNext
  <2>1. {t} \subseteq Entries \ claimed
        /\ \A x \in Tokens : payload'[x] = IF x \in {t} THEN "dropped" ELSE payload[x]
    BY <1>7 DEF Reject, Unclaimed, Delete
  <2> QED
    BY <1>1, <1>7, <2>1, DroppingRefines DEF Reject
<1>8. CASE Expire
  BY <1>1, <1>4, <1>8 DEF Expire
<1>9. CASE DiscardExpired
  <2>1. PICK D : D = Lapsed /\ D \subseteq Entries \ claimed
    BY <1>0
  <2>2. \A x \in Tokens : payload'[x] = IF x \in D THEN "dropped" ELSE payload[x]
    BY <1>9, <2>1 DEF DiscardExpired, Delete
  <2> QED
    BY <1>1, <1>9, <2>1, <2>2, DroppingRefines DEF DiscardExpired
<1>10. ASSUME NEW c \in Consumers, NEW t \in Tokens, Open(c, t) PROVE Ticket!TNext
  <2>1. CASE Live(t)
    <3>1. apply' = [apply EXCEPT ![c] = [at |-> "form", token |-> t]]
          /\ apply[c].at # "claimed"
      BY <1>10, <2>1 DEF Open, Enter, Free
    <3>2. HolderOf' = HolderOf
      BY <1>2, <3>1
    <3> QED
      BY <1>3, <1>10, <3>2 DEF Open
  <2>2. CASE ~Live(t)
    BY <1>1, <1>3, <1>10, <2>2 DEF Open
  <2> QED
    BY <2>1, <2>2
<1>11. ASSUME NEW c \in Consumers, FormInvalid(c) \/ ClaimBusy(c) PROVE Ticket!TNext
  <2>1. apply' = [apply EXCEPT ![c] = Free] /\ apply[c].at # "claimed" /\ payload' = payload
    BY <1>11 DEF FormInvalid, ClaimBusy, Leave, At
  <2>2. HolderOf' = HolderOf
    BY <1>2, <2>1
  <2> QED
    BY <1>4, <2>1, <2>2
<1>12. ASSUME NEW c \in Consumers, ClaimMissing(c) PROVE Ticket!TNext
  <2>1. apply' = [apply EXCEPT ![c] = Free] /\ apply[c].at # "claimed"
    BY <1>12 DEF ClaimMissing, Leave, At
  <2>2. HolderOf' = HolderOf
    BY <1>2, <2>1
  <2> QED
    BY <1>3, <1>12, <2>2 DEF ClaimMissing
<1>13. ASSUME NEW c \in Consumers, Claim(c) PROVE Ticket!TNext
  BY <1>13, ClaimingRefines
<1>14. ASSUME NEW c \in Consumers, NEW result \in {"used", "dropped"}, Consume(c, result)
       PROVE  Ticket!TNext
  <2>1. At(c, "claimed") /\ Leave(c)
        /\ \A t \in Tokens : payload'[t] = IF t = apply[c].token THEN result ELSE payload[t]
    BY <1>14 DEF Consume, Delete
  <2> QED
    BY <2>1, LettingGoRefines
<1>15. ASSUME NEW c \in Consumers, Release(c) PROVE Ticket!TNext
  <2>1. At(c, "claimed") /\ Leave(c)
    BY <1>15 DEF Release
  <2>2. CASE apply[c].token \in expired
    <3>1. \A t \in Tokens : payload'[t] = IF t = apply[c].token THEN "dropped" ELSE payload[t]
      BY <1>15, <2>2 DEF Release, Delete
    <3> QED
      BY <2>1, <3>1, LettingGoRefines
  <2>3. CASE apply[c].token \notin expired
    <3>1. payload[apply[c].token] = "staged"
      BY <2>1, OneApplies DEF StoreIsSound, TypeOK, PayloadsAreOwned
    <3>2. \A t \in Tokens : payload'[t] = IF t = apply[c].token THEN "staged" ELSE payload[t]
      BY <1>15, <2>3, <3>1 DEF Release
    <3> QED
      BY <2>1, <3>2, LettingGoRefines
  <2> QED
    BY <2>2, <2>3
<1>16. CASE UNCHANGED vars
  BY <1>1, <1>4, <1>16 DEF vars
<1> QED
  BY <1>5, <1>6, <1>7, <1>8, <1>9, <1>10, <1>11, <1>12, <1>13, <1>14, <1>15, <1>16
     DEF Next, Finish

LEMMA InitRefines == Init => Ticket!TInit
<1> SUFFICES ASSUME Init PROVE Ticket!TInit
  OBVIOUS
<1>1. \A t \in Tokens : Applying(t) = {}
  BY DEF Init, Applying, Free
<1> QED
  BY <1>1 DEF Init, Ticket!TInit

(* Every behaviour of the store is one that AuditTicket allows: an audit is *)
(* used at most once, by the one request that holds it, and is never        *)
(* dropped under its holder (token_store.py 96-129, remap/routes.py).       *)
THEOREM StoreImplementsTicket == Spec => ImplementsTicket
<1> QED
  BY InitRefines, StepRefines, AlwaysOwned, PTL DEF Spec, ImplementsTicket, Ticket!TSpec
=============================================================================
