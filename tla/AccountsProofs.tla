--------------------------- MODULE AccountsProofs ---------------------------
(***************************************************************************)
(* Proofs about Accounts, for any number of accounts, addresses and        *)
(* requests and any limits.  The invariant IInv is the conjunction of the  *)
(* invariants the runs check.  Its parts are taken one after the other:    *)
(* the types, what a step does to accounts and links, then each part in a  *)
(* section of its own that goes through the actions that write what the    *)
(* part reads.  Two parts lean on others: ConfirmedWasAnswered needs what  *)
(* the awaiting requests hold (RequestsHold) and where the open links      *)
(* point (LinksPoint); the types need RequestsHold.                        *)
(***************************************************************************)
EXTENDS Accounts, FiniteSetTheorems, TLAPS

USE ThrottleAssumption, AccountsAssumption, NoAccountAssumption

-----------------------------------------------------------------------------
(* Sequences. *)

LEMMA SeqUpdate ==
  ASSUME NEW S, NEW s \in Seq(S), NEW t, DOMAIN t = DOMAIN s,
         t = [i \in DOMAIN s |-> t[i]], \A i \in DOMAIN s : t[i] \in S
  PROVE  t \in Seq(S)
  OBVIOUS

LEMMA Appended ==
  ASSUME NEW S, NEW s \in Seq(S), NEW e \in S
  PROVE  /\ Append(s, e) \in Seq(S)
         /\ DOMAIN Append(s, e) = DOMAIN s \cup {Len(s) + 1}
         /\ \A i \in DOMAIN s : Append(s, e)[i] = s[i]
         /\ Append(s, e)[Len(s) + 1] = e
         /\ Len(s) + 1 \notin DOMAIN s
  OBVIOUS

-----------------------------------------------------------------------------
(* Types. *)

LEMMA InitTyped == Init => TypeOK
  BY DEF Init, TypeOK, NoFailures, NoRequest, Request, Stages, NoHash

LEMMA ThrottleTyped ==
  ASSUME NEW f \in [Buckets -> Nat], NEW b \in Buckets, NEW B
  PROVE  /\ Registered(f, b) \in [Buckets -> Nat]
         /\ Reserved(f, B) \in [Buckets -> Nat]
         /\ Released(f, b) \in [Buckets -> Nat]
         /\ Cleared(f, b) \in [Buckets -> Nat]
<1>1. LIMITS[b[1]] \in Nat
  BY DEF Buckets, Scopes
<1> QED
  BY <1>1 DEF Registered, Reserved, Released, Cleared

LEMMA Marked ==
  ASSUME NEW q \in Request
  PROVE  /\ [q EXCEPT !.raced = TRUE] \in Request
         /\ [q EXCEPT !.wiped = TRUE] \in Request
  BY DEF Request

LEMMA Burnt ==
  ASSUME NEW l \in Link
  PROVE  /\ [l EXCEPT !.good = FALSE] \in Link
         /\ [[l EXCEPT !.good = FALSE] EXCEPT !.opened = l.opened + 1] \in Link
<1>1. l.opened + 1 \in Nat
  BY DEF Link
<1>2. [l EXCEPT !.good = FALSE] \in Link
  BY DEF Link
<1>3. ASSUME NEW k \in Link, NEW n \in Nat
      PROVE  [k EXCEPT !.opened = n] \in Link
  BY DEF Link
<1> QED
  BY <1>1, <1>2, <1>3

LEMMA LinkTyped ==
  ASSUME TypeOK, NEW l \in DOMAIN links
  PROVE  links[l] \in Link
  BY DEF TypeOK

LEMMA IssueTyped ==
  ASSUME TypeOK, NEW u \in Users, NEW p \in Purposes, NEW e \in Emails,
         Issue(u, p, e)
  PROVE  links' \in Seq(Link)
<1>1. [user |-> u, purpose |-> p, email |-> e, good |-> TRUE, opened |-> 0] \in Link
  BY DEF Link
<1> QED
  BY <1>1, Appended DEF Issue, TypeOK

LEMMA SessionTyped ==
  ASSUME NEW t \in [Users -> Account \cup {NoAccount}], NEW u \in Users,
         NEW k \in Nat, NEW b \in BOOLEAN
  PROVE  SessionOf(t, u, k, b) \subseteq Session
  BY DEF SessionOf, Session, Account

LEMMA ConsumeTyped ==
  ASSUME TypeOK, NEW l \in DOMAIN links
  PROVE  Consume(l) \in Seq(Link)
<1>1. \A i \in DOMAIN links : Consume(l)[i] \in Link
  <2> SUFFICES ASSUME NEW i \in DOMAIN links
               PROVE  Consume(l)[i] \in Link
    OBVIOUS
  <2>1. Consume(l)[i] = IF i = l THEN [[links[l] EXCEPT !.good = FALSE]
                                         EXCEPT !.opened = links[l].opened + 1]
                                 ELSE links[i]
    BY DEF Consume
  <2> QED
    BY <2>1, LinkTyped, Burnt
<1> QED
  BY <1>1, SeqUpdate DEF Consume, TypeOK

LEMMA RaceTyped ==
  ASSUME TypeOK, NEW u \in Users
  PROVE  /\ \A r \in Slots : EndAndRace(r, u) \in [Slots -> Request]
         /\ Race(u) \in [Slots -> Request]
<1>1. NoRequest \in Request
  BY DEF NoRequest, Request, Stages, NoHash
<1>2. \A q \in Slots : [request[q] EXCEPT !.raced = TRUE] \in Request
  BY Marked DEF TypeOK
<1> QED
  BY <1>1, <1>2 DEF EndAndRace, Race, TypeOK

LEMMA Awaiter ==
  ASSUME TypeOK, RequestsHold, NEW r \in Slots, request[r].at # "idle"
  PROVE  request[r].user \in Users /\ request[r] \in Request
  BY DEF TypeOK, RequestsHold, Holds

LEMMA Begins ==
  ASSUME TypeOK, NEW r \in Slots, NEW q, Begin(r, q)
  PROVE  /\ request[r].at = "idle" /\ request'[r] = q
         /\ \A x \in Slots \ {r} : request'[x] = request[x]
  BY DEF Begin, TypeOK, NoRequest

(* The login form. *)
LEMMA IdleTyped == NoRequest \in Request
  BY DEF NoRequest, Request, Stages, NoHash

LEMMA LoginBeginTyped ==
  ASSUME TypeOK, NEW r \in Slots, NEW u \in Users, NEW ip \in Ips, NEW ok \in BOOLEAN,
         LoginBegin(r, u, ip, ok)
  PROVE  TypeOK'
<1>1. <<"ip", ip>> \in Buckets
  BY DEF Buckets
<1>2. Reserved(failures, LoginBuckets(u, ip)) \in [Buckets -> Nat]
  BY <1>1, ThrottleTyped DEF TypeOK
<1>3. Exists(u) => users[u].password \in Nat
  BY DEF Exists, Account, TypeOK
<1>4. request' \in [Slots -> Request]
  <2>1. CASE Exists(u)
    <3>1. [NoRequest EXCEPT !.at = "comparing", !.user = u, !.ip = ip, !.ok = ok,
           !.knew = IF ok THEN users[u].password ELSE NoHash] \in Request
      BY <1>3, <2>1 DEF NoRequest, Request, Stages, NoHash
    <3> QED
      BY <2>1, <3>1 DEF LoginBegin, Begin, TypeOK
  <2>2. CASE ~Exists(u)
    BY <2>2 DEF LoginBegin, TypeOK
  <2> QED
    BY <2>1, <2>2
<1> QED
  BY <1>2, <1>4 DEF LoginBegin, TypeOK, tables

LEMMA LoginFailsTyped ==
  ASSUME TypeOK, NEW r \in Slots, LoginFails(r)
  PROVE  TypeOK'
  BY IdleTyped DEF LoginFails, TypeOK, tables

LEMMA LoginSucceedsTyped ==
  ASSUME TypeOK, RequestsHold, NEW r \in Slots, LoginSucceeds(r)
  PROVE  TypeOK'
<1> DEFINE u == request[r].user
<1>1. request[r] \in Request /\ u \in Users /\ request[r].ip \in Ips
  BY DEF LoginSucceeds, TypeOK, RequestsHold, Holds, Awaits
<1>2. request[r].knew \in Nat /\ request[r].raced \in BOOLEAN
  BY <1>1 DEF Request
<1>3. <<"user", u>> \in Buckets /\ <<"ip", request[r].ip>> \in Buckets
  BY <1>1 DEF Buckets
<1>4. failures' \in [Buckets -> Nat]
  BY <1>3, ThrottleTyped DEF LoginSucceeds, TypeOK
<1>5. sessions' \subseteq Session
  BY <1>1, <1>2, SessionTyped DEF LoginSucceeds, TypeOK
<1>6. request' \in [Slots -> Request]
  BY IdleTyped, Marked DEF LoginSucceeds, TypeOK
<1> QED
  BY <1>4, <1>5, <1>6 DEF LoginSucceeds, TypeOK, tables

(* The set-up form. *)
LEMMA SetupBeginTyped ==
  ASSUME TypeOK, NEW r \in Slots, NEW u \in Users, NEW e \in Emails \cup {NoEmail},
         NEW ip \in Ips, SetupBegin(r, u, e, ip)
  PROVE  TypeOK'
<1> DEFINE onFile == IF Exists(u) THEN users[u].email ELSE NoEmail
           email  == IF e = NoEmail THEN onFile ELSE e
           kept   == email # NoEmail /\ email = onFile /\ users[u].verified
           strays == kept /\ users[u].moved
           q      == [NoRequest EXCEPT !.at = "settingUp", !.user = u, !.email = email,
                                       !.verified = kept, !.moved = strays]
<1>1. onFile \in Emails \cup {NoEmail}
  BY DEF TypeOK, Exists, Account
<1>2. email \in Emails \cup {NoEmail}
  BY <1>1
<1>3. kept \in BOOLEAN /\ strays \in BOOLEAN
  OBVIOUS
<1>4. ASSUME NEW a \in Emails \cup {NoEmail}, NEW b \in BOOLEAN, NEW c \in BOOLEAN
      PROVE  [NoRequest EXCEPT !.at = "settingUp", !.user = u, !.email = a,
                               !.verified = b, !.moved = c] \in Request
  BY DEF NoRequest, Request, Stages, NoHash
<1>5. q \in Request
  <2> HIDE DEF kept, strays, email
  <2> QED
    BY <1>2, <1>3, <1>4
<1>6. request' = [request EXCEPT ![r] = q]
  BY DEF SetupBegin, Begin
<1>7. request' \in [Slots -> Request]
  <2> HIDE DEF q
  <2> QED
    BY <1>5, <1>6 DEF TypeOK
<1>8. failures' \in [Buckets -> Nat]
  <2>1. <<"setup", ip>> \in Buckets
    BY DEF Buckets
  <2> QED
    BY <2>1, ThrottleTyped DEF SetupBegin, TypeOK
<1> QED
  BY <1>7, <1>8 DEF SetupBegin, TypeOK, tables

LEMMA SetupWritesTyped ==
  ASSUME TypeOK, RequestsHold, NEW r \in Slots, SetupWrites(r)
  PROVE  TypeOK'
<1> DEFINE u == request[r].user  e == request[r].email
           confirm == EmailEnabled /\ e # NoEmail /\ ~request[r].verified
           strays == OpenElsewhere(u, e) \/ request[r].moved
           a == [password |-> hashes + 1, admin |-> TRUE, email |-> e,
                 verified |-> request[r].verified, moved |-> strays]
<1>0. u \in Users /\ request[r] \in Request
  BY Awaiter DEF SetupWrites, Awaits
<1>1. /\ u \in Users /\ e \in Emails \cup {NoEmail} /\ request[r].verified \in BOOLEAN
      /\ hashes + 1 \in Nat
  BY <1>0 DEF TypeOK, Request
<1>2. a \in Account
  <2>1. strays \in BOOLEAN
    OBVIOUS
  <2> HIDE DEF strays
  <2> QED
    BY <1>1, <2>1 DEF Account
<1>3. users' \in [Users -> Account \cup {NoAccount}]
  <2>1. users' = [users EXCEPT ![u] = a]
    BY DEF SetupWrites
  <2> QED
    BY <1>2, <2>1 DEF TypeOK
<1>5. EndAndRace(r, u) \in [Slots -> Request]
  BY <1>1, RaceTyped
<1>6. CASE confirm
  <2>1. links' \in Seq(Link)
    BY <1>1, <1>6, IssueTyped DEF SetupWrites, Purposes
  <2>2. [NoRequest EXCEPT !.at = "mailing", !.user = u, !.knew = hashes + 1] \in Request
    BY <1>1 DEF NoRequest, Request, Stages, NoHash
  <2>3. request' \in [Slots -> Request]
    BY <1>5, <1>6, <2>2 DEF SetupWrites
  <2> QED
    BY <1>1, <1>3, <1>6, <2>1, <2>3 DEF SetupWrites, TypeOK
<1>7. CASE ~confirm
  <2>1. sessions' \subseteq Session
    <3>1. SessionOf(users', u, hashes + 1, FALSE) \subseteq Session
      BY <1>1, <1>3, SessionTyped
    <3> QED
      BY <1>7, <3>1 DEF SetupWrites, TypeOK
  <2> QED
    BY <1>1, <1>3, <1>5, <1>7, <2>1 DEF SetupWrites, TypeOK
<1> QED
  BY <1>6, <1>7

LEMMA SetupEndsTyped ==
  ASSUME TypeOK, RequestsHold, NEW r \in Slots, SetupEnds(r)
  PROVE  TypeOK'
<1>1. /\ request[r].user \in Users
      /\ request[r].knew \in Nat /\ request[r].raced \in BOOLEAN
  BY DEF SetupEnds, TypeOK, RequestsHold, Holds, Awaits, Request
<1>2. sessions' \subseteq Session
  BY <1>1, SessionTyped DEF SetupEnds, TypeOK
<1> QED
  BY <1>2, IdleTyped DEF SetupEnds, TypeOK, tables

LEMMA SetupRefusedTyped ==
  ASSUME TypeOK, NEW ip \in Ips, SetupWrongCode(ip) \/ SetupRefused(ip)
  PROVE  TypeOK'
<1>1. <<"setup", ip>> \in Buckets
  BY DEF Buckets
<1>2. failures' \in [Buckets -> Nat]
  <2>1. /\ Registered(failures, <<"setup", ip>>) \in [Buckets -> Nat]
        /\ Cleared(failures, <<"setup", ip>>) \in [Buckets -> Nat]
    BY <1>1, ThrottleTyped DEF TypeOK
  <2> QED
    BY <2>1 DEF SetupWrongCode, SetupRefused
<1> QED
  BY <1>2 DEF SetupWrongCode, SetupRefused, TypeOK, tables

(* The team page. *)
LEMMA OpenElsewhereTyped ==
  ASSUME NEW u, NEW e
  PROVE  OpenElsewhere(u, e) \in BOOLEAN
  BY DEF OpenElsewhere

LEMMA TeamAddTyped ==
  ASSUME TypeOK, NEW a \in Users, NEW u \in Users, NEW e \in Emails \cup {NoEmail},
         NEW admin \in BOOLEAN, TeamAdd(a, u, e, admin)
  PROVE  TypeOK'
<1> DEFINE invite == e # NoEmail /\ EmailEnabled
           new == [password |-> IF invite THEN NoHash ELSE hashes + 1,
                   admin |-> admin, email |-> e, verified |-> FALSE,
                   moved |-> OpenElsewhere(u, e)]
<1>1. hashes \in Nat /\ hashes + 1 \in Nat /\ NoHash \in Nat
  BY DEF TypeOK, NoHash
<1>2. new \in Account
  BY <1>1, OpenElsewhereTyped DEF Account
<1>3. users' \in [Users -> Account \cup {NoAccount}]
  <2>1. users' = [users EXCEPT ![u] = new]
    BY DEF TeamAdd
  <2> QED
    BY <1>2, <2>1 DEF TypeOK
<1>4. request' \in [Slots -> Request]
  BY RaceTyped DEF TeamAdd
<1>5. links' \in Seq(Link) /\ hashes' \in Nat
  <2>1. CASE invite
    BY <1>1, <2>1, IssueTyped DEF TeamAdd, Purposes
  <2>2. CASE ~invite
    BY <1>1, <2>2 DEF TeamAdd, TypeOK
  <2> QED
    BY <2>1, <2>2
<1> QED
  BY <1>3, <1>4, <1>5 DEF TeamAdd, TypeOK

LEMMA TeamPasswordTyped ==
  ASSUME TypeOK, NEW a \in Users, NEW u \in Users, TeamPassword(a, u)
  PROVE  TypeOK'
<1>1. hashes' \in Nat /\ hashes + 1 \in Nat
  BY DEF TeamPassword, TypeOK
<1>2. users[u] \in Account
  BY DEF TeamPassword, TypeOK, Exists
<1>3. [users[u] EXCEPT !.password = hashes + 1] \in Account
  BY <1>1, <1>2 DEF Account
<1>4. users' = [users EXCEPT ![u] = [users[u] EXCEPT !.password = hashes + 1]]
  BY DEF TeamPassword
<1>5. users' \in [Users -> Account \cup {NoAccount}]
  BY <1>3, <1>4 DEF TypeOK
<1>6. request' \in [Slots -> Request]
  BY RaceTyped DEF TeamPassword
<1> QED
  BY <1>1, <1>5, <1>6 DEF TeamPassword, TypeOK

LEMMA TeamEmailTyped ==
  ASSUME TypeOK, NEW a \in Users, NEW u \in Users, NEW e \in Emails \cup {NoEmail},
         TeamEmail(a, u, e)
  PROVE  TypeOK'
<1>1. users[u] \in Account
  BY DEF TeamEmail, TypeOK, Exists
<1>2. PICK b \in BOOLEAN : b = OpenElsewhere(u, e)
  BY OpenElsewhereTyped
<1> DEFINE a1 == [users[u] EXCEPT !.email = e]
           a2 == [a1 EXCEPT !.verified = FALSE]
           a3 == [a2 EXCEPT !.moved = b]
<1>3. a3 \in Account
  BY <1>1 DEF Account
<1>7. users' = [users EXCEPT ![u] = a3]
  BY <1>2 DEF TeamEmail, TypeOK
<1>4. users' \in [Users -> Account \cup {NoAccount}]
  <2> HIDE DEF a3
  <2> QED
    BY <1>3, <1>7 DEF TypeOK
<1>5. links' \in Seq(Link)
  <2>1. CASE e = NoEmail \/ ~EmailEnabled
    BY <2>1 DEF TeamEmail, SendVerification, TypeOK
  <2>2. CASE e # NoEmail /\ EmailEnabled
    BY <2>2, IssueTyped DEF TeamEmail, SendVerification, Purposes
  <2> QED
    BY <2>1, <2>2
<1> QED
  BY <1>4, <1>5 DEF TeamEmail, TypeOK

LEMMA TeamLinksTyped ==
  ASSUME TypeOK, NEW a \in Users, NEW u \in Users,
         ResendInvite(a, u) \/ TeamVerifyEmail(a, u) \/ TeamDelete(a, u)
  PROVE  TypeOK'
<1>1. CASE ResendInvite(a, u) \/ TeamVerifyEmail(a, u)
  <2>1. users[u].email \in Emails
    BY <1>1 DEF ResendInvite, TeamVerifyEmail, TypeOK, Exists, Account
  <2>2. links' \in Seq(Link)
    BY <1>1, <2>1, IssueTyped DEF ResendInvite, TeamVerifyEmail, Purposes
  <2> QED
    BY <1>1, <2>2 DEF ResendInvite, TeamVerifyEmail, TypeOK
<1>2. CASE TeamDelete(a, u)
  BY <1>2 DEF TeamDelete, TypeOK
<1> QED
  BY <1>1, <1>2

(* Links. *)
LEMMA VerifyEmailTyped ==
  ASSUME TypeOK, NEW l \in DOMAIN links, VerifyEmail(l)
  PROVE  TypeOK'
<1>1. links' \in Seq(Link)
  BY ConsumeTyped DEF VerifyEmail
<1>2. links[l].user \in Users /\ links[l].email \in Emails
  BY LinkTyped DEF Link
<1>3. answered' \subseteq Users \X Emails
  BY <1>2 DEF VerifyEmail, Opens, TypeOK
<1>4. users' \in [Users -> Account \cup {NoAccount}]
  <2> DEFINE u == links[l].user
  <2>1. CASE Exists(u)
    <3>1. PICK a \in Account : a = users[u]
      BY <1>2, <2>1 DEF Exists, TypeOK
    <3>2. [a EXCEPT !.verified = TRUE] \in Account
      BY DEF Account
    <3> QED
      BY <1>2, <3>1, <3>2 DEF VerifyEmail, Confirmed, TypeOK
  <2>2. CASE ~Exists(u)
    BY <2>2 DEF VerifyEmail, Confirmed, TypeOK
  <2> QED
    BY <2>1, <2>2
<1> QED
  BY <1>1, <1>3, <1>4 DEF VerifyEmail, TypeOK

LEMMA AcceptBeginTyped ==
  ASSUME TypeOK, NEW r \in Slots, NEW l \in DOMAIN links, AcceptBegin(r, l)
  PROVE  TypeOK'
<1>1. links' \in Seq(Link)
  BY ConsumeTyped DEF AcceptBegin
<1>2. links[l].user \in Users /\ links[l].email \in Emails
  BY LinkTyped DEF Link
<1>3. answered' \subseteq Users \X Emails
  BY <1>2 DEF AcceptBegin, Opens, TypeOK
<1>4. l \in Nat
  BY DEF TypeOK
<1>5. [NoRequest EXCEPT !.at = "accepting", !.user = links[l].user, !.link = l] \in Request
  BY <1>2, <1>4 DEF NoRequest, Request, Stages, NoHash
<1>6. request' \in [Slots -> Request]
  BY <1>5 DEF AcceptBegin, Begin, TypeOK
<1> QED
  BY <1>1, <1>3, <1>6 DEF AcceptBegin, TypeOK

LEMMA AcceptEndsTyped ==
  ASSUME TypeOK, RequestsHold, NEW r \in Slots, AcceptEnds(r)
  PROVE  TypeOK'
<1> DEFINE u == request[r].user
<1>0. u \in Users
  BY Awaiter DEF AcceptEnds, Awaits
<1>1. u \in Users /\ hashes' \in Nat /\ hashes' = hashes + 1
  BY <1>0 DEF AcceptEnds, TypeOK
<1>2. users' \in [Users -> Account \cup {NoAccount}]
  <2>1. CASE Exists(u)
    <3>1. [[users[u] EXCEPT !.password = hashes + 1] EXCEPT !.verified = TRUE] \in Account
      BY <1>1, <2>1 DEF Exists, TypeOK, Account
    <3>2. users' = [users EXCEPT ![u] =
                      [[users[u] EXCEPT !.password = hashes + 1] EXCEPT !.verified = TRUE]]
      BY <1>1, <2>1 DEF AcceptEnds, TypeOK
    <3> QED
      BY <3>1, <3>2 DEF TypeOK
  <2>2. CASE ~Exists(u)
    BY <2>2 DEF AcceptEnds, TypeOK
  <2> QED
    BY <2>1, <2>2
<1>3. links' \in Seq(Link)
  <2>1. DOMAIN links' = DOMAIN links /\ links' = [i \in DOMAIN links |-> links'[i]]
    BY DEF AcceptEnds
  <2>2. ASSUME NEW i \in DOMAIN links
        PROVE  links'[i] \in Link
    <3>1. links'[i] \in {links[i], [links[i] EXCEPT !.good = FALSE]}
      BY DEF AcceptEnds
    <3> QED
      BY <3>1, LinkTyped, Burnt
  <2> QED
    BY <2>1, <2>2, SeqUpdate DEF TypeOK
<1>4. sessions' \subseteq Session
  <2>1. SessionOf(users', u, hashes + 1, FALSE) \subseteq Session
    BY <1>1, <1>2, SessionTyped
  <2> QED
    BY <2>1 DEF AcceptEnds, TypeOK
<1>5. request' \in [Slots -> Request]
  BY <1>1, RaceTyped DEF AcceptEnds
<1> QED
  BY <1>1, <1>2, <1>3, <1>4, <1>5 DEF AcceptEnds, TypeOK

LEMMA ForgotTyped ==
  ASSUME TypeOK, NEW e \in Emails, NEW ip \in Ips, Forgot(e, ip)
  PROVE  TypeOK'
<1>1. <<"setup", ip>> \in Buckets
  BY DEF Buckets
<1>2. failures' \in [Buckets -> Nat]
  BY <1>1, ThrottleTyped DEF Forgot, TypeOK
<1>3. links' \in Seq(Link)
  <2>1. CASE UNCHANGED links
    BY <2>1 DEF TypeOK
  <2>2. ASSUME NEW u \in Users, Issue(u, "reset", e)
        PROVE  links' \in Seq(Link)
    BY <2>2, IssueTyped DEF Purposes
  <2> QED
    BY <2>1, <2>2 DEF Forgot
<1> QED
  BY <1>2, <1>3 DEF Forgot, TypeOK

LEMMA TimeTyped ==
  ASSUME TypeOK,
         (\E l \in DOMAIN links : LinkExpires(l)) \/ (\E b \in Buckets : FailureAges(b))
  PROVE  TypeOK'
<1>1. ASSUME NEW l \in DOMAIN links, LinkExpires(l)
      PROVE  TypeOK'
  <2>1. \A i \in DOMAIN links : links'[i] \in {links[i], [links[i] EXCEPT !.good = FALSE]}
    BY <1>1 DEF LinkExpires
  <2>2. \A i \in DOMAIN links : links'[i] \in Link
    BY <2>1, LinkTyped, Burnt
  <2>3. links' \in Seq(Link)
    BY <1>1, <2>2, SeqUpdate DEF LinkExpires, TypeOK
  <2> QED
    BY <1>1, <2>3 DEF LinkExpires, TypeOK
<1>2. ASSUME NEW b \in Buckets, FailureAges(b)
      PROVE  TypeOK'
  <2>1. failures' \in [Buckets -> Nat]
    BY <1>2 DEF FailureAges, Ages, TypeOK
  <2> QED
    BY <1>2, <2>1 DEF FailureAges, TypeOK, tables
<1> QED
  BY <1>1, <1>2

-----------------------------------------------------------------------------
(* What the actions do to the accounts, the links and the requests. *)

(* The accounts but for one field or two. *)
SameAccount(v) ==
  /\ Exists(v)' <=> Exists(v)
  /\ Exists(v) => /\ users'[v].password = users[v].password
                  /\ users'[v].admin = users[v].admin
                  /\ users'[v].email = users[v].email
                  /\ users'[v].moved = users[v].moved

LEMMA AccountExists ==
  ASSUME TypeOK, NEW v \in Users
  PROVE  /\ Exists(v) <=> users[v] \in Account
         /\ Exists(v) => users[v] \in Account
  BY DEF TypeOK, Exists

LEMMA SetupWritesUser ==
  ASSUME TypeOK, RequestsHold, NEW r \in Slots, SetupWrites(r),
         NEW u, u = request[r].user
  PROVE  /\ u \in Users /\ Exists(u)'
         /\ users'[u].password = hashes + 1 /\ users'[u].admin
         /\ users'[u].email = request[r].email
         /\ users'[u].verified = request[r].verified
         /\ users'[u].moved <=> OpenElsewhere(u, request[r].email) \/ request[r].moved
         /\ \A v \in Users \ {u} : users'[v] = users[v]
<1> DEFINE strays == OpenElsewhere(u, request[r].email) \/ request[r].moved
           a == [password |-> hashes + 1, admin |-> TRUE, email |-> request[r].email,
                 verified |-> request[r].verified, moved |-> strays]
<1>1. u \in Users
  BY Awaiter DEF SetupWrites, Awaits
<1>2. users' = [users EXCEPT ![u] = a]
  BY DEF SetupWrites
<1>3. a \in Account
  <2>1. request[r] \in Request /\ hashes + 1 \in Nat
    BY DEF TypeOK
  <2>2. strays \in BOOLEAN
    OBVIOUS
  <2> HIDE DEF strays
  <2> QED
    BY <2>1, <2>2 DEF Request, Account
<1>4. users'[u] = a
  BY <1>1, <1>2 DEF TypeOK
<1>5. users'[u] # NoAccount
  BY <1>3, <1>4
<1>6. \A v \in Users \ {u} : users'[v] = users[v]
  BY <1>2 DEF TypeOK
<1>7. /\ a.password = hashes + 1 /\ a.admin /\ a.email = request[r].email
      /\ a.verified = request[r].verified
  OBVIOUS
<1>8. a.moved <=> OpenElsewhere(u, request[r].email) \/ request[r].moved
  <2> HIDE DEF strays
  <2>1. a.moved <=> strays
    OBVIOUS
  <2> QED
    BY <2>1 DEF strays
<1> HIDE DEF a
<1> QED
  BY <1>1, <1>4, <1>5, <1>6, <1>7, <1>8 DEF Exists

LEMMA TeamAddUser ==
  ASSUME TypeOK, NEW a \in Users, NEW u \in Users, NEW e \in Emails \cup {NoEmail},
         NEW admin \in BOOLEAN, TeamAdd(a, u, e, admin)
  PROVE  /\ Exists(u)' /\ users'[u].email = e /\ ~users'[u].verified
         /\ users'[u].moved <=> OpenElsewhere(u, e)
         /\ \A v \in Users \ {u} : users'[v] = users[v]
<1> DEFINE new == [password |-> IF e # NoEmail /\ EmailEnabled THEN NoHash ELSE hashes + 1,
                   admin |-> admin, email |-> e, verified |-> FALSE,
                   moved |-> OpenElsewhere(u, e)]
<1>1. users' = [users EXCEPT ![u] = new]
  BY DEF TeamAdd
<1>2. new \in Account
  <2>1. NoHash \in Nat /\ hashes + 1 \in Nat
    BY DEF NoHash, TypeOK
  <2> QED
    BY <2>1, OpenElsewhereTyped DEF Account
<1>3. users'[u] = new
  BY <1>1 DEF TypeOK
<1> QED
  BY <1>1, <1>2, <1>3 DEF TypeOK, Exists

LEMMA TeamPasswordUser ==
  ASSUME TypeOK, NEW a \in Users, NEW u \in Users, TeamPassword(a, u)
  PROVE  /\ Exists(u)' /\ users'[u].admin = users[u].admin
         /\ users'[u].email = users[u].email /\ users'[u].verified = users[u].verified
         /\ users'[u].moved = users[u].moved
         /\ \A v \in Users \ {u} : users'[v] = users[v]
<1>1. users[u] \in Account
  BY DEF TeamPassword, TypeOK, Exists
<1>2. users'[u] = [users[u] EXCEPT !.password = hashes + 1]
  BY DEF TeamPassword, TypeOK
<1>3. users'[u] \in Account
  <2>1. hashes + 1 \in Nat
    BY DEF TypeOK
  <2> QED
    BY <1>1, <1>2, <2>1 DEF Account
<1> QED
  BY <1>1, <1>2, <1>3 DEF TeamPassword, TypeOK, Exists, Account

LEMMA TeamEmailUser ==
  ASSUME TypeOK, NEW a \in Users, NEW u \in Users, NEW e \in Emails \cup {NoEmail},
         TeamEmail(a, u, e)
  PROVE  /\ Exists(u) /\ Exists(u)' /\ users'[u].password = users[u].password
         /\ users'[u].admin = users[u].admin
         /\ users'[u].email = e /\ ~users'[u].verified
         /\ users'[u].moved <=> OpenElsewhere(u, e)
         /\ \A v \in Users \ {u} : users'[v] = users[v]
<1>1. users[u] \in Account
  BY DEF TeamEmail, TypeOK, Exists
<1>2. PICK b \in BOOLEAN : b = OpenElsewhere(u, e)
  BY OpenElsewhereTyped
<1> DEFINE a1 == [users[u] EXCEPT !.email = e]
           a2 == [a1 EXCEPT !.verified = FALSE]
           a3 == [a2 EXCEPT !.moved = b]
<1>3. users' = [users EXCEPT ![u] = a3]
  BY <1>2 DEF TeamEmail, TypeOK
<1>4. /\ a3 \in Account /\ a3.password = users[u].password /\ a3.admin = users[u].admin
      /\ a3.email = e /\ ~a3.verified /\ a3.moved = b
  BY <1>1 DEF Account
<1>5. /\ users'[u] = a3 /\ \A v \in Users \ {u} : users'[v] = users[v]
  <2> HIDE DEF a3
  <2> QED
    BY <1>3 DEF TypeOK
<1>6. Exists(u) /\ users'[u] \in Account
  BY <1>4, <1>5 DEF TeamEmail
<1>7. Exists(u)'
  BY <1>6 DEF TypeOK, Exists
<1> HIDE DEF a3
<1> QED
  BY <1>2, <1>4, <1>5, <1>6, <1>7

LEMMA VerifyEmailUser ==
  ASSUME TypeOK, NEW l \in DOMAIN links, VerifyEmail(l), NEW v \in Users
  PROVE  /\ SameAccount(v)
         /\ Exists(v) /\ users'[v].verified =>
              \/ users[v].verified
              \/ v = links[l].user /\ users[v].email = links[l].email
<1> DEFINE u == links[l].user
<1>1. CASE v = u /\ Exists(u) /\ users[u].email = links[l].email
  <2>1. users[u] \in Account
    BY <1>1 DEF Exists, TypeOK
  <2>2. users'[u] = [users[u] EXCEPT !.verified = TRUE]
    BY <1>1 DEF VerifyEmail, Confirmed, TypeOK
  <2>3. users'[u] \in Account
    BY <2>1, <2>2 DEF Account
  <2> QED
    BY <1>1, <2>1, <2>2, <2>3 DEF SameAccount, Exists, Account
<1>2. CASE ~(v = u /\ Exists(u) /\ users[u].email = links[l].email)
  <2>1. users'[v] = users[v]
    BY <1>2 DEF VerifyEmail, Confirmed, TypeOK
  <2> QED
    BY <2>1 DEF SameAccount, Exists
<1> QED
  BY <1>1, <1>2

LEMMA AcceptEndsUser ==
  ASSUME TypeOK, RequestsHold, NEW r \in Slots, AcceptEnds(r),
         NEW u, u = request[r].user
  PROVE  /\ u \in Users /\ (Exists(u)' <=> Exists(u))
         /\ Exists(u) => /\ users'[u].password = hashes + 1
                         /\ users'[u].admin = users[u].admin
                         /\ users'[u].email = users[u].email
                         /\ users'[u].moved = users[u].moved
         /\ \A v \in Users \ {u} : users'[v] = users[v]
<1>1. u \in Users
  BY Awaiter DEF AcceptEnds, Awaits
<1>2. CASE Exists(u)
  <2>1. users[u] \in Account
    BY <1>1, <1>2 DEF Exists, TypeOK
  <2>2. users' = [users EXCEPT ![u] =
                    [[users[u] EXCEPT !.password = hashes + 1] EXCEPT !.verified = TRUE]]
    BY <1>1, <1>2 DEF AcceptEnds, TypeOK
  <2>3. users'[u] = [[users[u] EXCEPT !.password = hashes + 1] EXCEPT !.verified = TRUE]
    BY <1>1, <2>2 DEF TypeOK
  <2>4. hashes + 1 \in Nat
    BY DEF TypeOK
  <2>5. users'[u] \in Account
    BY <2>1, <2>3, <2>4 DEF Account
  <2>6. /\ users'[u].password = hashes + 1 /\ users'[u].admin = users[u].admin
        /\ users'[u].email = users[u].email /\ users'[u].moved = users[u].moved
    BY <2>1, <2>3 DEF Account
  <2>7. \A v \in Users \ {u} : users'[v] = users[v]
    BY <2>2 DEF TypeOK
  <2> QED
    BY <1>1, <1>2, <2>5, <2>6, <2>7 DEF Exists
<1>3. CASE ~Exists(u)
  <2>1. users' = users
    BY <1>3 DEF AcceptEnds
  <2> QED
    BY <1>1, <1>3, <2>1 DEF Exists
<1> QED
  BY <1>2, <1>3

(* Links: who they are for never changes, and none becomes good again.      *)
Follows(l) ==
  /\ l \in DOMAIN links'
  /\ links'[l].user = links[l].user /\ links'[l].purpose = links[l].purpose
  /\ links'[l].email = links[l].email
  /\ links'[l].good => links[l].good /\ links'[l].opened = links[l].opened
  /\ links'[l].opened # links[l].opened =>
       links[l].good /\ links'[l].opened = links[l].opened + 1

LEMMA IssueLinks ==
  ASSUME TypeOK, NEW u, NEW p, NEW e, Issue(u, p, e)
  PROVE  /\ \A l \in DOMAIN links : Follows(l)
         /\ \A l \in DOMAIN links' \ DOMAIN links :
              /\ links'[l].user = u /\ links'[l].purpose = p
              /\ links'[l].email = e /\ links'[l].opened = 0
<1>1. \A l \in DOMAIN links : l \in DOMAIN links' /\ links'[l] = links[l]
  BY DEF Issue, TypeOK
<1>2. DOMAIN links' \ DOMAIN links = {Len(links) + 1}
  BY DEF Issue, TypeOK
<1>3. links'[Len(links) + 1] = [user |-> u, purpose |-> p, email |-> e,
                               good |-> TRUE, opened |-> 0]
  BY DEF Issue, TypeOK
<1> QED
  BY <1>1, <1>2, <1>3 DEF Follows

LEMMA ConsumeLinks ==
  ASSUME TypeOK, NEW l \in DOMAIN links, links[l].good, links' = Consume(l)
  PROVE  /\ \A k \in DOMAIN links : Follows(k)
         /\ DOMAIN links' = DOMAIN links
<1> DEFINE used == [[links[l] EXCEPT !.good = FALSE] EXCEPT !.opened = links[l].opened + 1]
<1>1. links' = [links EXCEPT ![l] = used]
  BY DEF Consume
<1>2. DOMAIN links' = DOMAIN links
  BY <1>1
<1>3. \A k \in DOMAIN links \ {l} : links'[k] = links[k]
  BY <1>1
<1>4. links'[l] = used
  BY <1>1
<1>5. links[l] \in Link
  BY LinkTyped
<1>6. /\ used.user = links[l].user /\ used.purpose = links[l].purpose
      /\ used.email = links[l].email /\ ~used.good
      /\ used.opened = links[l].opened + 1
  BY <1>5 DEF Link
<1>7. Follows(l)
  BY <1>2, <1>4, <1>6 DEF Follows
<1> QED
  BY <1>2, <1>3, <1>7 DEF Follows

LEMMA AcceptEndsLinks ==
  ASSUME TypeOK, NEW r \in Slots, AcceptEnds(r)
  PROVE  /\ \A l \in DOMAIN links : Follows(l)
         /\ DOMAIN links' = DOMAIN links
<1>1. DOMAIN links' = DOMAIN links
  BY DEF AcceptEnds
<1>2. ASSUME NEW l \in DOMAIN links
      PROVE  Follows(l)
  <2>1. links'[l] = links[l] \/ links'[l] = [links[l] EXCEPT !.good = FALSE]
    BY DEF AcceptEnds
  <2>2. links[l] \in Link
    BY LinkTyped
  <2> QED
    BY <1>1, <2>1, <2>2 DEF Follows, Link
<1> QED
  BY <1>1, <1>2

LEMMA LinkExpiresLinks ==
  ASSUME TypeOK, NEW k \in DOMAIN links, LinkExpires(k)
  PROVE  /\ \A l \in DOMAIN links : Follows(l)
         /\ DOMAIN links' = DOMAIN links
<1>1. DOMAIN links' = DOMAIN links
  BY DEF LinkExpires
<1>2. ASSUME NEW l \in DOMAIN links
      PROVE  Follows(l)
  <2>1. links'[l] = links[l] \/ links'[l] = [links[l] EXCEPT !.good = FALSE]
    BY DEF LinkExpires
  <2>2. links[l] \in Link
    BY LinkTyped
  <2> QED
    BY <1>1, <2>1, <2>2 DEF Follows, Link
<1> QED
  BY <1>1, <1>2

LEMMA SameLinks ==
  ASSUME UNCHANGED links
  PROVE  (\A l \in DOMAIN links : Follows(l)) /\ DOMAIN links' = DOMAIN links
  BY DEF Follows

(* Every action in turn: old links follow, a new one is unopened and, if it *)
(* will set a password, was sent to the address its account has by then.    *)
Fresh(l) ==
  /\ links'[l].opened = 0
  /\ links'[l].purpose # "verify" => users'[links'[l].user].email = links'[l].email

LinksGrow ==
  /\ \A l \in DOMAIN links : Follows(l)
  /\ \A l \in DOMAIN links' \ DOMAIN links : Fresh(l)

LEMMA TeamLinksGrow ==
  ASSUME TypeOK, NEW a \in Users, NEW u \in Users,
         \/ ResendInvite(a, u) \/ TeamVerifyEmail(a, u)
         \/ TeamDelete(a, u) \/ TeamPassword(a, u)
         \/ \E e \in Emails \cup {NoEmail} :
              TeamEmail(a, u, e) \/ \E admin \in BOOLEAN : TeamAdd(a, u, e, admin)
  PROVE  LinksGrow
<1>1. CASE ResendInvite(a, u) \/ TeamVerifyEmail(a, u)
  <2>1. users' = users /\ \E p : Issue(u, p, users[u].email)
    BY <1>1 DEF ResendInvite, TeamVerifyEmail
  <2> QED
    BY <2>1, IssueLinks DEF LinksGrow, Fresh
<1>2. CASE TeamDelete(a, u) \/ TeamPassword(a, u)
  BY <1>2, SameLinks DEF TeamDelete, TeamPassword, LinksGrow
<1>3. ASSUME NEW e \in Emails \cup {NoEmail}, TeamEmail(a, u, e)
      PROVE  LinksGrow
  <2>1. UNCHANGED links \/ Issue(u, "verify", e)
    BY <1>3 DEF TeamEmail, SendVerification
  <2> QED
    BY <2>1, IssueLinks, SameLinks DEF LinksGrow, Fresh
<1>4. ASSUME NEW e \in Emails \cup {NoEmail}, NEW admin \in BOOLEAN,
             TeamAdd(a, u, e, admin)
      PROVE  LinksGrow
  <2>1. UNCHANGED links \/ Issue(u, "invite", e)
    BY <1>4 DEF TeamAdd
  <2>2. users'[u].email = e
    BY <1>4, TeamAddUser
  <2> QED
    BY <2>1, <2>2, IssueLinks, SameLinks DEF LinksGrow, Fresh
<1> QED
  BY <1>1, <1>2, <1>3, <1>4

LEMMA RequestLinksGrow ==
  ASSUME TypeOK, RequestsHold, NEW r \in Slots,
         \/ LoginFails(r) \/ LoginSucceeds(r)
         \/ \E u \in Users, ip \in Ips, ok \in BOOLEAN : LoginBegin(r, u, ip, ok)
         \/ \E u \in Users, e \in Emails \cup {NoEmail}, ip \in Ips :
              SetupBegin(r, u, e, ip)
         \/ SetupWrites(r) \/ SetupEnds(r)
         \/ \E l \in DOMAIN links : AcceptBegin(r, l)
         \/ AcceptEnds(r)
  PROVE  LinksGrow
<1>1. CASE \/ LoginFails(r) \/ LoginSucceeds(r) \/ SetupEnds(r)
           \/ \E u \in Users, ip \in Ips, ok \in BOOLEAN : LoginBegin(r, u, ip, ok)
           \/ \E u \in Users, e \in Emails \cup {NoEmail}, ip \in Ips :
                SetupBegin(r, u, e, ip)
  <2>1. UNCHANGED links
    BY <1>1 DEF LoginFails, LoginSucceeds, SetupEnds, LoginBegin, SetupBegin, tables
  <2> QED
    BY <2>1, SameLinks DEF LinksGrow
<1>2. CASE SetupWrites(r)
  <2>1. UNCHANGED links \/ Issue(request[r].user, "verify", request[r].email)
    BY <1>2 DEF SetupWrites
  <2> QED
    BY <2>1, IssueLinks, SameLinks DEF LinksGrow, Fresh
<1>3. ASSUME NEW l \in DOMAIN links, AcceptBegin(r, l)
      PROVE  LinksGrow
  BY <1>3, ConsumeLinks DEF AcceptBegin, LinksGrow
<1>4. CASE AcceptEnds(r)
  BY <1>4, AcceptEndsLinks DEF LinksGrow
<1> QED
  BY <1>1, <1>2, <1>3, <1>4

LEMMA OtherLinksGrow ==
  ASSUME TypeOK,
         \/ \E ip \in Ips : \/ SetupWrongCode(ip) \/ SetupRefused(ip)
                            \/ \E e \in Emails : Forgot(e, ip)
         \/ \E l \in DOMAIN links : VerifyEmail(l) \/ LinkExpires(l)
         \/ \E b \in Buckets : FailureAges(b)
         \/ UNCHANGED vars
  PROVE  LinksGrow
<1>1. CASE \/ \E ip \in Ips : SetupWrongCode(ip) \/ SetupRefused(ip)
           \/ \E b \in Buckets : FailureAges(b)
           \/ UNCHANGED vars
  <2>1. UNCHANGED links
    BY <1>1 DEF SetupWrongCode, SetupRefused, FailureAges, tables, vars
  <2> QED
    BY <2>1, SameLinks DEF LinksGrow
<1>2. ASSUME NEW ip \in Ips, NEW e \in Emails, Forgot(e, ip)
      PROVE  LinksGrow
  <2>1. users' = users
    BY <1>2 DEF Forgot
  <2>2. CASE UNCHANGED links
    BY <2>2, SameLinks DEF LinksGrow
  <2>3. ASSUME NEW u \in Users, users[u].email = e, Issue(u, "reset", e)
        PROVE  LinksGrow
    BY <2>1, <2>3, IssueLinks DEF LinksGrow, Fresh
  <2> QED
    BY <1>2, <2>2, <2>3 DEF Forgot
<1>3. ASSUME NEW l \in DOMAIN links, VerifyEmail(l) \/ LinkExpires(l)
      PROVE  LinksGrow
  BY <1>3, ConsumeLinks, LinkExpiresLinks DEF VerifyEmail, LinksGrow
<1> QED
  BY <1>1, <1>2, <1>3

LEMMA StepLinksGrow ==
  ASSUME TypeOK, RequestsHold, [Next]_vars
  PROVE  LinksGrow
  BY TeamLinksGrow, RequestLinksGrow, OtherLinksGrow DEF Next

LEMMA OpenOnceStep ==
  ASSUME TypeOK, TypeOK', LinksOpenOnce, LinksGrow
  PROVE  LinksOpenOnce'
<1> SUFFICES ASSUME NEW l \in DOMAIN links'
             PROVE  links'[l].opened + (IF links'[l].good THEN 1 ELSE 0) <= 1
  BY DEF LinksOpenOnce
<1>1. CASE l \in DOMAIN links
  <2>1. links[l].opened \in Nat /\ links'[l].opened \in Nat
    <3>1. links[l] \in Link /\ links'[l] \in Link
      BY <1>1 DEF TypeOK
    <3> QED
      BY <3>1 DEF Link
  <2>2. links[l].opened + (IF links[l].good THEN 1 ELSE 0) <= 1
    BY <1>1 DEF LinksOpenOnce
  <2> QED
    BY <1>1, <2>1, <2>2 DEF LinksGrow, Follows
<1>2. CASE l \notin DOMAIN links
  BY <1>2 DEF LinksGrow, Fresh
<1> QED
  BY <1>1, <1>2

-----------------------------------------------------------------------------
(* Administrators. *)

(* Where no account appears, none disappears and nobody is demoted, whoever *)
(* administered still does.                                                 *)
LEMMA AdminsStay ==
  ASSUME SomebodyAdministers, \A v \in Users : SameAccount(v)
  PROVE  SomebodyAdministers'
  BY DEF SomebodyAdministers, Admins, SameAccount

LEMMA AdminsWithout ==
  ASSUME NEW u \in Users, Exists(u)', users'[u].admin
  PROVE  SomebodyAdministers'
  BY DEF SomebodyAdministers, Admins

LEMMA SignedInExists ==
  ASSUME NEW a \in Users, SignedIn(a)
  PROVE  Exists(a)
  BY DEF SignedIn, Honoured

LEMMA RequestUsers ==
  ASSUME TypeOK, RequestsHold, NEW r \in Slots,
         \/ LoginFails(r) \/ LoginSucceeds(r) \/ SetupEnds(r)
         \/ \E u \in Users, ip \in Ips, ok \in BOOLEAN : LoginBegin(r, u, ip, ok)
         \/ \E u \in Users, e \in Emails \cup {NoEmail}, ip \in Ips :
              SetupBegin(r, u, e, ip)
         \/ \E l \in DOMAIN links : AcceptBegin(r, l)
  PROVE  users' = users
  BY DEF LoginFails, LoginSucceeds, SetupEnds, LoginBegin, SetupBegin, AcceptBegin, tables

LEMMA OtherUsers ==
  ASSUME \/ \E ip \in Ips : \/ SetupWrongCode(ip) \/ SetupRefused(ip)
                            \/ \E e \in Emails : Forgot(e, ip)
         \/ \E l \in DOMAIN links : LinkExpires(l)
         \/ \E b \in Buckets : FailureAges(b)
         \/ \E a, u \in Users : ResendInvite(a, u) \/ TeamVerifyEmail(a, u)
         \/ UNCHANGED vars
  PROVE  users' = users
  BY DEF SetupWrongCode, SetupRefused, Forgot, LinkExpires, FailureAges, ResendInvite,
         TeamVerifyEmail, tables, vars

LEMMA AdminsStep ==
  ASSUME TypeOK, RequestsHold, SomebodyAdministers, [Next]_vars
  PROVE  SomebodyAdministers'
<1>1. CASE users' = users
  BY <1>1 DEF SomebodyAdministers, Admins, Exists
<1>2. ASSUME NEW r \in Slots, SetupWrites(r)
      PROVE  SomebodyAdministers'
  BY <1>2, SetupWritesUser, AdminsWithout
<1>3. ASSUME NEW r \in Slots, AcceptEnds(r)
      PROVE  SomebodyAdministers'
  <2>1. PICK u : u = request[r].user
    OBVIOUS
  <2>2. \A v \in Users : /\ Exists(v)' <=> Exists(v)
                         /\ Exists(v) => users'[v].admin = users[v].admin
    BY <1>3, <2>1, AcceptEndsUser DEF Exists
  <2> QED
    BY <2>2 DEF SomebodyAdministers, Admins
<1>4. ASSUME NEW a \in Users, NEW u \in Users, NEW e \in Emails \cup {NoEmail},
             NEW admin \in BOOLEAN, TeamAdd(a, u, e, admin)
      PROVE  SomebodyAdministers'
  <2>1. Exists(a) /\ users[a].admin /\ ~Exists(u)
    BY <1>4, SignedInExists DEF TeamAdd
  <2>2. a # u /\ users'[a] = users[a]
    BY <1>4, <2>1, TeamAddUser
  <2>3. Exists(a)'
    BY <2>1, <2>2 DEF Exists
  <2> QED
    BY <2>1, <2>2, <2>3, AdminsWithout
<1>5. ASSUME NEW a \in Users, NEW u \in Users, NEW e \in Emails \cup {NoEmail},
             TeamEmail(a, u, e)
      PROVE  SomebodyAdministers'
  <2>1. \A v \in Users : /\ Exists(v)' <=> Exists(v)
                         /\ Exists(v) => users'[v].admin = users[v].admin
    BY <1>5, TeamEmailUser DEF Exists
  <2> QED
    BY <2>1 DEF SomebodyAdministers, Admins
<1>6. ASSUME NEW a \in Users, NEW u \in Users, TeamPassword(a, u)
      PROVE  SomebodyAdministers'
  <2>1. \A v \in Users : /\ Exists(v)' <=> Exists(v)
                         /\ Exists(v) => users'[v].admin = users[v].admin
    BY <1>6, TeamPasswordUser DEF Exists, TeamPassword
  <2> QED
    BY <2>1 DEF SomebodyAdministers, Admins
<1>7. ASSUME NEW a \in Users, NEW u \in Users, TeamDelete(a, u)
      PROVE  SomebodyAdministers'
  <2>1. Exists(a) /\ users[a].admin /\ a # u
    BY <1>7, SignedInExists DEF TeamDelete, Deletable
  <2>2. users'[a] = users[a]
    BY <1>7, <2>1 DEF TeamDelete, TypeOK
  <2> QED
    BY <2>1, <2>2, AdminsWithout DEF Exists
<1>8. ASSUME NEW l \in DOMAIN links, VerifyEmail(l)
      PROVE  SomebodyAdministers'
  BY <1>8, VerifyEmailUser, AdminsStay
<1> QED
  BY <1>1, <1>2, <1>3, <1>4, <1>5, <1>6, <1>7, <1>8, RequestUsers, OtherUsers DEF Next

-----------------------------------------------------------------------------
(* Sessions. *)

LEMMA SessionBinds ==
  ASSUME NEW t, NEW u, NEW k, NEW b,
         t[u] # NoAccount => b \/ k = t[u].password,
         NEW s \in SessionOf(t, u, k, b)
  PROVE  s.knew = s.credential \/ s.raced
  BY DEF SessionOf

LEMMA SessionsStep ==
  ASSUME TypeOK, RequestsHold, SessionsBind, [Next]_vars
  PROVE  SessionsBind'
<1>1. CASE sessions' = sessions
  BY <1>1 DEF SessionsBind
<1>2. ASSUME NEW r \in Slots, LoginSucceeds(r)
      PROVE  SessionsBind'
  <2> DEFINE u == request[r].user
  <2>1. Exists(u) => request[r].raced \/ request[r].knew = users[u].password
    BY <1>2 DEF LoginSucceeds, Awaits, RequestsHold, Holds
  <2>2. \A s \in SessionOf(users, u, request[r].knew, request[r].raced) :
          s.knew = s.credential \/ s.raced
    BY <2>1, SessionBinds DEF Exists
  <2> QED
    BY <1>2, <2>2 DEF LoginSucceeds, SessionsBind
<1>3. ASSUME NEW r \in Slots, SetupEnds(r)
      PROVE  SessionsBind'
  <2> DEFINE u == request[r].user
  <2>1. Exists(u) => request[r].raced \/ request[r].knew = users[u].password
    BY <1>3 DEF SetupEnds, Awaits, RequestsHold, Holds
  <2>2. \A s \in SessionOf(users, u, request[r].knew, request[r].raced) :
          s.knew = s.credential \/ s.raced
    BY <2>1, SessionBinds DEF Exists
  <2> QED
    BY <1>3, <2>2 DEF SetupEnds, SessionsBind
<1>4. ASSUME NEW r \in Slots, SetupWrites(r)
      PROVE  SessionsBind'
  <2>1. PICK u : u = request[r].user
    OBVIOUS
  <2>2. users'[u].password = hashes + 1
    BY <1>4, <2>1, SetupWritesUser
  <2>3. \A s \in SessionOf(users', u, hashes + 1, FALSE) : s.knew = s.credential \/ s.raced
    BY <2>2, SessionBinds
  <2>4. sessions' = sessions \/ sessions' = sessions \cup SessionOf(users', u, hashes + 1, FALSE)
    BY <1>4, <2>1 DEF SetupWrites
  <2> QED
    BY <2>3, <2>4 DEF SessionsBind
<1>5. ASSUME NEW r \in Slots, AcceptEnds(r)
      PROVE  SessionsBind'
  <2>1. PICK u : u = request[r].user
    OBVIOUS
  <2>2. users'[u] # NoAccount => users'[u].password = hashes + 1
    BY <1>5, <2>1, AcceptEndsUser DEF Exists
  <2>3. \A s \in SessionOf(users', u, hashes + 1, FALSE) : s.knew = s.credential \/ s.raced
    BY <2>2, SessionBinds
  <2>4. sessions' = sessions \cup SessionOf(users', u, hashes + 1, FALSE)
    BY <1>5, <2>1 DEF AcceptEnds
  <2> QED
    BY <2>3, <2>4 DEF SessionsBind
<1>6. ASSUME NEW r \in Slots,
             \/ LoginFails(r)
             \/ \E u \in Users, ip \in Ips, ok \in BOOLEAN : LoginBegin(r, u, ip, ok)
             \/ \E u \in Users, e \in Emails \cup {NoEmail}, ip \in Ips :
                  SetupBegin(r, u, e, ip)
             \/ \E l \in DOMAIN links : AcceptBegin(r, l)
      PROVE  sessions' = sessions
  BY <1>6 DEF LoginFails, LoginBegin, SetupBegin, AcceptBegin
<1>7. ASSUME NEW a \in Users, NEW u \in Users,
             \/ \E e \in Emails \cup {NoEmail} :
                  (\E admin \in BOOLEAN : TeamAdd(a, u, e, admin)) \/ TeamEmail(a, u, e)
             \/ ResendInvite(a, u) \/ TeamDelete(a, u)
             \/ TeamPassword(a, u) \/ TeamVerifyEmail(a, u)
      PROVE  sessions' = sessions
  BY <1>7 DEF TeamAdd, TeamEmail, ResendInvite, TeamDelete, TeamPassword, TeamVerifyEmail
<1>8. ASSUME \/ \E ip \in Ips : \/ SetupWrongCode(ip) \/ SetupRefused(ip)
                                \/ \E e \in Emails : Forgot(e, ip)
             \/ \E l \in DOMAIN links : VerifyEmail(l) \/ LinkExpires(l)
             \/ \E b \in Buckets : FailureAges(b)
             \/ UNCHANGED vars
      PROVE  sessions' = sessions
  BY <1>8 DEF SetupWrongCode, SetupRefused, Forgot, VerifyEmail, LinkExpires, FailureAges, vars
<1> QED
  BY <1>1, <1>2, <1>3, <1>4, <1>5, <1>6, <1>7, <1>8 DEF Next

-----------------------------------------------------------------------------
(* Attempts. *)

SameLogin(q) ==
  /\ Awaits(q, "comparing")' <=> Awaits(q, "comparing")
  /\ Awaits(q, "comparing") => /\ request'[q].user = request[q].user
                               /\ request'[q].ip = request[q].ip
                               /\ request'[q].wiped = request[q].wiped

LEMMA StandsForFinite ==
  ASSUME NEW b \in Buckets
  PROVE  /\ IsFiniteSet(StandsFor(b)) /\ Cardinality(StandsFor(b)) \in Nat
         /\ StandsFor(b) \subseteq Slots
         /\ b[1] = "setup" => Cardinality(StandsFor(b)) = 0
<1>1. StandsFor(b) \subseteq Slots
  BY DEF StandsFor, Comparing
<1>2. IsFiniteSet(StandsFor(b))
  BY <1>1, FS_Subset
<1>3. b[1] = "setup" => StandsFor(b) = {}
  BY DEF StandsFor
<1> QED
  BY <1>1, <1>2, <1>3, FS_CardinalityType, FS_EmptySet

LEMMA Limits == \A b \in Buckets : LIMITS[b[1]] \in Nat \ {0}
  BY DEF Buckets, Scopes

LEMMA CountStays ==
  ASSUME TypeOK, AttemptsAreCounted, \A q \in Slots : SameLogin(q),
         \A b \in Buckets :
           \/ failures'[b] = failures[b]
           \/ b[1] = "setup" /\ failures'[b] \in 0..LIMITS[b[1]]
  PROVE  AttemptsAreCounted'
<1> SUFFICES ASSUME NEW b \in Buckets
             PROVE  /\ Cardinality(StandsFor(b)') <= failures'[b]
                    /\ failures'[b] <= LIMITS[b[1]]
  BY DEF AttemptsAreCounted
<1>1. StandsFor(b)' = StandsFor(b)
  BY DEF StandsFor, Comparing, SameLogin
<1>2. /\ Cardinality(StandsFor(b)) <= failures[b]
      /\ failures[b] <= LIMITS[b[1]]
  BY DEF AttemptsAreCounted
<1>3. CASE failures'[b] = failures[b]
  BY <1>1, <1>2, <1>3
<1>4. CASE b[1] = "setup" /\ failures'[b] \in 0..LIMITS[b[1]]
  <2>1. Cardinality(StandsFor(b)) = 0
    BY <1>4, StandsForFinite
  <2>2. LIMITS[b[1]] \in Nat
    BY Limits
  <2> QED
    BY <1>1, <1>4, <2>1, <2>2
<1> QED
  BY <1>3, <1>4

(* Where a request begins, ends or has its password replaced. *)
LEMMA OtherLogins ==
  ASSUME TypeOK, NEW u, NEW r \in Slots, ~Awaits(r, "comparing"),
         \/ request' = EndAndRace(r, u) \/ request' = Race(u)
         \/ /\ \A q \in Slots \ {r} : request'[q] = request[q]
            /\ request'[r].at # "comparing"
         \/ \E q : q.at # "comparing" /\ request' = [EndAndRace(r, u) EXCEPT ![r] = q]
  PROVE  \A q \in Slots : SameLogin(q)
<1>1. NoRequest.at # "comparing"
  BY DEF NoRequest
<1>2. \A q \in Slots : LET k == [request[q] EXCEPT !.raced = TRUE] IN
        /\ k.at = request[q].at /\ k.user = request[q].user
        /\ k.ip = request[q].ip /\ k.wiped = request[q].wiped
  BY DEF TypeOK, Request
<1>3. CASE request' = EndAndRace(r, u)
  BY <1>1, <1>2, <1>3 DEF EndAndRace, SameLogin, Awaits
<1>4. CASE request' = Race(u)
  BY <1>2, <1>4 DEF Race, SameLogin, Awaits
<1>5. ASSUME NEW x, x.at # "comparing", request' = [EndAndRace(r, u) EXCEPT ![r] = x]
      PROVE  \A q \in Slots : SameLogin(q)
  BY <1>1, <1>2, <1>5 DEF EndAndRace, SameLogin, Awaits
<1>6. CASE /\ \A q \in Slots \ {r} : request'[q] = request[q]
           /\ request'[r].at # "comparing"
  BY <1>6 DEF SameLogin, Awaits
<1> QED
  BY <1>3, <1>4, <1>5, <1>6

LEMMA LoginBeginCounts ==
  ASSUME TypeOK, AttemptsAreCounted, NEW r \in Slots, NEW u \in Users, NEW ip \in Ips,
         NEW ok \in BOOLEAN, LoginBegin(r, u, ip, ok)
  PROVE  AttemptsAreCounted'
<1> SUFFICES ASSUME NEW b \in Buckets
             PROVE  /\ Cardinality(StandsFor(b)') <= failures'[b]
                    /\ failures'[b] <= LIMITS[b[1]]
  BY DEF AttemptsAreCounted
<1>1. /\ Cardinality(StandsFor(b)) <= failures[b]
      /\ failures[b] <= LIMITS[b[1]] /\ failures[b] \in Nat /\ LIMITS[b[1]] \in Nat
  BY Limits DEF AttemptsAreCounted, TypeOK
<1>2. /\ \A q \in Slots \ {r} : request'[q] = request[q]
      /\ \/ request'[r] = request[r]
         \/ /\ request[r].at # "comparing"
            /\ request'[r].user = u /\ request'[r].ip = ip
  <2>1. CASE Exists(u)
    <3> DEFINE x == [NoRequest EXCEPT !.at = "comparing", !.user = u, !.ip = ip, !.ok = ok,
                      !.knew = IF ok THEN users[u].password ELSE NoHash]
    <3>1. Begin(r, x)
      BY <2>1 DEF LoginBegin
    <3>2. x.user = u /\ x.ip = ip
      BY DEF NoRequest
    <3> HIDE DEF x
    <3> QED
      BY <3>1, <3>2, Begins
  <2>2. CASE ~Exists(u)
    BY <2>2 DEF LoginBegin
  <2> QED
    BY <2>1, <2>2
<1>3. CASE b \in LoginBuckets(u, ip)
  <2>1. failures'[b] = failures[b] + 1 /\ failures[b] < LIMITS[b[1]]
    BY <1>1, <1>3 DEF LoginBegin, Reserved, Admitted, Full
  <2>2. StandsFor(b)' \subseteq StandsFor(b) \cup {r}
    BY <1>2 DEF StandsFor, Comparing, Awaits
  <2>3. /\ IsFiniteSet(StandsFor(b)) /\ Cardinality(StandsFor(b)) \in Nat
    BY StandsForFinite
  <2>4. /\ IsFiniteSet(StandsFor(b) \cup {r})
        /\ Cardinality(StandsFor(b) \cup {r}) \in Nat
        /\ Cardinality(StandsFor(b) \cup {r}) <= Cardinality(StandsFor(b)) + 1
    <3>1. /\ IsFiniteSet(StandsFor(b) \cup {r})
          /\ \/ Cardinality(StandsFor(b) \cup {r}) = Cardinality(StandsFor(b))
             \/ Cardinality(StandsFor(b) \cup {r}) = Cardinality(StandsFor(b)) + 1
      BY <2>3, FS_AddElement
    <3> QED
      BY <2>3, <3>1
  <2>5. /\ Cardinality(StandsFor(b)') <= Cardinality(StandsFor(b) \cup {r})
        /\ Cardinality(StandsFor(b)') \in Nat
    BY <2>2, <2>4, FS_Subset, FS_CardinalityType
  <2> QED
    BY <1>1, <2>1, <2>3, <2>4, <2>5
<1>4. CASE b \notin LoginBuckets(u, ip)
  <2>1. failures'[b] = failures[b]
    BY <1>4 DEF LoginBegin, Reserved
  <2>2. b # <<"user", u>> /\ b # <<"ip", ip>>
    BY <1>4 DEF LoginBuckets
  <2>3. StandsFor(b)' = StandsFor(b)
    <3>1. CASE b[1] = "user"
      <4>1. b[2] # u
        BY <2>2, <3>1 DEF Buckets
      <4> QED
        BY <1>2, <3>1, <4>1 DEF StandsFor, Comparing, Awaits
    <3>2. CASE b[1] = "ip"
      <4>1. b[2] # ip
        BY <2>2, <3>2 DEF Buckets
      <4> QED
        BY <1>2, <3>2, <4>1 DEF StandsFor, Comparing, Awaits
    <3>3. CASE b[1] \notin {"user", "ip"}
      BY <3>3 DEF StandsFor
    <3> QED
      BY <3>1, <3>2, <3>3
  <2> QED
    BY <1>1, <2>1, <2>3
<1> QED
  BY <1>3, <1>4

LEMMA LoginFailsCounts ==
  ASSUME TypeOK, AttemptsAreCounted, NEW r \in Slots, LoginFails(r)
  PROVE  AttemptsAreCounted'
<1> SUFFICES ASSUME NEW b \in Buckets
             PROVE  /\ Cardinality(StandsFor(b)') <= failures'[b]
                    /\ failures'[b] <= LIMITS[b[1]]
  BY DEF AttemptsAreCounted
<1>1. /\ Cardinality(StandsFor(b)) <= failures[b]
      /\ failures[b] <= LIMITS[b[1]] /\ failures[b] \in Nat /\ failures' = failures
  BY DEF AttemptsAreCounted, TypeOK, LoginFails
<1>2. /\ \A q \in Slots \ {r} : request'[q] = request[q]
      /\ request'[r].at # "comparing"
  BY DEF LoginFails, NoRequest, TypeOK
<1>3. StandsFor(b)' \subseteq StandsFor(b)
  BY <1>2 DEF StandsFor, Comparing, Awaits
<1>4. Cardinality(StandsFor(b)') <= Cardinality(StandsFor(b))
  BY <1>3, StandsForFinite, FS_Subset
<1>5. Cardinality(StandsFor(b)') \in Nat /\ Cardinality(StandsFor(b)) \in Nat
  BY <1>3, StandsForFinite, FS_Subset, FS_CardinalityType
<1> QED
  BY <1>1, <1>4, <1>5

LEMMA LoginSucceedsCounts ==
  ASSUME TypeOK, RequestsHold, AttemptsAreCounted, NEW r \in Slots, LoginSucceeds(r)
  PROVE  AttemptsAreCounted'
<1> DEFINE u == request[r].user  ip == request[r].ip
<1> SUFFICES ASSUME NEW b \in Buckets
             PROVE  /\ Cardinality(StandsFor(b)') <= failures'[b]
                    /\ failures'[b] <= LIMITS[b[1]]
  BY DEF AttemptsAreCounted
<1>1. /\ Cardinality(StandsFor(b)) <= failures[b]
      /\ failures[b] <= LIMITS[b[1]] /\ failures[b] \in Nat /\ LIMITS[b[1]] \in Nat
  BY Limits DEF AttemptsAreCounted, TypeOK
<1>2. u \in Users /\ ip \in Ips /\ Awaits(r, "comparing")
  BY DEF LoginSucceeds, Awaits, RequestsHold, Holds
<1>3. \A q \in Slots : LET k == [request[q] EXCEPT !.wiped = TRUE] IN
        /\ k.at = request[q].at /\ k.user = request[q].user
        /\ k.ip = request[q].ip /\ k.wiped
  BY DEF TypeOK, Request
<1>4. /\ request'[r].at # "comparing"
      /\ \A q \in Slots \ {r} :
           /\ request'[q].at = request[q].at /\ request'[q].user = request[q].user
           /\ request'[q].ip = request[q].ip
           /\ IF Awaits(q, "comparing") /\ request[q].user = u
                THEN request'[q].wiped ELSE request'[q].wiped = request[q].wiped
  BY <1>3 DEF LoginSucceeds, NoRequest
<1>5. StandsFor(b)' \subseteq StandsFor(b)
  BY <1>4 DEF StandsFor, Comparing, Awaits
<1>6. /\ Cardinality(StandsFor(b)') <= Cardinality(StandsFor(b))
      /\ Cardinality(StandsFor(b)') \in Nat /\ Cardinality(StandsFor(b)) \in Nat
  BY <1>5, StandsForFinite, FS_Subset, FS_CardinalityType
<1>7. failures' = Released(Cleared(failures, <<"user", u>>), <<"ip", ip>>)
  BY DEF LoginSucceeds
<1>8. <<"user", u>> \in Buckets /\ <<"ip", ip>> \in Buckets
      /\ <<"user", u>> # <<"ip", ip>>
  BY <1>2 DEF Buckets
<1>9. CASE b = <<"user", u>>
  <2>1. failures'[b] = 0
    BY <1>7, <1>8, <1>9 DEF Released, Cleared, TypeOK
  <2>2. StandsFor(b)' = {}
    BY <1>4, <1>9 DEF StandsFor, Comparing, Awaits
  <2> QED
    BY <1>1, <2>1, <2>2, FS_EmptySet
<1>10. CASE b = <<"ip", ip>>
  <2>1. failures'[b] = IF failures[b] > 0 THEN failures[b] - 1 ELSE 0
    BY <1>7, <1>8, <1>10 DEF Released, Cleared, TypeOK
  <2>2. r \in StandsFor(b)
    BY <1>2, <1>10 DEF StandsFor, Comparing
  <2>3. StandsFor(b)' \subseteq StandsFor(b) \ {r}
    BY <1>4, <1>5, <1>10 DEF StandsFor, Comparing, Awaits
  <2>4. /\ IsFiniteSet(StandsFor(b) \ {r})
        /\ Cardinality(StandsFor(b) \ {r}) = Cardinality(StandsFor(b)) - 1
    BY <2>2, StandsForFinite, FS_RemoveElement
  <2>5. Cardinality(StandsFor(b)') <= Cardinality(StandsFor(b)) - 1
    BY <2>3, <2>4, FS_Subset
  <2> QED
    BY <1>1, <1>6, <2>1, <2>5
<1>11. CASE b # <<"user", u>> /\ b # <<"ip", ip>>
  <2>1. failures'[b] = failures[b]
    BY <1>7, <1>8, <1>11 DEF Released, Cleared, TypeOK
  <2> QED
    BY <1>1, <1>6, <2>1
<1> QED
  BY <1>9, <1>10, <1>11

LEMMA AgesCounts ==
  ASSUME TypeOK, AttemptsAreCounted, NEW a \in Buckets, FailureAges(a)
  PROVE  AttemptsAreCounted'
<1> SUFFICES ASSUME NEW b \in Buckets
             PROVE  /\ Cardinality(StandsFor(b)') <= failures'[b]
                    /\ failures'[b] <= LIMITS[b[1]]
  BY DEF AttemptsAreCounted
<1>1. /\ Cardinality(StandsFor(b)) <= failures[b]
      /\ failures[b] <= LIMITS[b[1]] /\ failures[b] \in Nat /\ LIMITS[b[1]] \in Nat
      /\ Cardinality(StandsFor(b)) \in Nat
  BY Limits, StandsForFinite DEF AttemptsAreCounted, TypeOK
<1>2. StandsFor(b)' = StandsFor(b)
  BY DEF FailureAges, StandsFor, Comparing, Awaits
<1>3. failures'[b] = IF b = a THEN failures[b] - 1 ELSE failures[b]
  BY DEF FailureAges, Ages, TypeOK
<1>4. b = a => failures[b] > Cardinality(StandsFor(b))
  BY DEF FailureAges
<1> QED
  BY <1>1, <1>2, <1>3, <1>4

LEMMA SetupCounts ==
  ASSUME TypeOK, AttemptsAreCounted, NEW ip \in Ips, NEW b \in Buckets,
         \/ failures' = Registered(failures, <<"setup", ip>>)
         \/ failures' = Cleared(failures, <<"setup", ip>>)
  PROVE  \/ failures'[b] = failures[b]
         \/ b[1] = "setup" /\ failures'[b] \in 0..LIMITS[b[1]]
<1>1. <<"setup", ip>> \in Buckets
  BY DEF Buckets
<1>2. CASE b = <<"setup", ip>>
  <2>1. failures[b] \in Nat /\ LIMITS[b[1]] \in Nat
    BY Limits DEF TypeOK
  <2>2. failures'[b] \in {0, failures[b] + 1, LIMITS[b[1]]}
        /\ (failures'[b] = failures[b] + 1 => failures[b] < LIMITS[b[1]] \/ failures'[b] = LIMITS[b[1]] \/ failures'[b] = 0)
    BY <1>1, <1>2 DEF Registered, Cleared, TypeOK
  <2> QED
    BY <1>2, <2>1, <2>2
<1>3. CASE b # <<"setup", ip>>
  BY <1>1, <1>3 DEF Registered, Cleared, TypeOK
<1> QED
  BY <1>2, <1>3

LEMMA AttemptsStep ==
  ASSUME TypeOK, RequestsHold, AttemptsAreCounted, [Next]_vars
  PROVE  AttemptsAreCounted'
<1>1. ASSUME request' = request, failures' = failures
      PROVE  AttemptsAreCounted'
  BY <1>1, CountStays DEF SameLogin, Awaits
<1>2. ASSUME NEW r \in Slots, NEW u \in Users, NEW e \in Emails \cup {NoEmail},
             NEW ip \in Ips, SetupBegin(r, u, e, ip)
      PROVE  AttemptsAreCounted'
  <2>1. /\ \A q \in Slots \ {r} : request'[q] = request[q]
        /\ request'[r].at # "comparing" /\ request[r].at # "comparing"
    BY <1>2 DEF SetupBegin, Begin, NoRequest, TypeOK
  <2>2. \A q \in Slots : SameLogin(q)
    BY <2>1, OtherLogins DEF Awaits
  <2>3. failures' = Cleared(failures, <<"setup", ip>>)
    BY <1>2 DEF SetupBegin
  <2> QED
    BY <2>2, <2>3, SetupCounts, CountStays
<1>3. ASSUME NEW r \in Slots, SetupWrites(r)
      PROVE  AttemptsAreCounted'
  <2> DEFINE u == request[r].user
             x == [NoRequest EXCEPT !.at = "mailing", !.user = u, !.knew = hashes + 1]
  <2>1. x.at # "comparing"
    BY DEF NoRequest
  <2>2. request' = EndAndRace(r, u) \/ request' = [EndAndRace(r, u) EXCEPT ![r] = x]
    BY <1>3 DEF SetupWrites
  <2>3. \A q \in Slots : SameLogin(q)
    <3>1. ~Awaits(r, "comparing")
      BY <1>3 DEF SetupWrites, Awaits
    <3> HIDE DEF x, u
    <3> QED
      BY <2>1, <2>2, <3>1, OtherLogins
  <2>4. failures' = failures
    BY <1>3 DEF SetupWrites
  <2> QED
    BY <2>3, <2>4, CountStays
<1>4. ASSUME NEW r \in Slots,
             \/ SetupEnds(r) \/ AcceptEnds(r)
             \/ \E l \in DOMAIN links : AcceptBegin(r, l)
      PROVE  AttemptsAreCounted'
  <2>1. ~Awaits(r, "comparing") /\ failures' = failures
    BY <1>4, Begins DEF SetupEnds, AcceptEnds, AcceptBegin, Awaits
  <2>2. \/ request' = EndAndRace(r, request[r].user)
        \/ /\ \A q \in Slots \ {r} : request'[q] = request[q]
           /\ request'[r].at # "comparing"
    <3>1. CASE AcceptEnds(r)
      BY <3>1 DEF AcceptEnds
    <3>2. CASE SetupEnds(r)
      BY <3>2 DEF SetupEnds, NoRequest, TypeOK
    <3>3. ASSUME NEW l \in DOMAIN links, AcceptBegin(r, l)
          PROVE  /\ \A q \in Slots \ {r} : request'[q] = request[q]
                 /\ request'[r].at # "comparing"
      <4> DEFINE x == [NoRequest EXCEPT !.at = "accepting", !.user = links[l].user,
                                        !.link = l]
      <4>1. Begin(r, x) /\ x.at = "accepting"
        BY <3>3 DEF AcceptBegin, NoRequest
      <4> HIDE DEF x
      <4> QED
        BY <4>1, Begins
    <3> QED
      BY <1>4, <3>1, <3>2, <3>3
  <2>3. \A q \in Slots : SameLogin(q)
    BY <2>1, <2>2, OtherLogins
  <2> QED
    BY <2>1, <2>3, CountStays
<1>5. ASSUME NEW ip \in Ips,
             \/ SetupWrongCode(ip) \/ SetupRefused(ip) \/ \E e \in Emails : Forgot(e, ip)
      PROVE  AttemptsAreCounted'
  <2>1. request' = request
    BY <1>5 DEF SetupWrongCode, SetupRefused, Forgot
  <2>2. \/ failures' = Registered(failures, <<"setup", ip>>)
        \/ failures' = Cleared(failures, <<"setup", ip>>)
    BY <1>5 DEF SetupWrongCode, SetupRefused, Forgot
  <2> QED
    BY <2>1, <2>2, SetupCounts, CountStays DEF SameLogin, Awaits
<1>6. ASSUME NEW a \in Users, NEW u \in Users,
             \/ TeamPassword(a, u)
             \/ \E e \in Emails \cup {NoEmail}, admin \in BOOLEAN : TeamAdd(a, u, e, admin)
      PROVE  AttemptsAreCounted'
  <2>1. request' = Race(u) /\ failures' = failures
    BY <1>6 DEF TeamPassword, TeamAdd
  <2>2. \A q \in Slots : LET k == [request[q] EXCEPT !.raced = TRUE] IN
          /\ k.at = request[q].at /\ k.user = request[q].user
          /\ k.ip = request[q].ip /\ k.wiped = request[q].wiped
    BY DEF TypeOK, Request
  <2>3. \A q \in Slots : SameLogin(q)
    BY <2>1, <2>2 DEF Race, SameLogin, Awaits
  <2> QED
    BY <2>1, <2>3, CountStays
<1>7. ASSUME NEW a \in Users, NEW u \in Users,
             \/ \E e \in Emails \cup {NoEmail} : TeamEmail(a, u, e)
             \/ ResendInvite(a, u) \/ TeamDelete(a, u) \/ TeamVerifyEmail(a, u)
      PROVE  AttemptsAreCounted'
  BY <1>1, <1>7 DEF TeamEmail, ResendInvite, TeamDelete, TeamVerifyEmail
<1>8. ASSUME NEW l \in DOMAIN links, VerifyEmail(l) \/ LinkExpires(l)
      PROVE  AttemptsAreCounted'
  BY <1>1, <1>8 DEF VerifyEmail, LinkExpires
<1>9. CASE UNCHANGED vars
  BY <1>1, <1>9 DEF vars
<1> QED
  BY <1>2, <1>3, <1>4, <1>5, <1>6, <1>7, <1>8, <1>9, LoginBeginCounts, LoginFailsCounts,
     LoginSucceedsCounts, AgesCounts DEF Next

-----------------------------------------------------------------------------
(* Addresses and passwords: who loses one is on record.                     *)

Keeps(v) ==
  Exists(v)' => /\ Exists(v)
                /\ users'[v].email = users[v].email /\ users'[v].moved = users[v].moved
Marks(v) == OpenElsewhere(v, users'[v].email) => users'[v].moved

EmailsFollow ==
  answered \subseteq answered' /\ \A v \in Users : Keeps(v) \/ Marks(v)

LEMMA SameEmails ==
  ASSUME answered \subseteq answered', \A v \in Users : Keeps(v)
  PROVE  EmailsFollow
  BY DEF EmailsFollow

LEMMA OneMoves ==
  ASSUME NEW u \in Users, Marks(u), UNCHANGED answered,
         \A v \in Users \ {u} : users'[v] = users[v]
  PROVE  EmailsFollow
<1>1. \A v \in Users \ {u} : Keeps(v)
  BY DEF Keeps, Exists
<1> QED
  BY <1>1 DEF EmailsFollow

LEMMA StepEmails ==
  ASSUME TypeOK, RequestsHold, [Next]_vars
  PROVE  EmailsFollow
<1>1. ASSUME users' = users, answered \subseteq answered'
      PROVE  EmailsFollow
  BY <1>1, SameEmails DEF Keeps, Exists
<1>2. ASSUME NEW r \in Slots,
             \/ LoginFails(r) \/ LoginSucceeds(r) \/ SetupEnds(r)
             \/ \E u \in Users, ip \in Ips, ok \in BOOLEAN : LoginBegin(r, u, ip, ok)
             \/ \E u \in Users, e \in Emails \cup {NoEmail}, ip \in Ips :
                  SetupBegin(r, u, e, ip)
             \/ \E l \in DOMAIN links : AcceptBegin(r, l)
      PROVE  EmailsFollow
  <2>1. answered \subseteq answered'
    BY <1>2 DEF LoginFails, LoginSucceeds, SetupEnds, LoginBegin, SetupBegin, AcceptBegin,
                Opens
  <2> QED
    BY <1>1, <1>2, <2>1, RequestUsers
<1>3. ASSUME \/ \E ip \in Ips : \/ SetupWrongCode(ip) \/ SetupRefused(ip)
                                \/ \E e \in Emails : Forgot(e, ip)
             \/ \E l \in DOMAIN links : LinkExpires(l)
             \/ \E b \in Buckets : FailureAges(b)
             \/ \E a, u \in Users : ResendInvite(a, u) \/ TeamVerifyEmail(a, u)
             \/ UNCHANGED vars
      PROVE  EmailsFollow
  <2>1. UNCHANGED answered
    BY <1>3 DEF SetupWrongCode, SetupRefused, Forgot, LinkExpires, FailureAges,
                ResendInvite, TeamVerifyEmail, vars
  <2> QED
    BY <1>1, <1>3, <2>1, OtherUsers
<1>4. ASSUME NEW r \in Slots, SetupWrites(r)
      PROVE  EmailsFollow
  <2>1. PICK u : u = request[r].user
    OBVIOUS
  <2>2. UNCHANGED answered
    BY <1>4 DEF SetupWrites
  <2>3. /\ u \in Users /\ \A v \in Users \ {u} : users'[v] = users[v]
        /\ users'[u].email = request[r].email
        /\ OpenElsewhere(u, request[r].email) => users'[u].moved
    BY <1>4, <2>1, SetupWritesUser
  <2>4. Marks(u)
    BY <2>3 DEF Marks
  <2> QED
    BY <2>2, <2>3, <2>4, OneMoves
<1>5. ASSUME NEW r \in Slots, AcceptEnds(r)
      PROVE  EmailsFollow
  <2>1. PICK u : u = request[r].user
    OBVIOUS
  <2>2. \A v \in Users : Keeps(v)
    BY <1>5, <2>1, AcceptEndsUser DEF Keeps, Exists
  <2> QED
    BY <1>5, <2>2, SameEmails DEF AcceptEnds
<1>6. ASSUME NEW a \in Users, NEW u \in Users, NEW e \in Emails \cup {NoEmail},
             TeamEmail(a, u, e) \/ \E admin \in BOOLEAN : TeamAdd(a, u, e, admin)
      PROVE  EmailsFollow
  <2>1. UNCHANGED answered
    BY <1>6 DEF TeamEmail, TeamAdd
  <2>2. /\ \A v \in Users \ {u} : users'[v] = users[v]
        /\ users'[u].email = e /\ (users'[u].moved <=> OpenElsewhere(u, e))
    BY <1>6, TeamEmailUser, TeamAddUser
  <2>3. Marks(u)
    BY <2>2 DEF Marks
  <2> QED
    BY <2>1, <2>2, <2>3, OneMoves
<1>7. ASSUME NEW a \in Users, NEW u \in Users, TeamPassword(a, u)
      PROVE  EmailsFollow
  <2>1. \A v \in Users : Keeps(v)
    BY <1>7, TeamPasswordUser DEF Keeps, Exists, TeamPassword
  <2> QED
    BY <1>7, <2>1, SameEmails DEF TeamPassword
<1>8. ASSUME NEW a \in Users, NEW u \in Users, TeamDelete(a, u)
      PROVE  EmailsFollow
  <2>1. \A v \in Users : users'[v] \in {users[v], NoAccount}
    BY <1>8 DEF TeamDelete, TypeOK
  <2>2. \A v \in Users : Keeps(v)
    BY <2>1 DEF Keeps, Exists
  <2> QED
    BY <1>8, <2>2, SameEmails DEF TeamDelete
<1>9. ASSUME NEW l \in DOMAIN links, VerifyEmail(l)
      PROVE  EmailsFollow
  <2>1. \A v \in Users : Keeps(v)
    BY <1>9, VerifyEmailUser DEF Keeps, SameAccount
  <2> QED
    BY <1>9, <2>1, SameEmails DEF VerifyEmail, Opens
<1> QED
  BY <1>2, <1>3, <1>4, <1>5, <1>6, <1>7, <1>8, <1>9 DEF Next

LEMMA PointStep ==
  ASSUME TypeOK, TypeOK', LinksPoint, LinksGrow, EmailsFollow
  PROVE  LinksPoint'
<1> SUFFICES ASSUME NEW l \in DOMAIN links', links'[l].good,
                    links'[l].purpose # "verify", users'[links'[l].user] # NoAccount
             PROVE  \/ users'[links'[l].user].email = links'[l].email
                    \/ users'[links'[l].user].moved
  BY DEF LinksPoint, Exists
<1>1. CASE l \notin DOMAIN links
  BY <1>1 DEF LinksGrow, Fresh
<1>2. CASE l \in DOMAIN links
  <2>1. Follows(l)
    BY <1>2 DEF LinksGrow
  <2>2. PICK v \in Users : v = links[l].user
    BY <1>2, LinkTyped DEF Link
  <2>3. /\ links[l].good /\ links[l].purpose # "verify"
        /\ links'[l].user = v /\ links'[l].email = links[l].email
    BY <2>1, <2>2 DEF Follows
  <2>4. CASE Keeps(v)
    BY <1>2, <2>2, <2>3, <2>4 DEF Keeps, Exists, LinksPoint, EmailsFollow
  <2>5. CASE Marks(v)
    BY <1>2, <2>2, <2>3, <2>5 DEF Marks, OpenElsewhere
  <2> QED
    BY <2>4, <2>5 DEF EmailsFollow
<1> QED
  BY <1>1, <1>2

-----------------------------------------------------------------------------
(* Requests. *)

(* A request that is only marked, if its password is replaced.              *)
Carries(r) ==
  /\ request'[r].at = request[r].at /\ request'[r].user = request[r].user
  /\ request'[r].ip = request[r].ip /\ request'[r].ok = request[r].ok
  /\ request'[r].knew = request[r].knew /\ request'[r].link = request[r].link
  /\ request'[r].email = request[r].email /\ request'[r].verified = request[r].verified
  /\ request'[r].moved = request[r].moved
  /\ request[r].raced => request'[r].raced

Password(v) == Exists(v)' => Exists(v) /\ users'[v].password = users[v].password

LEMMA HoldsStays ==
  ASSUME TypeOK, LinksGrow, EmailsFollow, NEW r \in Slots, Holds(r), Carries(r),
         NEW u, u = request[r].user, u \in Users => request'[r].raced \/ Password(u)
  PROVE  Holds(r)'
<1>1. /\ request'[r].at = request[r].at /\ request'[r].user = u
      /\ request'[r].ip = request[r].ip /\ request'[r].ok = request[r].ok
      /\ request'[r].knew = request[r].knew /\ request'[r].link = request[r].link
      /\ request'[r].email = request[r].email /\ request'[r].verified = request[r].verified
      /\ request'[r].moved = request[r].moved
      /\ request[r].raced => request'[r].raced
  BY DEF Carries
<1>2. request'[r].at # "idle" => u \in Users
  BY <1>1 DEF Holds
<1>3. request'[r].at = "comparing" => request'[r].ip \in Ips
  BY <1>1 DEF Holds
<1>4. ASSUME u \in Users, Exists(u)',
             \/ request'[r].at = "mailing"
             \/ request'[r].at = "comparing" /\ request'[r].ok
      PROVE  request'[r].raced \/ request'[r].knew = users'[u].password
  BY <1>1, <1>4 DEF Holds, Password
<1>5. ASSUME request'[r].at = "settingUp", request'[r].verified,
             request'[r].email # NoEmail
      PROVE  <<u, request'[r].email>> \in answered' \/ request'[r].moved
  BY <1>1, <1>5 DEF Holds, EmailsFollow
<1>6. ASSUME request'[r].at = "accepting", NEW k, k = request[r].link
      PROVE  /\ k \in DOMAIN links'
             /\ links'[k].user = u /\ links'[k].purpose # "verify"
             /\ <<u, links'[k].email>> \in answered'
             /\ u \in Users /\ Exists(u)' =>
                  users'[u].email = links'[k].email \/ users'[u].moved
  <2>1. /\ k \in DOMAIN links /\ links[k].user = u /\ links[k].purpose # "verify"
        /\ <<u, links[k].email>> \in answered /\ u \in Users
        /\ Exists(u) => users[u].email = links[k].email \/ users[u].moved
    BY <1>1, <1>6 DEF Holds
  <2>2. Follows(k)
    BY <2>1 DEF LinksGrow
  <2>3. CASE Keeps(u)
    BY <2>1, <2>2, <2>3 DEF Follows, EmailsFollow, Keeps
  <2>4. CASE Marks(u)
    <3>1. Awaits(r, "accepting") /\ request[r].user = u /\ links[request[r].link].email = links[k].email
      BY <1>1, <1>6 DEF Awaits
    <3> QED
      BY <2>1, <2>2, <2>4, <3>1 DEF Follows, EmailsFollow, Marks, OpenElsewhere
  <2> QED
    BY <2>1, <2>3, <2>4 DEF EmailsFollow
<1> QED
  BY <1>1, <1>2, <1>3, <1>4, <1>5, <1>6 DEF Holds

LEMMA IdleHolds ==
  ASSUME NEW r \in Slots, request'[r].at = "idle"
  PROVE  Holds(r)'
  BY DEF Holds

LEMMA OthersHold ==
  ASSUME TypeOK, RequestsHold, LinksGrow, EmailsFollow, NEW r \in Slots, Holds(r)',
         \A q \in Slots \ {r} : Carries(q),
         \A v \in Users : \/ Password(v)
                         \/ \A q \in Slots \ {r} : request[q].user = v => request'[q].raced
  PROVE  RequestsHold'
<1> SUFFICES ASSUME NEW q \in Slots \ {r}
             PROVE  Holds(q)'
  BY DEF RequestsHold
<1>1. PICK u : u = request[q].user
  OBVIOUS
<1>2. u \in Users => request'[q].raced \/ Password(u)
  BY <1>1
<1>3. Holds(q) /\ Carries(q)
  BY DEF RequestsHold
<1> QED
  BY <1>1, <1>2, <1>3, HoldsStays

LEMMA AllHold ==
  ASSUME TypeOK, RequestsHold, LinksGrow, EmailsFollow, \A q \in Slots : Carries(q),
         \A v \in Users : \/ Password(v)
                         \/ \A q \in Slots : request[q].user = v => request'[q].raced
  PROVE  RequestsHold'
<1> SUFFICES ASSUME NEW q \in Slots
             PROVE  Holds(q)'
  BY DEF RequestsHold
<1>1. PICK u : u = request[q].user
  OBVIOUS
<1>2. u \in Users => request'[q].raced \/ Password(u)
  BY <1>1
<1>3. Holds(q)
  BY DEF RequestsHold
<1> QED
  BY <1>1, <1>2, <1>3, HoldsStays

LEMMA Unchanged ==
  ASSUME NEW q \in Slots, request'[q] = request[q]
  PROVE  Carries(q)
  BY DEF Carries

LEMMA Raced ==
  ASSUME TypeOK, NEW u,
         NEW q \in Slots,
         request'[q] = IF request[q].user = u THEN [request[q] EXCEPT !.raced = TRUE]
                                              ELSE request[q]
  PROVE  Carries(q) /\ (request[q].user = u => request'[q].raced)
<1>1. request[q] \in Request
  BY DEF TypeOK
<1> QED
  BY <1>1 DEF Carries, Request

LEMMA SamePasswords ==
  ASSUME users' = users
  PROVE  \A v \in Users : Password(v)
  BY DEF Password, Exists

LEMMA LoginsHold ==
  ASSUME TypeOK, RequestsHold, LinksGrow, EmailsFollow, NEW r \in Slots,
         \/ LoginFails(r) \/ LoginSucceeds(r) \/ SetupEnds(r)
         \/ \E u \in Users, ip \in Ips, ok \in BOOLEAN : LoginBegin(r, u, ip, ok)
  PROVE  RequestsHold'
<1>1. users' = users
  BY RequestUsers
<1>2. CASE LoginFails(r) \/ SetupEnds(r)
  <2>1. /\ request'[r].at = "idle"
        /\ \A q \in Slots \ {r} : request'[q] = request[q]
    BY <1>2 DEF LoginFails, SetupEnds, NoRequest, TypeOK
  <2> QED
    BY <1>1, <2>1, IdleHolds, Unchanged, SamePasswords, OthersHold
<1>3. CASE LoginSucceeds(r)
  <2>1. request'[r].at = "idle"
    BY <1>3 DEF LoginSucceeds, NoRequest
  <2>2. ASSUME NEW q \in Slots \ {r}
        PROVE  Carries(q)
    <3>1. request'[q] = request[q] \/ request'[q] = [request[q] EXCEPT !.wiped = TRUE]
      BY <1>3 DEF LoginSucceeds
    <3>2. request[q] \in Request
      BY DEF TypeOK
    <3> QED
      BY <3>1, <3>2 DEF Carries, Request
  <2> QED
    BY <1>1, <2>1, <2>2, IdleHolds, SamePasswords, OthersHold
<1>4. ASSUME NEW u \in Users, NEW ip \in Ips, NEW ok \in BOOLEAN, LoginBegin(r, u, ip, ok)
      PROVE  RequestsHold'
  <2>1. CASE ~Exists(u)
    <3>1. request' = request
      BY <1>4, <2>1 DEF LoginBegin
    <3> QED
      BY <1>1, <3>1, Unchanged, SamePasswords, AllHold
  <2>2. CASE Exists(u)
    <3> DEFINE x == [NoRequest EXCEPT !.at = "comparing", !.user = u, !.ip = ip, !.ok = ok,
                      !.knew = IF ok THEN users[u].password ELSE NoHash]
    <3>1. Begin(r, x)
      BY <1>4, <2>2 DEF LoginBegin
    <3>2. /\ x.at = "comparing" /\ x.user = u /\ x.ip = ip /\ x.ok = ok
          /\ ok => x.knew = users[u].password
      BY DEF NoRequest
    <3> HIDE DEF x
    <3>3. request'[r] = x /\ \A q \in Slots \ {r} : request'[q] = request[q]
      BY <3>1, Begins
    <3>4. Holds(r)'
      BY <1>1, <3>2, <3>3 DEF Holds
    <3> QED
      BY <1>1, <3>3, <3>4, Unchanged, SamePasswords, OthersHold
  <2> QED
    BY <2>1, <2>2
<1> QED
  BY <1>2, <1>3, <1>4

LEMMA SetupBeginHolds ==
  ASSUME TypeOK, RequestsHold, ConfirmedWasAnswered, LinksGrow, EmailsFollow,
         NEW r \in Slots, NEW u \in Users, NEW e \in Emails \cup {NoEmail}, NEW ip \in Ips,
         SetupBegin(r, u, e, ip)
  PROVE  RequestsHold'
<1> DEFINE onFile == IF Exists(u) THEN users[u].email ELSE NoEmail
           email  == IF e = NoEmail THEN onFile ELSE e
           kept   == email # NoEmail /\ email = onFile /\ users[u].verified
           strays == kept /\ users[u].moved
           x      == [NoRequest EXCEPT !.at = "settingUp", !.user = u, !.email = email,
                                       !.verified = kept, !.moved = strays]
<1>1. Begin(r, x)
  BY DEF SetupBegin
<1>2. /\ x.at = "settingUp" /\ x.user = u /\ x.email = email
      /\ x.verified = kept /\ x.moved = strays
  BY DEF NoRequest
<1>3. kept => <<u, email>> \in answered \/ strays
  BY DEF ConfirmedWasAnswered
<1> HIDE DEF x, kept, strays, email
<1>4. request'[r] = x /\ \A q \in Slots \ {r} : request'[q] = request[q]
  BY <1>1, Begins
<1>5. Holds(r)'
  <2>1. <<u, x.email>> \in answered' \/ x.moved \/ ~x.verified
    BY <1>2, <1>3 DEF EmailsFollow
  <2> QED
    BY <1>2, <1>4, <2>1 DEF Holds
<1>6. users' = users
  BY RequestUsers
<1> QED
  BY <1>4, <1>5, <1>6, Unchanged, SamePasswords, OthersHold

(* The password of one account is replaced, and the others are marked.      *)
LEMMA ReplacedHolds ==
  ASSUME TypeOK, RequestsHold, LinksGrow, EmailsFollow, NEW r \in Slots, NEW u \in Users,
         Holds(r)', \A v \in Users \ {u} : users'[v] = users[v],
         \A q \in Slots \ {r} : request'[q] = IF request[q].user = u
                THEN [request[q] EXCEPT !.raced = TRUE] ELSE request[q]
  PROVE  RequestsHold'
<1>1. \A q \in Slots \ {r} : Carries(q) /\ (request[q].user = u => request'[q].raced)
  BY Raced
<1>2. \A v \in Users \ {u} : Password(v)
  BY DEF Password, Exists
<1> QED
  BY <1>1, <1>2, OthersHold

LEMMA SetupWritesHolds ==
  ASSUME TypeOK, RequestsHold, LinksGrow, EmailsFollow, NEW r \in Slots, SetupWrites(r)
  PROVE  RequestsHold'
<1>1. PICK u : u = request[r].user
  OBVIOUS
<1>2. /\ u \in Users /\ users'[u].password = hashes + 1
      /\ \A v \in Users \ {u} : users'[v] = users[v]
  BY <1>1, SetupWritesUser
<1> DEFINE x == [NoRequest EXCEPT !.at = "mailing", !.user = u, !.knew = hashes + 1]
<1>3. x.at = "mailing" /\ x.user = u /\ x.knew = hashes + 1
  BY DEF NoRequest
<1> HIDE DEF x
<1>4. \/ request' = EndAndRace(r, u)
      \/ request' = [EndAndRace(r, u) EXCEPT ![r] = x]
  BY <1>1 DEF SetupWrites, x
<1>5. \A q \in Slots \ {r} : request'[q] = IF request[q].user = u
         THEN [request[q] EXCEPT !.raced = TRUE] ELSE request[q]
  BY <1>4 DEF EndAndRace
<1>6. request'[r] = NoRequest \/ request'[r] = x
  BY <1>4 DEF EndAndRace
<1>7. Holds(r)'
  <2>1. CASE request'[r] = NoRequest
    BY <2>1, IdleHolds DEF NoRequest
  <2>2. CASE request'[r] = x
    BY <1>2, <1>3, <2>2 DEF Holds
  <2> QED
    BY <1>6, <2>1, <2>2
<1> QED
  BY <1>2, <1>5, <1>7, ReplacedHolds

LEMMA AcceptsHold ==
  ASSUME TypeOK, RequestsHold, LinksPoint, LinksGrow, EmailsFollow, NEW r \in Slots,
         AcceptEnds(r) \/ \E l \in DOMAIN links : AcceptBegin(r, l)
  PROVE  RequestsHold'
<1>1. CASE AcceptEnds(r)
  <2>1. PICK u : u = request[r].user
    OBVIOUS
  <2>2. u \in Users /\ \A v \in Users \ {u} : users'[v] = users[v]
    BY <1>1, <2>1, AcceptEndsUser
  <2>3. request' = EndAndRace(r, u)
    BY <1>1, <2>1 DEF AcceptEnds
  <2>4. Holds(r)'
    BY <2>3, IdleHolds DEF EndAndRace, NoRequest
  <2> QED
    BY <2>2, <2>3, <2>4, ReplacedHolds DEF EndAndRace
<1>2. ASSUME NEW l \in DOMAIN links, AcceptBegin(r, l)
      PROVE  RequestsHold'
  <2> DEFINE x == [NoRequest EXCEPT !.at = "accepting", !.user = links[l].user, !.link = l]
  <2>1. Begin(r, x) /\ x.at = "accepting" /\ x.user = links[l].user /\ x.link = l
    BY <1>2 DEF AcceptBegin, NoRequest
  <2> HIDE DEF x
  <2>2. request'[r] = x /\ \A q \in Slots \ {r} : request'[q] = request[q]
    BY <2>1, Begins
  <2>3. users' = users
    BY <1>2, RequestUsers
  <2>4. PICK u \in Users : u = links[l].user
    BY LinkTyped DEF Link
  <2>5. /\ links[l].good /\ links[l].purpose # "verify"
        /\ <<u, links[l].email>> \in answered'
    BY <1>2, <2>4 DEF AcceptBegin, Opens
  <2>6. Follows(l)
    BY DEF LinksGrow
  <2>7. Exists(u) => users[u].email = links[l].email \/ users[u].moved
    BY <2>4, <2>5 DEF LinksPoint
  <2>8. Holds(r)'
    BY <2>1, <2>2, <2>3, <2>4, <2>5, <2>6, <2>7 DEF Holds, Follows, EmailsFollow, Exists
  <2> QED
    BY <2>2, <2>3, <2>8, Unchanged, SamePasswords, OthersHold
<1> QED
  BY <1>1, <1>2

LEMMA TeamHolds ==
  ASSUME TypeOK, RequestsHold, LinksGrow, EmailsFollow, NEW a \in Users, NEW u \in Users,
         \/ \E e \in Emails \cup {NoEmail} :
              (\E admin \in BOOLEAN : TeamAdd(a, u, e, admin)) \/ TeamEmail(a, u, e)
         \/ ResendInvite(a, u) \/ TeamDelete(a, u)
         \/ TeamPassword(a, u) \/ TeamVerifyEmail(a, u)
  PROVE  RequestsHold'
<1>1. CASE \/ TeamPassword(a, u)
           \/ \E e \in Emails \cup {NoEmail}, admin \in BOOLEAN : TeamAdd(a, u, e, admin)
  <2>1. request' = Race(u)
    BY <1>1 DEF TeamPassword, TeamAdd
  <2>2. \A v \in Users \ {u} : users'[v] = users[v]
    BY <1>1, TeamPasswordUser, TeamAddUser
  <2>3. \A q \in Slots : Carries(q) /\ (request[q].user = u => request'[q].raced)
    BY <2>1, Raced DEF Race
  <2>4. \A v \in Users \ {u} : Password(v)
    BY <2>2 DEF Password, Exists
  <2> QED
    BY <2>3, <2>4, AllHold
<1>2. CASE \/ ResendInvite(a, u) \/ TeamDelete(a, u) \/ TeamVerifyEmail(a, u)
           \/ \E e \in Emails \cup {NoEmail} : TeamEmail(a, u, e)
  <2>1. request' = request
    BY <1>2 DEF ResendInvite, TeamDelete, TeamVerifyEmail, TeamEmail
  <2>2. ASSUME NEW v \in Users
        PROVE  Password(v)
    <3>1. CASE ResendInvite(a, u) \/ TeamVerifyEmail(a, u)
      BY <3>1, OtherUsers, SamePasswords
    <3>2. CASE TeamDelete(a, u)
      <4>1. users'[v] \in {users[v], NoAccount}
        BY <3>2 DEF TeamDelete, TypeOK
      <4> QED
        BY <4>1 DEF Password, Exists
    <3>3. ASSUME NEW e \in Emails \cup {NoEmail}, TeamEmail(a, u, e)
          PROVE  Password(v)
      BY <3>3, TeamEmailUser DEF Password, Exists
    <3> QED
      BY <1>2, <3>1, <3>2, <3>3
  <2> QED
    BY <2>1, <2>2, Unchanged, AllHold
<1> QED
  BY <1>1, <1>2

LEMMA OthersStepHolds ==
  ASSUME TypeOK, RequestsHold, LinksGrow, EmailsFollow,
         \/ \E ip \in Ips : \/ SetupWrongCode(ip) \/ SetupRefused(ip)
                            \/ \E e \in Emails : Forgot(e, ip)
         \/ \E l \in DOMAIN links : VerifyEmail(l) \/ LinkExpires(l)
         \/ \E b \in Buckets : FailureAges(b)
         \/ UNCHANGED vars
  PROVE  RequestsHold'
<1>1. request' = request
  BY DEF SetupWrongCode, SetupRefused, Forgot, VerifyEmail, LinkExpires, FailureAges, vars
<1>2. \A v \in Users : Password(v)
  <2>1. CASE users' = users
    BY <2>1, SamePasswords
  <2>2. ASSUME NEW l \in DOMAIN links, VerifyEmail(l)
        PROVE  \A v \in Users : Password(v)
    BY <2>2, VerifyEmailUser DEF SameAccount, Password
  <2> QED
    BY <2>1, <2>2, OtherUsers
<1> QED
  BY <1>1, <1>2, Unchanged, AllHold

LEMMA RequestsStep ==
  ASSUME TypeOK, RequestsHold, LinksPoint, ConfirmedWasAnswered, LinksGrow, EmailsFollow,
         [Next]_vars
  PROVE  RequestsHold'
  BY LoginsHold, SetupBeginHolds, SetupWritesHolds, AcceptsHold, TeamHolds, OthersStepHolds
     DEF Next

-----------------------------------------------------------------------------
(* Confirmed addresses. *)

ConfirmedOf(v) ==
  Exists(v) /\ users[v].verified /\ users[v].email # NoEmail
    => <<v, users[v].email>> \in answered \/ users[v].moved

LEMMA ConfirmedStays ==
  ASSUME ConfirmedWasAnswered, EmailsFollow, NEW v \in Users,
         Exists(v)' => /\ Exists(v) /\ users'[v].email = users[v].email
                       /\ users'[v].moved = users[v].moved
                       /\ users'[v].verified => users[v].verified
  PROVE  ConfirmedOf(v)'
  BY DEF ConfirmedWasAnswered, ConfirmedOf, EmailsFollow

LEMMA ConfirmedStep ==
  ASSUME TypeOK, RequestsHold, ConfirmedWasAnswered, EmailsFollow, [Next]_vars
  PROVE  ConfirmedWasAnswered'
<1> SUFFICES ASSUME NEW v \in Users
             PROVE  ConfirmedOf(v)'
  BY DEF ConfirmedWasAnswered, ConfirmedOf
<1>1. CASE users'[v] = users[v]
  BY <1>1, ConfirmedStays DEF Exists
<1>2. ASSUME NEW r \in Slots, SetupWrites(r)
      PROVE  ConfirmedOf(v)'
  <2>1. PICK u : u = request[r].user
    OBVIOUS
  <2>2. /\ users'[u].email = request[r].email /\ users'[u].verified = request[r].verified
        /\ request[r].moved => users'[u].moved
        /\ \A x \in Users \ {u} : users'[x] = users[x]
    BY <1>2, <2>1, SetupWritesUser
  <2>3. request[r].verified /\ request[r].email # NoEmail =>
          <<u, request[r].email>> \in answered \/ request[r].moved
    BY <1>2, <2>1 DEF SetupWrites, Awaits, RequestsHold, Holds
  <2> QED
    BY <1>1, <2>2, <2>3 DEF ConfirmedOf, EmailsFollow
<1>3. ASSUME NEW r \in Slots, AcceptEnds(r)
      PROVE  ConfirmedOf(v)'
  <2>1. PICK u : u = request[r].user
    OBVIOUS
  <2>2. /\ Exists(u)' => /\ Exists(u) /\ users'[u].email = users[u].email
                        /\ users'[u].moved = users[u].moved
        /\ \A x \in Users \ {u} : users'[x] = users[x]
    BY <1>3, <2>1, AcceptEndsUser
  <2>3. /\ <<u, links[request[r].link].email>> \in answered
        /\ u \in Users /\ Exists(u) =>
             users[u].email = links[request[r].link].email \/ users[u].moved
    BY <1>3, <2>1 DEF AcceptEnds, Awaits, RequestsHold, Holds
  <2> QED
    BY <1>1, <2>2, <2>3 DEF ConfirmedOf, EmailsFollow
<1>4. ASSUME NEW a \in Users, NEW u \in Users, NEW e \in Emails \cup {NoEmail},
             TeamEmail(a, u, e) \/ \E admin \in BOOLEAN : TeamAdd(a, u, e, admin)
      PROVE  ConfirmedOf(v)'
  <2>1. ~users'[u].verified /\ \A x \in Users \ {u} : users'[x] = users[x]
    BY <1>4, TeamEmailUser, TeamAddUser
  <2> QED
    BY <1>1, <2>1 DEF ConfirmedOf
<1>5. ASSUME NEW a \in Users, NEW u \in Users, TeamPassword(a, u)
      PROVE  ConfirmedOf(v)'
  <2>1. /\ Exists(u) /\ users'[u].email = users[u].email
        /\ users'[u].verified = users[u].verified /\ users'[u].moved = users[u].moved
        /\ \A x \in Users \ {u} : users'[x] = users[x]
    BY <1>5, TeamPasswordUser DEF TeamPassword
  <2> QED
    BY <1>1, <2>1, ConfirmedStays
<1>6. ASSUME NEW a \in Users, NEW u \in Users, TeamDelete(a, u)
      PROVE  ConfirmedOf(v)'
  <2>1. users'[v] \in {users[v], NoAccount}
    BY <1>6 DEF TeamDelete, TypeOK
  <2> QED
    BY <1>1, <2>1 DEF ConfirmedOf, Exists
<1>7. ASSUME NEW l \in DOMAIN links, VerifyEmail(l)
      PROVE  ConfirmedOf(v)'
  <2>1. /\ SameAccount(v)
        /\ Exists(v) /\ users'[v].verified =>
             users[v].verified \/ (v = links[l].user /\ users[v].email = links[l].email)
    BY <1>7, VerifyEmailUser
  <2>2. <<links[l].user, links[l].email>> \in answered'
    BY <1>7 DEF VerifyEmail, Opens
  <2> QED
    BY <2>1, <2>2, ConfirmedStays DEF SameAccount, ConfirmedOf
<1> QED
  BY <1>1, <1>2, <1>3, <1>4, <1>5, <1>6, <1>7, RequestUsers, OtherUsers DEF Next

-----------------------------------------------------------------------------
(* The invariant. *)

IInv == AccountsAreSound /\ AttemptsAreCounted /\ ConfirmedWasAnswered

LEMMA InitSound == Init => IInv
<1> SUFFICES ASSUME Init PROVE IInv
  OBVIOUS
<1>1. TypeOK
  BY InitTyped
<1>2. links = <<>> /\ sessions = {} /\ \A u \in Users : ~Exists(u)
  BY DEF Init, Exists
<1>3. LinksOpenOnce /\ LinksPoint /\ SessionsBind
  BY <1>2 DEF LinksOpenOnce, LinksPoint, SessionsBind
<1>4. SomebodyAdministers /\ ConfirmedWasAnswered
  BY <1>2 DEF SomebodyAdministers, ConfirmedWasAnswered
<1>5. \A r \in Slots : request[r].at = "idle"
  BY DEF Init, NoRequest
<1>6. RequestsHold
  BY <1>5 DEF RequestsHold, Holds
<1>7. AttemptsAreCounted
  <2> SUFFICES ASSUME NEW b \in Buckets
               PROVE  Cardinality(StandsFor(b)) <= failures[b] /\ failures[b] <= LIMITS[b[1]]
    BY DEF AttemptsAreCounted
  <2>1. StandsFor(b) = {} /\ failures[b] = 0
    BY <1>5 DEF StandsFor, Comparing, Awaits, Init, NoFailures
  <2>2. Cardinality({}) = 0
    BY FS_EmptySet
  <2> QED
    BY <2>1, <2>2, Limits
<1> QED
  BY <1>1, <1>3, <1>4, <1>6, <1>7 DEF IInv, AccountsAreSound

LEMMA TypedStep ==
  ASSUME TypeOK, RequestsHold, [Next]_vars
  PROVE  TypeOK'
<1>1. CASE UNCHANGED vars
  BY <1>1 DEF vars, tables, TypeOK
<1>2. ASSUME NEW r \in Slots, NEW u \in Users, NEW ip \in Ips, NEW ok \in BOOLEAN,
             LoginBegin(r, u, ip, ok)
      PROVE  TypeOK'
  BY <1>2, LoginBeginTyped
<1>3. ASSUME NEW r \in Slots, LoginFails(r) \/ LoginSucceeds(r)
      PROVE  TypeOK'
  BY <1>3, LoginFailsTyped, LoginSucceedsTyped
<1>4. ASSUME NEW r \in Slots, NEW u \in Users, NEW e \in Emails \cup {NoEmail},
             NEW ip \in Ips, SetupBegin(r, u, e, ip)
      PROVE  TypeOK'
  BY <1>4, SetupBeginTyped
<1>5. ASSUME NEW r \in Slots, SetupWrites(r) \/ SetupEnds(r) \/ AcceptEnds(r)
      PROVE  TypeOK'
  BY <1>5, SetupWritesTyped, SetupEndsTyped, AcceptEndsTyped
<1>6. ASSUME NEW r \in Slots, NEW l \in DOMAIN links, AcceptBegin(r, l)
      PROVE  TypeOK'
  BY <1>6, AcceptBeginTyped
<1>7. ASSUME NEW ip \in Ips, SetupWrongCode(ip) \/ SetupRefused(ip)
      PROVE  TypeOK'
  BY <1>7, SetupRefusedTyped
<1>8. ASSUME NEW ip \in Ips, NEW e \in Emails, Forgot(e, ip)
      PROVE  TypeOK'
  BY <1>8, ForgotTyped
<1>9. ASSUME NEW a \in Users, NEW u \in Users, NEW e \in Emails \cup {NoEmail},
             TeamEmail(a, u, e) \/ \E admin \in BOOLEAN : TeamAdd(a, u, e, admin)
      PROVE  TypeOK'
  BY <1>9, TeamAddTyped, TeamEmailTyped
<1>10. ASSUME NEW a \in Users, NEW u \in Users,
              \/ ResendInvite(a, u) \/ TeamDelete(a, u)
              \/ TeamPassword(a, u) \/ TeamVerifyEmail(a, u)
       PROVE  TypeOK'
  BY <1>10, TeamPasswordTyped, TeamLinksTyped
<1>11. ASSUME NEW l \in DOMAIN links, VerifyEmail(l)
       PROVE  TypeOK'
  BY <1>11, VerifyEmailTyped
<1> QED
  BY <1>1, <1>2, <1>3, <1>4, <1>5, <1>6, <1>7, <1>8, <1>9, <1>10, <1>11, TimeTyped DEF Next

LEMMA SoundStep == IInv /\ [Next]_vars => IInv'
<1> SUFFICES ASSUME IInv, [Next]_vars PROVE IInv'
  OBVIOUS
<1>1. /\ TypeOK /\ RequestsHold /\ LinksOpenOnce /\ SomebodyAdministers /\ LinksPoint
      /\ SessionsBind /\ AttemptsAreCounted /\ ConfirmedWasAnswered
  BY DEF IInv, AccountsAreSound
<1>2. TypeOK' /\ LinksGrow /\ EmailsFollow
  BY <1>1, TypedStep, StepLinksGrow, StepEmails
<1>3. LinksOpenOnce' /\ LinksPoint' /\ RequestsHold'
  BY <1>1, <1>2, OpenOnceStep, PointStep, RequestsStep
<1>4. SomebodyAdministers' /\ SessionsBind' /\ AttemptsAreCounted' /\ ConfirmedWasAnswered'
  BY <1>1, <1>2, AdminsStep, SessionsStep, AttemptsStep, ConfirmedStep
<1> QED
  BY <1>2, <1>3, <1>4 DEF IInv, AccountsAreSound

LEMMA IInvAlways == Spec => []IInv
  BY InitSound, SoundStep, PTL DEF Spec

(* However requests overlap, the tables keep their shape, a link is opened  *)
(* at most once and a team with accounts has an administrator.              *)
THEOREM AlwaysSound == Spec => []AccountsAreSound
<1>1. IInv => AccountsAreSound
  BY DEF IInv
<1> QED
  BY <1>1, IInvAlways, PTL

(* However many logins are under way, for any number of accounts, addresses *)
(* and limits, each of them is in its buckets and no bucket overflows.      *)
THEOREM AlwaysCounted == Spec => []AttemptsAreCounted
<1>1. IInv => AttemptsAreCounted
  BY DEF IInv
<1> QED
  BY <1>1, IInvAlways, PTL

(* A session that is honoured was earned with the current password, or is   *)
(* on record as one that raced with its replacement.                        *)
THEOREM AlwaysEarned == Spec => []SignInsAreEarned
<1>1. IInv => SignInsAreEarned
  BY DEF IInv, AccountsAreSound, SessionsBind, SignInsAreEarned, Honoured
<1> QED
  BY <1>1, IInvAlways, PTL

(* A confirmed address was answered, or it is one that its account came to  *)
(* while a link to another address was open.                                *)
THEOREM AlwaysAnswered == Spec => []ConfirmedWasAnswered
<1>1. IInv => ConfirmedWasAnswered
  BY DEF IInv
<1> QED
  BY <1>1, IInvAlways, PTL

-----------------------------------------------------------------------------
(* Shared addresses. *)

LEMMA NobodyMoves ==
  ASSUME \A v \in Users : Exists(v)' => Exists(v) /\ users'[v].email = users[v].email
  PROVE  Shared' \subseteq Shared
  BY DEF Shared, OthersHave, Owners

LEMMA OneMovesAlone ==
  ASSUME NEW u \in Users, NEW e, users'[u].email = e, e \in Emails => ~Taken(e, u),
         \A v \in Users \ {u} : users'[v] = users[v]
  PROVE  Shared' \subseteq Shared
<1> SUFFICES ASSUME NEW x \in Emails, x \in Shared'
             PROVE  x \in Shared
  BY DEF Shared
<1>1. PICK v \in Users, w \in Users : /\ v # w
        /\ Exists(v)' /\ users'[v].email = x
        /\ Exists(w)' /\ users'[w].email = x
  BY DEF Shared, OthersHave, Owners
<1>2. \A y \in {v, w} \ {u} : y \in Owners(x)
  BY <1>1 DEF Owners, Exists
<1>3. u \in {v, w} => u \in Owners(x)
  BY <1>1, <1>2 DEF Taken
<1> QED
  BY <1>1, <1>2, <1>3 DEF Shared, OthersHave

LEMMA SharedStep ==
  ASSUME TypeOK, RequestsHold, [Next]_vars
  PROVE  \/ Shared' \subseteq Shared
         \/ \E r \in Slots : SetupWrites(r) /\ OthersHave(request[r].email, request[r].user)
<1>1. CASE users' = users
  BY <1>1, NobodyMoves DEF Exists
<1>2. ASSUME NEW r \in Slots, SetupWrites(r),
             ~OthersHave(request[r].email, request[r].user)
      PROVE  Shared' \subseteq Shared
  <2>1. PICK u, e : u = request[r].user /\ e = request[r].email
    OBVIOUS
  <2>2. ~Taken(e, u)
    BY <1>2, <2>1 DEF Taken, OthersHave
  <2> QED
    BY <1>2, <2>1, <2>2, SetupWritesUser, OneMovesAlone
<1>3. ASSUME NEW a \in Users, NEW u \in Users, NEW e \in Emails \cup {NoEmail},
             TeamEmail(a, u, e) \/ \E admin \in BOOLEAN : TeamAdd(a, u, e, admin)
      PROVE  Shared' \subseteq Shared
  <2>1. e \in Emails => ~Taken(e, u)
    <3>1. e # NoEmail => ~Taken(e, u) \/ ~Taken(e, NoUser)
      BY <1>3 DEF TeamEmail, TeamAdd
    <3>2. NoUser \notin Owners(e)
      BY AccountsAssumption DEF Owners
    <3> QED
      BY <3>1, <3>2, AccountsAssumption DEF Taken
  <2> QED
    BY <1>3, <2>1, TeamEmailUser, TeamAddUser, OneMovesAlone
<1>4. ASSUME \A v \in Users : Exists(v)' => Exists(v) /\ users'[v].email = users[v].email
      PROVE  Shared' \subseteq Shared
  BY <1>4, NobodyMoves
<1>5. ASSUME NEW r \in Slots, AcceptEnds(r)
      PROVE  Shared' \subseteq Shared
  <2>1. PICK u : u = request[r].user
    OBVIOUS
  <2> QED
    BY <1>4, <1>5, <2>1, AcceptEndsUser DEF Exists
<1>6. ASSUME NEW a \in Users, NEW u \in Users, TeamPassword(a, u)
      PROVE  Shared' \subseteq Shared
  BY <1>4, <1>6, TeamPasswordUser DEF Exists, TeamPassword
<1>7. ASSUME NEW a \in Users, NEW u \in Users, TeamDelete(a, u)
      PROVE  Shared' \subseteq Shared
  <2>1. \A v \in Users : users'[v] \in {users[v], NoAccount}
    BY <1>7 DEF TeamDelete, TypeOK
  <2> QED
    BY <1>4, <2>1 DEF Exists
<1>8. ASSUME NEW l \in DOMAIN links, VerifyEmail(l)
      PROVE  Shared' \subseteq Shared
  BY <1>4, <1>8, VerifyEmailUser DEF SameAccount
<1> QED
  BY <1>1, <1>2, <1>3, <1>5, <1>6, <1>7, <1>8, RequestUsers, OtherUsers DEF Next

(* No step but a set-up that looked too early makes two accounts share an   *)
(* address.                                                                 *)
THEOREM AlwaysDistinct == Spec => AddressesStayDistinct
<1>1. IInv /\ [Next]_vars =>
        [\/ Shared' \subseteq Shared
         \/ \E r \in Slots : SetupWrites(r) /\ OthersHave(request[r].email, request[r].user)]_vars
  BY SharedStep DEF IInv, AccountsAreSound
<1> QED
  BY <1>1, IInvAlways, PTL DEF Spec, AddressesStayDistinct

=============================================================================
