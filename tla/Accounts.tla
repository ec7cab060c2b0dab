------------------------------ MODULE Accounts ------------------------------
(***************************************************************************)
(* Accounts, sessions and emailed links: app/auth/routes.py with           *)
(* app/auth/service.py and the tables users and auth_tokens, throttled by  *)
(* app/auth/throttle.py.                                                   *)
(*                                                                         *)
(* The handlers run on one event loop, so what a handler does between two  *)
(* awaits is one step.  They await where a password is hashed or compared  *)
(* in a thread and where a mail is sent; login, set-up and the links that  *)
(* set a password go on to write after such an await, with what they read  *)
(* before it.                                                              *)
(*                                                                         *)
(* A password is the number of its hash: every hash is salted, so every    *)
(* one is new.  It is also the credential a session is bound to.  A cookie *)
(* that has expired, or was deleted by logout, is one no request carries   *)
(* any more, and a mail that does not arrive a link nobody opens: neither  *)
(* is a step.  Links are the rows of auth_tokens in the order of issue.    *)
(***************************************************************************)
EXTENDS Throttle, Sequences, FiniteSetsExt

CONSTANTS
  Emails,       (* normalised addresses                                    *)
  Slots,        (* requests that may be awaiting something together        *)
  Budget,       (* bound on passwords, links, failures and requests: Room  *)
  EmailEnabled, (* config.email_enabled()                                  *)
  NoAccount, NoEmail, NoUser, NoIp

ASSUME AccountsAssumption ==
  /\ EmailEnabled \in BOOLEAN
  /\ Budget \in Nat
  /\ NoEmail \notin Emails /\ NoUser \notin Users /\ NoIp \notin Ips
  /\ IsFiniteSet(Slots)

VARIABLES
  users,     (* table users                                                *)
  links,     (* table auth_tokens                                          *)
  sessions,  (* the cookies that have been handed out                      *)
  request,   (* the requests that are awaiting                             *)
  hashes,    (* passwords set so far                                       *)
  answered   (* history: <<user, address>> whose link has been opened      *)

tables == <<users, links>>
vars   == <<tables, sessions, request, hashes, failures, answered>>

NoHash   == 0  (* password_hash of an invited account: matches nothing    *)
Purposes == {"invite", "reset", "verify"}
Stages   == {"idle", "comparing", "settingUp", "mailing", "accepting"}

(* moved: history, the account came to the address it has while a link to   *)
(* another one that sets its password was open.                             *)
Account == [password : Nat, admin : BOOLEAN, email : Emails \cup {NoEmail},
            verified : BOOLEAN, moved : BOOLEAN]
(* good: unused, unexpired and not deleted; opened: history.                *)
Link    == [user : Users, purpose : Purposes, email : Emails, good : BOOLEAN,
            opened : Nat]
(* knew: history, the password the holder gave; raced: history, that        *)
(* password was replaced while the request was under way.                   *)
Session == [user : Users, credential : Nat, knew : Nat, raced : BOOLEAN]
(* knew: the hash login compares with, or the one just set.  email and      *)
(* verified: what set-up will write; moved: history, of the account whose   *)
(* flag it writes again.  wiped: history, another sign-in cleared the       *)
(* bucket this login has reserved in.                                       *)
Request == [at : Stages, user : Users \cup {NoUser}, ip : Ips \cup {NoIp},
            ok : BOOLEAN, knew : Nat, link : Nat,
            email : Emails \cup {NoEmail}, verified : BOOLEAN, moved : BOOLEAN,
            raced : BOOLEAN, wiped : BOOLEAN]

ASSUME NoAccountAssumption == NoAccount \notin Account

NoRequest == [at |-> "idle", user |-> NoUser, ip |-> NoIp, ok |-> FALSE,
              knew |-> NoHash, link |-> 0, email |-> NoEmail,
              verified |-> FALSE, moved |-> FALSE, raced |-> FALSE, wiped |-> FALSE]

Init ==
  /\ users = [u \in Users |-> NoAccount]
  /\ links = <<>> /\ sessions = {} /\ hashes = 0
  /\ request = [r \in Slots |-> NoRequest]
  /\ failures = NoFailures
  /\ answered = {}

-----------------------------------------------------------------------------
(* Helpers. *)

Exists(u) == users[u] # NoAccount
Admins    == {u \in Users : Exists(u) /\ users[u].admin}

(* Bound: the passwords set, the links issued, the failures counted against *)
(* addresses and the requests under way.                                    *)
Busy  == {r \in Slots : request[r].at \notin {"idle", "comparing"}}
Spent == hashes + Len(links) + Cardinality(Busy)
         + MapThenSumSet(LAMBDA b : failures[b], {"ip", "setup"} \X Ips)
Room  == Spent < Budget

Owners(e) == {v \in Users : Exists(v) /\ users[v].email = e}

(* user_get_by_email returns one row, if several have the address any of    *)
(* them: what it finds is an account other than u.                          *)
Taken(e, u) == Owners(e) # {} /\ u \notin Owners(e)

Awaits(r, s) == request[r].at = s
Begin(r, q)  == request[r] = NoRequest /\ request' = [request EXCEPT ![r] = q]

(* r ends; the password of u is replaced under the others. *)
EndAndRace(r, u) ==
  [q \in Slots |-> IF q = r THEN NoRequest
                   ELSE IF request[q].user = u THEN [request[q] EXCEPT !.raced = TRUE]
                   ELSE request[q]]
Race(u) == [q \in Slots |-> IF request[q].user = u
                            THEN [request[q] EXCEPT !.raced = TRUE] ELSE request[q]]

(* issue_token *)
Issue(u, purpose, e) ==
  /\ Room
  /\ links' = Append(links, [user |-> u, purpose |-> purpose, email |-> e,
                             good |-> TRUE, opened |-> 0])

(* Seeded bug: a link is looked up and not claimed. *)
ConsumePeeking(l) == [links EXCEPT ![l].opened = @ + 1]

(* auth_token_consume: the UPDATE that claims it is its check as well. *)
Consume(l) ==
  LET used == [links[l] EXCEPT !.good = FALSE]
  IN [links EXCEPT ![l] = [used EXCEPT !.opened = links[l].opened + 1]]

(* _send_email_verification *)
SendVerification(u, e) ==
  IF EmailEnabled THEN Issue(u, "verify", e) ELSE UNCHANGED links

(* History: a link that will set a password was sent to another address. *)
OpenElsewhere(u, e) ==
  \/ \E l \in DOMAIN links : /\ links[l].user = u /\ links[l].purpose # "verify"
                             /\ links[l].email # e /\ links[l].good
  \/ \E r \in Slots : /\ Awaits(r, "accepting") /\ request[r].user = u
                      /\ links[request[r].link].email # e

(* Seeded bug: the credential in the cookie is not compared. *)
HonouredAnyway(s) == Exists(s.user)

(* read_session: signed, unexpired, and for the current password. *)
Honoured(s) == Exists(s.user) /\ users[s.user].password = s.credential

(* make_session, with the password the account has by now; it raises when   *)
(* the account is gone.                                                     *)
SessionOf(table, u, knew, raced) ==
  IF table[u] = NoAccount THEN {}
  ELSE {[user |-> u, credential |-> table[u].password, knew |-> knew,
         raced |-> raced]}

(* current_user *)
SignedIn(u)    == \E s \in sessions : s.user = u /\ Honoured(s)
MayManage(a, u) == SignedIn(a) /\ (u = a \/ users[a].admin)

-----------------------------------------------------------------------------
(* POST /login *)

LoginBuckets(u, ip) == {<<"user", u>>, <<"ip", ip>>}

(* Seeded bug: only the account's bucket is looked at. *)
AdmittedByUser(u, ip) == ~Full(<<"user", u>>)

Admitted(u, ip) == \A b \in LoginBuckets(u, ip) : ~Full(b)

(* ok: the password given is the account's. *)
LoginBegin(r, u, ip, ok) ==
  /\ Room
  /\ Admitted(u, ip)
  /\ failures' = Reserved(failures, LoginBuckets(u, ip))
  /\ IF Exists(u)
       THEN /\ ok => users[u].password # NoHash
            /\ Begin(r, [NoRequest EXCEPT !.at = "comparing", !.user = u, !.ip = ip,
                         !.ok = ok, !.knew = IF ok THEN users[u].password ELSE NoHash])
       ELSE ~ok /\ UNCHANGED request
  /\ UNCHANGED <<tables, sessions, hashes, answered>>

LoginFails(r) ==
  /\ Awaits(r, "comparing") /\ ~request[r].ok
  /\ request' = [request EXCEPT ![r] = NoRequest]
  /\ UNCHANGED <<tables, sessions, hashes, failures, answered>>

LoginSucceeds(r) ==
  LET u == request[r].user IN
  /\ Awaits(r, "comparing") /\ request[r].ok
  /\ failures' = Released(Cleared(failures, <<"user", u>>), <<"ip", request[r].ip>>)
  /\ sessions' = sessions \cup SessionOf(users, u, request[r].knew, request[r].raced)
  /\ request' = [q \in Slots |->
       IF q = r THEN NoRequest
       ELSE IF Awaits(q, "comparing") /\ request[q].user = u
         THEN [request[q] EXCEPT !.wiped = TRUE] ELSE request[q]]
  /\ UNCHANGED <<tables, hashes, answered>>

-----------------------------------------------------------------------------
(* POST /setup *)

SetupWrongCode(ip) ==
  /\ Room
  /\ ~Full(<<"setup", ip>>)
  /\ failures' = Registered(failures, <<"setup", ip>>)
  /\ UNCHANGED <<tables, sessions, request, hashes, answered>>

(* The code is right and the form is not, or the address is another's. *)
SetupRefused(ip) ==
  /\ ~Full(<<"setup", ip>>)
  /\ failures' = Cleared(failures, <<"setup", ip>>)
  /\ UNCHANGED <<tables, sessions, request, hashes, answered>>

(* Seeded bug: the new address is taken for confirmed when the old one is.  *)
SetupBeginAnyAddress(r, u, e, ip) ==
  LET email == IF e # NoEmail THEN e ELSE IF Exists(u) THEN users[u].email ELSE NoEmail
      kept  == email # NoEmail /\ Exists(u) /\ users[u].verified
  IN
  /\ Room
  /\ ~Full(<<"setup", ip>>)
  /\ failures' = Cleared(failures, <<"setup", ip>>)
  /\ e # NoEmail => ~Taken(e, u)
  /\ Begin(r, [NoRequest EXCEPT
       !.at = "settingUp", !.user = u, !.email = email,
       !.verified = kept, !.moved = kept /\ users[u].moved])
  /\ UNCHANGED <<tables, sessions, hashes, answered>>

(* A blank address keeps the one on file, and its confirmation. *)
SetupBegin(r, u, e, ip) ==
  LET onFile == IF Exists(u) THEN users[u].email ELSE NoEmail
      email  == IF e = NoEmail THEN onFile ELSE e
      kept   == email # NoEmail /\ email = onFile /\ users[u].verified
  IN
  /\ Room
  /\ ~Full(<<"setup", ip>>)
  /\ failures' = Cleared(failures, <<"setup", ip>>)
  /\ e # NoEmail => ~Taken(e, u)
  /\ Begin(r, [NoRequest EXCEPT
       !.at = "settingUp", !.user = u, !.email = email,
       !.verified = kept, !.moved = kept /\ users[u].moved])
  /\ UNCHANGED <<tables, sessions, hashes, answered>>

(* user_upsert, with the address and the flag of the reading above. *)
SetupWrites(r) ==
  LET u == request[r].user  e == request[r].email
      confirm == EmailEnabled /\ e # NoEmail /\ ~request[r].verified
  IN
  /\ Awaits(r, "settingUp")
  /\ hashes' = hashes + 1
  /\ users' = [users EXCEPT ![u] =
       [password |-> hashes + 1, admin |-> TRUE, email |-> e,
        verified |-> request[r].verified,
        moved |-> OpenElsewhere(u, e) \/ request[r].moved]]
  /\ IF confirm
       THEN /\ Issue(u, "verify", e)
            /\ request' = [EndAndRace(r, u) EXCEPT ![r] =
                 [NoRequest EXCEPT !.at = "mailing", !.user = u, !.knew = hashes + 1]]
            /\ UNCHANGED sessions
       ELSE /\ request' = EndAndRace(r, u)
            /\ sessions' = sessions \cup SessionOf(users', u, hashes + 1, FALSE)
            /\ UNCHANGED links
  /\ UNCHANGED <<failures, answered>>

SetupEnds(r) ==
  /\ Awaits(r, "mailing")
  /\ sessions' = sessions
       \cup SessionOf(users, request[r].user, request[r].knew, request[r].raced)
  /\ request' = [request EXCEPT ![r] = NoRequest]
  /\ UNCHANGED <<tables, hashes, failures, answered>>

-----------------------------------------------------------------------------
(* The team page, for a signed-in a. *)

(* POST /team/add: with an address, an invitation; else a password. *)
TeamAdd(a, u, e, admin) ==
  LET invite == e # NoEmail /\ EmailEnabled
      new    == [password |-> IF invite THEN NoHash ELSE hashes + 1,
                 admin |-> admin, email |-> e, verified |-> FALSE,
                 moved |-> OpenElsewhere(u, e)]
  IN
  /\ SignedIn(a) /\ users[a].admin
  /\ ~Exists(u)
  /\ e # NoEmail => ~Taken(e, NoUser)
  /\ users' = [users EXCEPT ![u] = new]
  /\ IF invite THEN Issue(u, "invite", e) /\ UNCHANGED hashes
     ELSE Room /\ hashes' = hashes + 1 /\ UNCHANGED links
  /\ request' = Race(u)
  /\ UNCHANGED <<sessions, failures, answered>>

(* POST /team/resend-invite: to any account with an address. *)
ResendInvite(a, u) ==
  /\ SignedIn(a) /\ users[a].admin
  /\ Exists(u) /\ users[u].email # NoEmail
  /\ Issue(u, "invite", users[u].email)
  /\ UNCHANGED <<users, sessions, request, hashes, failures, answered>>

(* Seeded bug: one's own account, and one administrator too few. *)
DeletableAny(a, u) == users[u].admin => Cardinality(Admins) >= 1

(* The second guard never bites: the administrator a is left.               *)
Deletable(a, u) == u # a /\ (users[u].admin => Cardinality(Admins) > 1)

(* POST /team/delete: the links of the account stay. *)
TeamDelete(a, u) ==
  /\ SignedIn(a) /\ users[a].admin
  /\ Exists(u) /\ Deletable(a, u)
  /\ users' = [users EXCEPT ![u] = NoAccount]
  /\ UNCHANGED <<links, sessions, request, hashes, failures, answered>>

(* POST /team/password: hashed on the event loop. *)
TeamPassword(a, u) ==
  /\ MayManage(a, u) /\ Exists(u) /\ Room
  /\ hashes' = hashes + 1
  /\ users' = [users EXCEPT ![u].password = hashes + 1]
  /\ request' = Race(u)
  /\ UNCHANGED <<links, sessions, failures, answered>>

(* Seeded bug: the address is saved without looking for its owner. *)
TeamEmailUnchecked(a, u, e) ==
  /\ MayManage(a, u) /\ Exists(u)
  /\ users' = [users EXCEPT ![u].email = e, ![u].verified = FALSE,
                            ![u].moved = OpenElsewhere(u, e)]
  /\ IF e = NoEmail THEN UNCHANGED links ELSE SendVerification(u, e)
  /\ UNCHANGED <<sessions, request, hashes, failures, answered>>

(* POST /team/email *)
TeamEmail(a, u, e) ==
  /\ MayManage(a, u) /\ Exists(u)
  /\ e # NoEmail => ~Taken(e, u)
  /\ users' = [users EXCEPT ![u].email = e, ![u].verified = FALSE,
                            ![u].moved = OpenElsewhere(u, e)]
  /\ IF e = NoEmail THEN UNCHANGED links ELSE SendVerification(u, e)
  /\ UNCHANGED <<sessions, request, hashes, failures, answered>>

(* POST /team/verify-email *)
TeamVerifyEmail(a, u) ==
  /\ MayManage(a, u) /\ Exists(u) /\ users[u].email # NoEmail
  /\ EmailEnabled /\ Issue(u, "verify", users[u].email)
  /\ UNCHANGED <<users, sessions, request, hashes, failures, answered>>

-----------------------------------------------------------------------------
(* Links. *)

Opens(l) == answered' = answered \cup {<<links[l].user, links[l].email>>}

(* Seeded bug: whatever address the account has is confirmed. *)
ConfirmedAnyway(u, e) ==
  IF Exists(u) THEN [users EXCEPT ![u].verified = TRUE] ELSE users

(* user_mark_email_verified *)
Confirmed(u, e) ==
  IF Exists(u) /\ users[u].email = e
    THEN [users EXCEPT ![u].verified = TRUE] ELSE users

(* GET /verify/{token} *)
VerifyEmail(l) ==
  /\ links[l].purpose = "verify" /\ links[l].good
  /\ links' = Consume(l)
  /\ users' = Confirmed(links[l].user, links[l].email)
  /\ Opens(l)
  /\ UNCHANGED <<sessions, request, hashes, failures>>

(* POST /invite/{token}, POST /reset/{token} *)
AcceptBegin(r, l) ==
  /\ Room
  /\ links[l].purpose \in {"invite", "reset"} /\ links[l].good
  /\ links' = Consume(l)
  /\ Begin(r, [NoRequest EXCEPT !.at = "accepting", !.user = links[l].user,
               !.link = l])
  /\ Opens(l)
  /\ UNCHANGED <<users, sessions, hashes, failures>>

(* user_set_password(mark_verified=True) writes nothing to an account that  *)
(* is gone; a reset burns the reset links that are left.                    *)
AcceptEnds(r) ==
  LET u == request[r].user  reset == links[request[r].link].purpose = "reset" IN
  /\ Awaits(r, "accepting")
  /\ hashes' = hashes + 1
  /\ users' = IF Exists(u)
       THEN [users EXCEPT ![u].password = hashes + 1, ![u].verified = TRUE]
       ELSE users
  /\ links' = [l \in DOMAIN links |->
       IF reset /\ links[l].user = u /\ links[l].purpose = "reset"
         THEN [links[l] EXCEPT !.good = FALSE] ELSE links[l]]
  /\ sessions' = sessions \cup SessionOf(users', u, hashes + 1, FALSE)
  /\ request' = EndAndRace(r, u)
  /\ UNCHANGED <<failures, answered>>

(* POST /forgot: only a confirmed address gets a link. *)
Forgot(e, ip) ==
  /\ Room
  /\ ~Full(<<"setup", ip>>)
  /\ failures' = Registered(failures, <<"setup", ip>>)
  /\ \/ /\ EmailEnabled
        /\ \E u \in Users : /\ Exists(u) /\ users[u].email = e /\ users[u].verified
                            /\ Issue(u, "reset", e)
     \/ /\ ~EmailEnabled \/ \E u \in Users \cup {NoUser} :
             IF u = NoUser THEN Owners(e) = {}
             ELSE Exists(u) /\ users[u].email = e /\ ~users[u].verified
        /\ UNCHANGED links
  /\ UNCHANGED <<users, sessions, request, hashes, answered>>

-----------------------------------------------------------------------------
(* Time. *)

LinkExpires(l) ==
  /\ links[l].good
  /\ links' = [links EXCEPT ![l].good = FALSE]
  /\ UNCHANGED <<users, sessions, request, hashes, failures, answered>>

(* Logins under way that an entry of the bucket stands for. *)
Comparing == {r \in Slots : Awaits(r, "comparing")}
StandsFor(b) ==
  IF b[1] = "user" THEN {r \in Comparing : request[r].user = b[2] /\ ~request[r].wiped}
  ELSE IF b[1] = "ip" THEN {r \in Comparing : request[r].ip = b[2]}
  ELSE {}

(* A comparison takes milliseconds and the window minutes: an entry does    *)
(* not leave the window before its login has ended.                         *)
FailureAges(b) ==
  /\ failures[b] > Cardinality(StandsFor(b))
  /\ Ages(b)
  /\ UNCHANGED <<tables, sessions, request, hashes, answered>>

-----------------------------------------------------------------------------
Next ==
  \/ \E r \in Slots :
       \/ \E u \in Users, ip \in Ips, ok \in BOOLEAN : LoginBegin(r, u, ip, ok)
       \/ LoginFails(r) \/ LoginSucceeds(r)
       \/ \E u \in Users, e \in Emails \cup {NoEmail}, ip \in Ips : SetupBegin(r, u, e, ip)
       \/ SetupWrites(r) \/ SetupEnds(r)
       \/ \E l \in DOMAIN links : AcceptBegin(r, l)
       \/ AcceptEnds(r)
  \/ \E ip \in Ips : \/ SetupWrongCode(ip) \/ SetupRefused(ip)
                     \/ \E e \in Emails : Forgot(e, ip)
  \/ \E a, u \in Users :
       \/ \E e \in Emails \cup {NoEmail} :
            \/ \E admin \in BOOLEAN : TeamAdd(a, u, e, admin)
            \/ TeamEmail(a, u, e)
       \/ ResendInvite(a, u) \/ TeamDelete(a, u)
       \/ TeamPassword(a, u) \/ TeamVerifyEmail(a, u)
  \/ \E l \in DOMAIN links : VerifyEmail(l) \/ LinkExpires(l)
  \/ \E b \in Buckets : FailureAges(b)

Spec == Init /\ [][Next]_vars

-----------------------------------------------------------------------------
TypeOK ==
  /\ users \in [Users -> Account \cup {NoAccount}]
  /\ links \in Seq(Link)
  /\ sessions \subseteq Session
  /\ request \in [Slots -> Request]
  /\ hashes \in Nat
  /\ failures \in [Buckets -> Nat]
  /\ answered \subseteq Users \X Emails

(* However many people open one link at once, it is opened by one: it sets  *)
(* one password or confirms one address (db.py 280-298).                    *)
LinksOpenOnce ==
  \A l \in DOMAIN links : links[l].opened + (IF links[l].good THEN 1 ELSE 0) <= 1

(* A team is never without an administrator, not even when two of them      *)
(* delete each other or a set-up overwrites one (routes.py 280-296).        *)
SomebodyAdministers == (\E u \in Users : Exists(u)) => Admins # {}

(* What a request goes on with after its await is still true of the account *)
(* it reads for the second time, or the race is on record.                  *)
Holds(r) ==
  LET q == request[r]  u == q.user  known == q.user \in Users /\ Exists(q.user) IN
  /\ q.at # "idle" => u \in Users
  /\ q.at = "comparing" => q.ip \in Ips
  /\ known /\ (q.at = "mailing" \/ (q.at = "comparing" /\ q.ok)) =>
       q.raced \/ q.knew = users[u].password
  /\ q.at = "settingUp" /\ q.verified /\ q.email # NoEmail =>
       <<u, q.email>> \in answered \/ q.moved
  /\ q.at = "accepting" =>
       /\ q.link \in DOMAIN links
       /\ links[q.link].user = u /\ links[q.link].purpose # "verify"
       /\ <<u, links[q.link].email>> \in answered
       /\ known => users[u].email = links[q.link].email \/ users[u].moved

RequestsHold == \A r \in Slots : Holds(r)

(* A link that will set a password was sent to the address its account has, *)
(* or the account came to that address while such a link was open.          *)
LinksPoint ==
  \A l \in DOMAIN links :
    links[l].good /\ links[l].purpose # "verify" /\ Exists(links[l].user) =>
      users[links[l].user].email = links[l].email \/ users[links[l].user].moved

SessionsBind == \A s \in sessions : s.knew = s.credential \/ s.raced

(* The tables are what the code writes, every link has been opened at most  *)
(* once, somebody can always manage the others, and what the requests, the  *)
(* links and the sessions carry is true of their accounts.                  *)
AccountsAreSound ==
  /\ TypeOK /\ LinksOpenOnce /\ SomebodyAdministers
  /\ RequestsHold /\ LinksPoint /\ SessionsBind

(* A login under way is counted against its address, and against its        *)
(* account unless another sign-in has succeeded meanwhile: however logins   *)
(* overlap, no more are under way than the limit, because a release gives   *)
(* back one entry and a refused attempt takes none (throttle.py 66-107).    *)
AttemptsAreCounted ==
  \A b \in Buckets : /\ Cardinality(StandsFor(b)) <= failures[b]
                     /\ failures[b] <= LIMITS[b[1]]

(* Who is signed in gave the password the account has now, unless it was    *)
(* replaced while they were signing in: every older session ends with a     *)
(* change of the password, and with the account, even when another of the   *)
(* same name follows (service.py 131-176, routes.py 489).                   *)
SignInsAreEarned ==
  \A s \in sessions :
    Honoured(s) => s.knew = users[s.user].password \/ s.raced

(* Two accounts come to share an address only by a set-up that looked       *)
(* before it awaited the hash and the address was given away meanwhile      *)
(* (routes.py 160-180, 228, 339-342).                                       *)
OthersHave(e, u) == Owners(e) \ {u} # {}
Shared == {e \in Emails : \E u \in Owners(e) : OthersHave(e, u)}

AddressesStayDistinct ==
  [][Shared' \subseteq Shared
       \/ \E r \in Slots : SetupWrites(r) /\ OthersHave(request[r].email, request[r].user)]_vars

(* A confirmed address has opened a link that was sent to it.  The one      *)
(* exception is an address the account came to while an invitation or a     *)
(* reset link to another one was open, or being answered: that link         *)
(* confirms whatever address it finds.  It excuses this address of this     *)
(* account, not the next one and not an account of the same name that       *)
(* follows (db.py 232-242, 254-265; routes.py 430, 490).                    *)
ConfirmedWasAnswered ==
  \A u \in Users :
    Exists(u) /\ users[u].verified /\ users[u].email # NoEmail
      => <<u, users[u].email>> \in answered \/ users[u].moved
=============================================================================
