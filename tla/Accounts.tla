------------------------------ MODULE Accounts ------------------------------
(***************************************************************************)
(* The accounts of server.go and store.go: the tables users, sessions and  *)
(* password_resets, and the HTTP handlers that work on them.               *)
(*                                                                         *)
(* Handlers run concurrently, each in a goroutine of its own, and there is *)
(* no transaction: each SQL statement is a step, and what a handler has    *)
(* read may be stale when it writes.  A statement may fail (SQLite reports *)
(* a busy database); most handlers then give up half-way.                  *)
(*                                                                         *)
(* Random ids and tokens are numbers that are handed out once.  A slug is  *)
(* a base and a suffix: <<b, 1>> stands for "b", <<b, 2>> for "b-2".  A    *)
(* hash is the password it was made from.  The monitors of an account are  *)
(* left out: no handler creates any at this commit.  Expiry is left out    *)
(* too: an expired session or token is one that no client presents, for    *)
(* all that expiry does is to make its lookup fail.                        *)
(***************************************************************************)
EXTENDS Naturals, FiniteSets

CONSTANTS
  Requests,     \* the request goroutines
  Emails,       \* what clients enter as e-mail addresses
  Lower,        \* strings.ToLower on Emails
  Bases,        \* what deriveSlug makes of an address
  BaseOf,       \* deriveSlug
  MaxSuffix,    \* bound: the candidates uniqueSlug tries (then: a random suffix)
  Passwords,    \* acceptable passwords
  Demo,         \* DEMO_EMAIL, as a set that is empty if it is not set
  MaxUsers,     \* bound: how many accounts are created
  MaxSessions,  \* bound: how many sessions are created
  MaxResets,    \* bound: how many reset tokens are created
  MaxRows,      \* bound: how many accounts and reset tokens are created in all
  MaxFaults     \* bound: how many statements fail, the process dying included

ASSUME InputAssumption ==
  /\ Lower \in [Emails -> Emails]
  /\ \A e \in Emails : Lower[Lower[e]] = Lower[e]
  /\ BaseOf \in [Emails -> Bases]
  /\ IsFiniteSet(Requests) /\ Requests # {}
  /\ Demo \subseteq Emails /\ Cardinality(Demo) <= 1

ASSUME BoundsAssumption ==
  /\ MaxUsers \in Nat /\ MaxSessions \in Nat /\ MaxResets \in Nat
  /\ MaxFaults \in Nat /\ MaxSuffix \in Nat /\ MaxRows \in Nat

VARIABLES
  users,        \* table users: id -> row
  sessions,     \* table sessions: token -> row
  resets,       \* table password_resets: token -> row
  request,      \* per goroutine its handler's position and local variables
  lastUser,     \* the last user id handed out
  lastSession,  \* the last session token handed out
  faults,       \* counts the failed statements (bound)
  retired,      \* per deleted account the last session token there was when the
                \* deletion was asked for (history variable)
  uses          \* per reset token the passwords it has set (history variable)

tables == <<users, sessions, resets>>
ids    == <<lastUser, lastSession>>
vars   == <<users, sessions, resets, request, lastUser, lastSession, faults,
            retired, uses>>

Slugs == Bases \X (1..MaxSuffix)

User    == [email : Emails, hash : Passwords, slug : Slugs]
Session == [user : 1..lastUser]
Reset   == [user : 1..lastUser, used : {0, 1}]

\* The table with row under key; the table without the rows that satisfy Gone.
With(table, key, row) ==
  [x \in DOMAIN table \cup {key} |-> IF x = key THEN row ELSE table[x]]

Without(table, keys) == [x \in DOMAIN table \ keys |-> table[x]]

UsersWith(email) == {u \in DOMAIN users : users[u].email = email}

Holders(slug) == {u \in DOMAIN users : users[u].slug = slug}

Idle == [stage |-> "idle"]

Down == [stage |-> "down"]

At(r, stage) == request[r].stage = stage

Continue(r, next) == request' = [request EXCEPT ![r] = next]

\* The bound on what is created: one more row.
Room == lastUser + Cardinality(DOMAIN resets) < MaxRows

\* uniqueSlug comes to try slug when nothing runs beside it.
Tries(base, slug) ==
  /\ slug[1] = base
  /\ \A n \in 1..(slug[2] - 1) : Holders(<<base, n>>) # {}

Init ==
  /\ users = [u \in {} |-> Idle] /\ sessions = [t \in {} |-> Idle]
  /\ resets = [t \in {} |-> Idle]
  /\ request = [r \in Requests |-> Down]
  /\ lastUser = 0 /\ lastSession = 0 /\ faults = 0
  /\ retired = [u \in {} |-> 0] /\ uses = [t \in 1..MaxResets |-> 0]

-----------------------------------------------------------------------------
(* main, before it serves requests *)

\* The address has its account (then only its monitor limit is set, which
\* nothing reads), or there is none to seed, or seeding fails and is logged.
Serve ==
  /\ \A r \in Requests : At(r, "down")
  /\ request' = [r \in Requests |-> Idle]
  /\ UNCHANGED <<tables, ids, faults, retired, uses>>

\* Before the server starts the demo account is created, once more if no
\* account has its address now.  Its slug is free, or the count failed.
SeedDemoAccount ==
  /\ \A r \in Requests : At(r, "down")
  /\ \E email \in Demo, password \in Passwords, slug \in Slugs :
       /\ UsersWith(email) = {} /\ Tries(BaseOf[email], slug)
       /\ \/ Holders(slug) = {} /\ UNCHANGED faults
          \/ faults < MaxFaults /\ faults' = faults + 1
       /\ Room /\ lastUser < MaxUsers /\ lastUser' = lastUser + 1
       /\ users' = With(users, lastUser',
            [email |-> email, hash |-> password, slug |-> slug])
  /\ request' = [r \in Requests |-> Idle]
  /\ UNCHANGED <<sessions, resets, lastSession, retired, uses>>

\* The process dies between any two statements and starts again.
Restart ==
  /\ \E r \in Requests : ~At(r, "idle") /\ ~At(r, "down")
  /\ faults < MaxFaults /\ faults' = faults + 1
  /\ request' = [r \in Requests |-> Down]
  /\ UNCHANGED <<tables, ids, retired, uses>>

-----------------------------------------------------------------------------
(* signupHandler *)

\* uniqueSlug counts the users with the n-th candidate.  When the statement
\* fails the count stays 0.
CountCandidate(r, q) ==
  LET slug == <<BaseOf[q.email], q.n>>
      taken == [q EXCEPT !.n = @ + 1]
      free == [stage |-> "insert", email |-> q.email, password |-> q.password,
               slug |-> slug] IN
  /\ q.n <= MaxSuffix
  /\ \/ /\ Continue(r, IF Holders(slug) = {} THEN free ELSE taken)
        /\ UNCHANGED faults
     \/ /\ faults < MaxFaults /\ faults' = faults + 1
        /\ Continue(r, free)
  /\ UNCHANGED <<tables, ids, retired, uses>>

Signup(r, email, password) ==
  /\ At(r, "idle")
  /\ CountCandidate(r, [stage |-> "candidate", email |-> email,
                        password |-> password, n |-> 1])

Candidate(r) == At(r, "candidate") /\ CountCandidate(r, request[r])

\* INSERT INTO users; the address is UNIQUE.
InsertUser(r) ==
  LET q == request[r] IN
  /\ At(r, "insert")
  /\ IF UsersWith(q.email) # {}
       THEN Continue(r, Idle) /\ UNCHANGED <<users, lastUser>>
       ELSE /\ Room /\ lastUser < MaxUsers /\ lastUser' = lastUser + 1
            /\ users' = With(users, lastUser',
                 [email |-> q.email, hash |-> q.password, slug |-> q.slug])
            /\ Continue(r, [stage |-> "session", user |-> lastUser'])
  /\ UNCHANGED <<sessions, resets, lastSession, faults, retired, uses>>

\* CreateSession, for signupHandler and loginHandler.
CreateSession(r) ==
  /\ At(r, "session")
  /\ lastSession < MaxSessions /\ lastSession' = lastSession + 1
  /\ sessions' = With(sessions, lastSession',
       [user |-> request[r].user])
  /\ Continue(r, Idle)
  /\ UNCHANGED <<users, resets, lastUser, faults, retired, uses>>

-----------------------------------------------------------------------------
(* loginHandler, logoutHandler *)

\* GetUserByEmail of the address as it was entered, then CheckPassword.
Login(r, email, password) ==
  /\ At(r, "idle")
  /\ \E u \in UsersWith(email) :
       /\ users[u].hash = password
       /\ Continue(r, [stage |-> "session", user |-> u])
  /\ UNCHANGED <<tables, ids, faults, retired, uses>>

Logout(r, token) ==
  /\ At(r, "idle")
  /\ sessions' = Without(sessions, {token})
  /\ UNCHANGED <<users, resets, request, ids, faults, retired, uses>>

-----------------------------------------------------------------------------
(* forgotPasswordHandler, resetPasswordHandler *)

\* GetUserByEmail of the address in lower case.
ForgotPassword(r, email) ==
  /\ At(r, "idle")
  /\ \E u \in UsersWith(Lower[email]) :
       Continue(r, [stage |-> "createReset", user |-> u])
  /\ UNCHANGED <<tables, ids, faults, retired, uses>>

CreatePasswordReset(r) ==
  LET token == Cardinality(DOMAIN resets) + 1 IN
  /\ At(r, "createReset") /\ Room /\ token <= MaxResets
  /\ resets' = With(resets, token,
       [user |-> request[r].user, used |-> 0])
  /\ Continue(r, Idle)
  /\ UNCHANGED <<users, sessions, ids, faults, retired, uses>>

\* Mutant of GetPasswordReset: the column used is not looked at.
GetPasswordResetUsed(token) == TRUE

\* GetPasswordReset succeeds.
GetPasswordReset(token) == resets[token].used # 1

ResetPassword(r, token, password) ==
  /\ At(r, "idle") /\ GetPasswordReset(token)
  /\ Continue(r, [stage |-> "resetPassword", user |-> resets[token].user,
                  token |-> token, password |-> password])
  /\ UNCHANGED <<tables, ids, faults, retired, uses>>

\* Mutant of SetHash: the row is inserted again when it is gone.
SetHashAnew(u, password) ==
  With(users, u, [email |-> CHOOSE e \in Emails : TRUE, hash |-> password,
                  slug |-> CHOOSE s \in Slugs : TRUE])

\* UPDATE users SET password_hash WHERE id.
SetHash(u, password) ==
  IF u \in DOMAIN users THEN [users EXCEPT ![u].hash = password] ELSE users

\* store.UpdatePassword in resetPasswordHandler.
UpdateForgotten(r) ==
  LET q == request[r] IN
  /\ At(r, "resetPassword")
  /\ users' = SetHash(q.user, q.password)
  /\ uses' = [uses EXCEPT ![q.token] = @ + 1]
  /\ Continue(r, [stage |-> "markUsed", token |-> q.token])
  /\ UNCHANGED <<sessions, resets, ids, faults, retired>>

\* UPDATE password_resets SET used = 1.
Marked(token) == [resets EXCEPT ![token].used = 1]

MarkPasswordResetUsed(r) ==
  /\ At(r, "markUsed")
  /\ resets' = Marked(request[r].token)
  /\ Continue(r, Idle)
  /\ UNCHANGED <<users, sessions, ids, faults, retired, uses>>

-----------------------------------------------------------------------------
(* The handlers of a signed-in user begin with currentUser. *)

\* The user of a session: users JOIN sessions.
GetUserBySession(token) == {u \in DOMAIN users : sessions[token].user = u}

\* currentUser has found u.
SignedIn(r, token, u) ==
  /\ At(r, "idle") /\ u \in GetUserBySession(token)
  /\ UNCHANGED <<tables, ids, faults, retired, uses>>

\* The password the handler compares is that of the row currentUser has read.
Verified(u, password) == u \in DOMAIN users /\ users[u].hash = password

\* profileSlugHandler
ProfileSlug(r, token, slug) ==
  \E u \in 1..MaxUsers :
    SignedIn(r, token, u)
      /\ Continue(r, [stage |-> "available", user |-> u, slug |-> slug])

\* Mutant of IsSlugAvailable: the answer is ignored.
IsSlugAvailableAlways(slug, u) == TRUE

\* No user but u has the slug.
IsSlugAvailable(slug, u) == Holders(slug) \subseteq {u}

Available(r) ==
  LET q == request[r] IN
  /\ At(r, "available")
  /\ Continue(r, IF IsSlugAvailable(q.slug, q.user)
                   THEN [q EXCEPT !.stage = "setSlug"] ELSE Idle)
  /\ UNCHANGED <<tables, ids, faults, retired, uses>>

UpdateUserSlug(r) ==
  LET q == request[r] IN
  /\ At(r, "setSlug")
  /\ users' = IF q.user \in DOMAIN users
                THEN [users EXCEPT ![q.user].slug = q.slug] ELSE users
  /\ Continue(r, Idle)
  /\ UNCHANGED <<sessions, resets, ids, faults, retired, uses>>

\* accountPasswordHandler
AccountPassword(r, token, current, password) ==
  \E u \in 1..MaxUsers :
    /\ SignedIn(r, token, u) /\ Verified(u, current)
    /\ Continue(r, [stage |-> "setPassword", user |-> u, password |-> password])

UpdatePassword(r) ==
  LET q == request[r] IN
  /\ At(r, "setPassword")
  /\ users' = SetHash(q.user, q.password)
  /\ Continue(r, Idle)
  /\ UNCHANGED <<sessions, resets, ids, faults, retired, uses>>

\* accountEmailHandler
AccountEmail(r, token, password, email) ==
  \E u \in 1..MaxUsers :
    /\ SignedIn(r, token, u) /\ Verified(u, password)
    /\ Continue(r, [stage |-> "emailTaken", user |-> u, email |-> Lower[email]])

\* GetUserByEmail of the new address; any error counts as "not in use".
EmailTaken(r) ==
  LET q == request[r]
      free == [q EXCEPT !.stage = "setEmail"] IN
  /\ At(r, "emailTaken")
  /\ \/ /\ Continue(r, IF UsersWith(q.email) = {} THEN free ELSE Idle)
        /\ UNCHANGED faults
     \/ /\ faults < MaxFaults /\ faults' = faults + 1
        /\ Continue(r, free)
  /\ UNCHANGED <<tables, ids, retired, uses>>

\* Mutant of EmailUnique: the column is not UNIQUE.
EmailUniqueNever(email, u) == TRUE

\* The UNIQUE constraint on users.email lets u have the address.
EmailUnique(email, u) == UsersWith(email) \subseteq {u}

UpdateEmail(r) ==
  LET q == request[r] IN
  /\ At(r, "setEmail")
  /\ users' = IF q.user \in DOMAIN users /\ EmailUnique(q.email, q.user)
                THEN [users EXCEPT ![q.user].email = q.email] ELSE users
  /\ Continue(r, Idle)
  /\ UNCHANGED <<sessions, resets, ids, faults, retired, uses>>

\* accountDeleteHandler; since is a history variable.
AccountDelete(r, token, password) ==
  \E u \in 1..MaxUsers :
    /\ SignedIn(r, token, u) /\ Verified(u, password)
    /\ Continue(r, [stage |-> "deleteSessions", user |-> u, since |-> lastSession])

\* DeleteAccount: DELETE FROM sessions ...
DeleteSessions(r) ==
  LET u == request[r].user IN
  /\ At(r, "deleteSessions")
  /\ sessions' = Without(sessions, {t \in DOMAIN sessions : sessions[t].user = u})
  /\ Continue(r, [stage |-> "deleteUser", user |-> u, since |-> request[r].since])
  /\ UNCHANGED <<users, resets, ids, faults, retired, uses>>

\* ... and DELETE FROM users.  password_resets is not touched.
DeleteUser(r) ==
  LET u == request[r].user IN
  /\ At(r, "deleteUser")
  /\ users' = Without(users, {u})
  /\ retired' = IF u \in DOMAIN users THEN With(retired, u, request[r].since)
                                      ELSE retired
  /\ Continue(r, Idle)
  /\ UNCHANGED <<sessions, resets, ids, faults, uses>>

-----------------------------------------------------------------------------
\* Mutant of GivesUp: DeleteAccount goes on to the next table.
GivesUpLate(r) ==
  IF At(r, "deleteSessions")
    THEN [stage |-> "deleteUser", user |-> request[r].user,
          since |-> request[r].since]
    ELSE Idle

\* A statement fails, and the handler gives up: an error is answered, or (in
\* forgotPasswordHandler, and after the password is set) only logged.
GivesUp(r) == Idle

Fail(r) ==
  /\ request[r].stage \notin {"idle", "down", "candidate", "emailTaken"}
  /\ faults < MaxFaults /\ faults' = faults + 1
  /\ Continue(r, GivesUp(r))
  /\ UNCHANGED <<tables, ids, retired, uses>>

Anonymous(r) ==
  \/ \E email \in Emails, password \in Passwords :
       Signup(r, email, password) \/ Login(r, email, password)
  \/ \E email \in Emails : ForgotPassword(r, email)
  \/ \E token \in DOMAIN resets, password \in Passwords :
       ResetPassword(r, token, password)

ByUser(r) ==
  \E token \in DOMAIN sessions :
    \/ Logout(r, token)
    \/ \E slug \in Slugs : ProfileSlug(r, token, slug)
    \/ \E password \in Passwords :
         \/ AccountDelete(r, token, password)
         \/ \E new \in Passwords : AccountPassword(r, token, password, new)
         \/ \E email \in Emails : AccountEmail(r, token, password, email)

Statement(r) ==
  \/ Candidate(r) \/ InsertUser(r) \/ CreateSession(r)
  \/ CreatePasswordReset(r) \/ UpdateForgotten(r) \/ MarkPasswordResetUsed(r)
  \/ Available(r) \/ UpdateUserSlug(r) \/ UpdatePassword(r)
  \/ EmailTaken(r) \/ UpdateEmail(r) \/ DeleteSessions(r) \/ DeleteUser(r)
  \/ Fail(r)

Next ==
  \/ Serve \/ SeedDemoAccount \/ Restart
  \/ \E r \in Requests : Anonymous(r) \/ ByUser(r) \/ Statement(r)

Spec == Init /\ [][Next]_vars

-----------------------------------------------------------------------------
(* Properties *)

\* Where a handler may be, and what its local variables then are.
Handler ==
  {Idle, Down}
    \cup [stage : {"candidate"}, email : Emails, password : Passwords,
          n : 1..(MaxSuffix + 1)]
    \cup [stage : {"insert"}, email : Emails, password : Passwords, slug : Slugs]
    \cup [stage : {"session", "createReset"}, user : 1..lastUser]
    \cup [stage : {"deleteSessions", "deleteUser"}, user : 1..lastUser,
          since : 0..MaxSessions]
    \cup [stage : {"resetPassword"}, user : 1..lastUser, token : DOMAIN resets,
          password : Passwords]
    \cup [stage : {"markUsed"}, token : DOMAIN resets]
    \cup [stage : {"available", "setSlug"}, user : 1..lastUser, slug : Slugs]
    \cup [stage : {"setPassword"}, user : 1..lastUser, password : Passwords]
    \cup [stage : {"emailTaken", "setEmail"}, user : 1..lastUser, email : Emails]

\* Type invariant of the tables and of the handlers' local variables.
TypeOK ==
  /\ lastUser \in 0..MaxUsers /\ lastSession \in 0..MaxSessions
  /\ faults \in 0..MaxFaults
  /\ DOMAIN users \subseteq 1..lastUser
  /\ \A u \in DOMAIN users : users[u] \in User
  /\ DOMAIN sessions \subseteq 1..lastSession
  /\ \A t \in DOMAIN sessions : sessions[t] \in Session
  /\ DOMAIN resets \subseteq 1..MaxResets
  /\ \A t \in DOMAIN resets : resets[t] \in Reset
  /\ DOMAIN retired \subseteq 1..lastUser
  /\ \A u \in DOMAIN retired : retired[u] \in 0..MaxSessions
  /\ uses \in [1..MaxResets -> Nat]
  /\ request \in [Requests -> Handler]

\* An address names one account, although sign-ups and changes of address check
\* it long before they write it, and take a failed check for a free address.
EmailsUnique == \A email \in Emails : Cardinality(UsersWith(email)) <= 1

\* Slugs have no constraint, only checks.  What the checks are worth: a status
\* page is shared by no more accounts than requests ran at a time, and one
\* more for each count that failed.
SlugSharingIsBounded ==
  \A slug \in Slugs :
    Cardinality(Holders(slug)) <= Cardinality(Requests) + faults

\* What the column "used" is worth: a token sets no more passwords than requests
\* ran at a time, and as many again whenever a statement failed to mark it or
\* the process died before it did.
ResetUsesAreBounded ==
  \A t \in DOMAIN resets : uses[t] <= Cardinality(Requests) * (1 + faults)

\* A deleted account stays deleted, whatever handlers had read of it before.
DeletedStaysDeleted == DOMAIN users \cap DOMAIN retired = {}

\* store.go:1252, "DeleteAccount removes all data belonging to userID", in spite
\* of its separate statements: once an account is gone, so is each session that
\* there was when its deletion was asked for.  A statement that fails, or the
\* process that dies, half-way, must leave the account to another attempt, and
\* only log-ins that overlap with the deletion leave a session behind.
SessionsGoFirst ==
  \A t \in DOMAIN sessions :
    sessions[t].user \in DOMAIN retired => t > retired[sessions[t].user]

\* store.go:685, "PasswordReset is a single-use token", and store.go:726,
\* MarkPasswordResetUsed "prevents a token from being used a second time".
ResetsAreSingleUse == \A t \in DOMAIN resets : uses[t] <= 1
=============================================================================
