----------------------------- MODULE AccountsProofs -----------------------------
(***************************************************************************)
(* Proofs about Accounts, for all numbers of requests, accounts, addresses *)
(* and faults.                                                             *)
(***************************************************************************)
EXTENDS Accounts, FiniteSetTheorems, TLAPS

-----------------------------------------------------------------------------
(* The handlers. *)

\* What the local variables of a handler are, by its position.
LEMMA Shape ==
  ASSUME TypeOK, NEW r \in Requests
  PROVE  /\ At(r, "idle") => request[r] = Idle
         /\ At(r, "candidate") =>
              /\ request[r].email \in Emails /\ request[r].password \in Passwords
              /\ request[r].n \in 1..(MaxSuffix + 1)
         /\ At(r, "insert") =>
              /\ request[r].email \in Emails /\ request[r].password \in Passwords
              /\ request[r].slug \in Slugs
         /\ request[r].stage \in {"session", "createReset", "deleteSessions",
              "deleteUser", "resetPassword", "available", "setSlug", "setPassword",
              "emailTaken", "setEmail"} => request[r].user \in 1..lastUser
         /\ request[r].stage \in {"deleteSessions", "deleteUser"} =>
              request[r].since \in 0..MaxSessions
         /\ request[r].stage \in {"resetPassword", "markUsed"} =>
              request[r].token \in DOMAIN resets
         /\ request[r].stage \in {"resetPassword", "setPassword"} =>
              request[r].password \in Passwords
         /\ request[r].stage \in {"available", "setSlug"} => request[r].slug \in Slugs
         /\ request[r].stage \in {"emailTaken", "setEmail"} =>
              request[r].email \in Emails
<1>1. request[r] \in Handler
  BY DEF TypeOK
<1> QED
  BY <1>1 DEF Handler, At, Idle, Down

\* As accounts and reset tokens come, a handler stays what it may be.
LEMMA HandlerGrows ==
  ASSUME TypeOK, lastUser' \in Nat, lastUser <= lastUser',
         DOMAIN resets \subseteq DOMAIN resets'
  PROVE  Handler \subseteq Handler'
<1>1. 1..lastUser \subseteq 1..lastUser'
  BY DEF TypeOK
<1> QED
  BY <1>1 DEF Handler

\* A handler that continues with a position of the type leaves all well-typed.
LEMMA ContinueType ==
  ASSUME TypeOK, lastUser' \in Nat, lastUser <= lastUser',
         DOMAIN resets \subseteq DOMAIN resets',
         NEW r \in Requests, NEW next \in Handler', Continue(r, next)
  PROVE  request' \in [Requests -> Handler']
<1>1. \A q \in Requests : request[q] \in Handler'
  BY HandlerGrows DEF TypeOK
<1> QED
  BY <1>1 DEF Continue, TypeOK

\* The positions, one by one.
LEMMA Positions ==
  /\ Idle \in Handler /\ Down \in Handler
  /\ \A e \in Emails, p \in Passwords :
       /\ \A n \in 1..(MaxSuffix + 1) :
            [stage |-> "candidate", email |-> e, password |-> p, n |-> n] \in Handler
       /\ \A s \in Slugs :
            [stage |-> "insert", email |-> e, password |-> p, slug |-> s] \in Handler
  /\ \A u \in 1..lastUser :
       /\ \A stage \in {"session", "createReset"} :
            [stage |-> stage, user |-> u] \in Handler
       /\ \A stage \in {"deleteSessions", "deleteUser"}, t \in 0..MaxSessions :
            [stage |-> stage, user |-> u, since |-> t] \in Handler
       /\ \A t \in DOMAIN resets, p \in Passwords :
            [stage |-> "resetPassword", user |-> u, token |-> t, password |-> p]
              \in Handler
       /\ \A s \in Slugs, stage \in {"available", "setSlug"} :
            [stage |-> stage, user |-> u, slug |-> s] \in Handler
       /\ \A p \in Passwords :
            [stage |-> "setPassword", user |-> u, password |-> p] \in Handler
       /\ \A e \in Emails, stage \in {"emailTaken", "setEmail"} :
            [stage |-> stage, user |-> u, email |-> e] \in Handler
  /\ \A t \in DOMAIN resets : [stage |-> "markUsed", token |-> t] \in Handler
BY DEF Handler

-----------------------------------------------------------------------------
(* Type correctness. *)

LEMMA InitType == Init => TypeOK
<1> SUFFICES ASSUME Init PROVE TypeOK
  OBVIOUS
<1>1. request \in [Requests -> Handler]
  BY Positions DEF Init
<1>2. /\ lastUser = 0 /\ lastSession = 0 /\ faults = 0 /\ DOMAIN retired = {}
      /\ DOMAIN users = {} /\ DOMAIN sessions = {} /\ DOMAIN resets = {}
      /\ uses \in [1..MaxResets -> Nat]
  BY DEF Init
<1> QED
  BY <1>1, <1>2, BoundsAssumption DEF TypeOK

\* A step that only moves a handler on.
LEMMA SameTablesType ==
  ASSUME TypeOK, UNCHANGED <<tables, ids, retired, uses>>, faults' \in 0..MaxFaults,
         NEW r \in Requests, NEW next \in Handler, Continue(r, next)
  PROVE  TypeOK'
<1>1. /\ lastUser' = lastUser /\ lastSession' = lastSession /\ users' = users
      /\ sessions' = sessions /\ resets' = resets /\ retired' = retired /\ uses' = uses
  BY DEF tables, ids
<1>2. Handler' = Handler
  BY <1>1 DEF Handler
<1>3. request' \in [Requests -> Handler']
  BY <1>2 DEF Continue, TypeOK
<1>4. Session' = Session /\ Reset' = Reset
  BY <1>1 DEF Session, Reset
<1> QED
  BY <1>1, <1>3, <1>4 DEF TypeOK

LEMMA FaultType == TypeOK /\ faults < MaxFaults /\ faults' = faults + 1 => faults' \in 0..MaxFaults
BY BoundsAssumption DEF TypeOK

LEMMA SameFaultsType == TypeOK /\ UNCHANGED faults => faults' \in 0..MaxFaults
BY DEF TypeOK

\* What a count of uniqueSlug leads to.
LEMMA CountType ==
  ASSUME TypeOK, NEW r \in Requests, NEW q, CountCandidate(r, q),
         q.email \in Emails, q.password \in Passwords, q.n \in 1..(MaxSuffix + 1),
         q = [stage |-> "candidate", email |-> q.email, password |-> q.password,
              n |-> q.n]
  PROVE  TypeOK'
<1> DEFINE slug  == <<BaseOf[q.email], q.n>>
           taken == [q EXCEPT !.n = @ + 1]
           free  == [stage |-> "insert", email |-> q.email, password |-> q.password,
                     slug |-> slug]
<1>1. slug \in Slugs
  BY InputAssumption, BoundsAssumption DEF CountCandidate, Slugs
<1>2. free \in Handler
  BY <1>1, Positions
<1>3. taken \in Handler
  <2>1. q.n + 1 \in 1..(MaxSuffix + 1)
    BY BoundsAssumption DEF CountCandidate
  <2>2. taken = [stage |-> "candidate", email |-> q.email, password |-> q.password,
                 n |-> q.n + 1]
    OBVIOUS
  <2> QED
    BY <2>1, <2>2, Positions
<1>4. \/ Continue(r, taken) /\ UNCHANGED faults
      \/ Continue(r, free) /\ UNCHANGED faults
      \/ Continue(r, free) /\ faults < MaxFaults /\ faults' = faults + 1
  BY DEF CountCandidate
<1>5. UNCHANGED <<tables, ids, retired, uses>>
  BY DEF CountCandidate
<1> HIDE DEF taken, free
<1> QED
  BY <1>2, <1>3, <1>4, <1>5, SameTablesType, FaultType, SameFaultsType

\* The first steps of the handlers that no session is needed for.
LEMMA AnonymousType ==
  ASSUME TypeOK, NEW r \in Requests, Anonymous(r)
  PROVE  TypeOK'
<1>1. ASSUME NEW email \in Emails, NEW password \in Passwords,
             Signup(r, email, password)
      PROVE  TypeOK'
  <2> DEFINE q == [stage |-> "candidate", email |-> email, password |-> password,
                   n |-> 1]
  <2>1. /\ CountCandidate(r, q) /\ q.email \in Emails /\ q.password \in Passwords
        /\ q.n \in 1..(MaxSuffix + 1)
        /\ q = [stage |-> "candidate", email |-> q.email, password |-> q.password,
                n |-> q.n]
    BY <1>1, BoundsAssumption DEF Signup
  <2> HIDE DEF q
  <2> QED
    BY <2>1, CountType
<1>2. ASSUME NEW email \in Emails, NEW password \in Passwords, Login(r, email, password)
      PROVE  TypeOK'
  <2>1. PICK u \in UsersWith(email) :
          Continue(r, [stage |-> "session", user |-> u])
    BY <1>2 DEF Login
  <2>2. [stage |-> "session", user |-> u] \in Handler
    BY Positions DEF UsersWith, TypeOK
  <2> QED
    BY <1>2, <2>1, <2>2, SameTablesType, SameFaultsType DEF Login
<1>3. ASSUME NEW email \in Emails, ForgotPassword(r, email) PROVE TypeOK'
  <2>1. PICK u \in UsersWith(Lower[email]) :
          Continue(r, [stage |-> "createReset", user |-> u])
    BY <1>3 DEF ForgotPassword
  <2>2. [stage |-> "createReset", user |-> u] \in Handler
    BY Positions DEF UsersWith, TypeOK
  <2> QED
    BY <1>3, <2>1, <2>2, SameTablesType, SameFaultsType DEF ForgotPassword
<1>4. ASSUME NEW token \in DOMAIN resets, NEW password \in Passwords,
             ResetPassword(r, token, password)
      PROVE  TypeOK'
  <2> DEFINE next == [stage |-> "resetPassword", user |-> resets[token].user,
                      token |-> token, password |-> password]
  <2>1. resets[token].user \in 1..lastUser
    BY DEF TypeOK, Reset
  <2>2. next \in Handler
    BY <2>1, Positions
  <2>3. Continue(r, next) /\ UNCHANGED <<tables, ids, faults, retired, uses>>
    BY <1>4 DEF ResetPassword
  <2> HIDE DEF next
  <2> QED
    BY <2>2, <2>3, SameTablesType, SameFaultsType
<1> QED
  BY <1>1, <1>2, <1>3, <1>4 DEF Anonymous

\* A handler of a signed-in user goes on, for u, to the position next.
LEMMA SignedInType ==
  ASSUME TypeOK, NEW r \in Requests, NEW token, NEW u, NEW next,
         SignedIn(r, token, u), Continue(r, next), u \in 1..lastUser => next \in Handler
  PROVE  TypeOK'
<1>1. u \in 1..lastUser
  BY DEF SignedIn, GetUserBySession, TypeOK
<1> QED
  BY <1>1, SameTablesType, SameFaultsType DEF SignedIn

LEMMA ByUserType ==
  ASSUME TypeOK, NEW r \in Requests, ByUser(r)
  PROVE  TypeOK'
<1>1. PICK token \in DOMAIN sessions :
        \/ Logout(r, token)
        \/ \E slug \in Slugs : ProfileSlug(r, token, slug)
        \/ \E password \in Passwords :
             \/ AccountDelete(r, token, password)
             \/ \E new \in Passwords : AccountPassword(r, token, password, new)
             \/ \E email \in Emails : AccountEmail(r, token, password, email)
  BY DEF ByUser
<1>2. CASE Logout(r, token)
  <2>1. /\ DOMAIN sessions' \subseteq DOMAIN sessions
        /\ \A t \in DOMAIN sessions' : sessions'[t] = sessions[t]
    <3>1. sessions' = Without(sessions, {token})
      BY <1>2 DEF Logout
    <3> QED
      BY <3>1 DEF Without
  <2>2. /\ lastUser' = lastUser /\ lastSession' = lastSession /\ users' = users
        /\ resets' = resets /\ retired' = retired /\ uses' = uses
        /\ request' = request /\ faults' = faults
    BY <1>2 DEF Logout, ids
  <2>3. Session' = Session /\ Reset' = Reset /\ Handler' = Handler
    BY <2>2 DEF Session, Reset, Handler
  <2> QED
    BY <2>1, <2>2, <2>3 DEF TypeOK
<1>3. ASSUME NEW slug \in Slugs, ProfileSlug(r, token, slug) PROVE TypeOK'
  <2>1. PICK u \in 1..MaxUsers :
          SignedIn(r, token, u)
            /\ Continue(r, [stage |-> "available", user |-> u, slug |-> slug])
    BY <1>3 DEF ProfileSlug
  <2>2. u \in 1..lastUser =>
          [stage |-> "available", user |-> u, slug |-> slug] \in Handler
    BY Positions
  <2> QED
    BY <2>1, <2>2, SignedInType
<1>4. ASSUME NEW password \in Passwords, AccountDelete(r, token, password)
      PROVE  TypeOK'
  <2>1. PICK u \in 1..MaxUsers :
          SignedIn(r, token, u)
            /\ Continue(r, [stage |-> "deleteSessions", user |-> u,
                            since |-> lastSession])
    BY <1>4 DEF AccountDelete
  <2>2. u \in 1..lastUser =>
          [stage |-> "deleteSessions", user |-> u, since |-> lastSession] \in Handler
    BY Positions DEF TypeOK
  <2> QED
    BY <2>1, <2>2, SignedInType
<1>5. ASSUME NEW password \in Passwords, NEW new \in Passwords,
             AccountPassword(r, token, password, new)
      PROVE  TypeOK'
  <2>1. PICK u \in 1..MaxUsers :
          SignedIn(r, token, u)
            /\ Continue(r, [stage |-> "setPassword", user |-> u, password |-> new])
    BY <1>5 DEF AccountPassword
  <2>2. u \in 1..lastUser =>
          [stage |-> "setPassword", user |-> u, password |-> new] \in Handler
    BY Positions
  <2> QED
    BY <2>1, <2>2, SignedInType
<1>6. ASSUME NEW password \in Passwords, NEW email \in Emails,
             AccountEmail(r, token, password, email)
      PROVE  TypeOK'
  <2>1. PICK u \in 1..MaxUsers :
          SignedIn(r, token, u)
            /\ Continue(r, [stage |-> "emailTaken", user |-> u, email |-> Lower[email]])
    BY <1>6 DEF AccountEmail
  <2>2. u \in 1..lastUser =>
          [stage |-> "emailTaken", user |-> u, email |-> Lower[email]] \in Handler
    BY Positions, InputAssumption
  <2> QED
    BY <2>1, <2>2, SignedInType
<1> QED
  BY <1>1, <1>2, <1>3, <1>4, <1>5, <1>6

\* What TypeOK says of retired.
RetiredOK ==
  /\ DOMAIN retired \subseteq 1..lastUser
  /\ \A u \in DOMAIN retired : retired[u] \in 0..MaxSessions

\* A statement that changes rows of users and moves the handler on.
LEMMA UsersType ==
  ASSUME TypeOK, UNCHANGED <<sessions, resets, ids, faults>>,
         DOMAIN users' \subseteq DOMAIN users,
         \A u \in DOMAIN users' : users'[u] \in User,
         uses' \in [1..MaxResets -> Nat], RetiredOK',
         NEW r \in Requests, NEW next \in Handler, Continue(r, next)
  PROVE  TypeOK'
<1>1. /\ lastUser' = lastUser /\ lastSession' = lastSession /\ faults' = faults
      /\ sessions' = sessions /\ resets' = resets
  BY DEF ids
<1>2. Handler' = Handler /\ Session' = Session /\ Reset' = Reset
  BY <1>1 DEF Handler, Session, Reset
<1>3. request' \in [Requests -> Handler']
  BY <1>2 DEF Continue, TypeOK
<1> QED
  BY <1>1, <1>2, <1>3 DEF TypeOK, RetiredOK

LEMMA SetHashRows ==
  ASSUME TypeOK, NEW u, NEW password \in Passwords
  PROVE  /\ DOMAIN SetHash(u, password) = DOMAIN users
         /\ \A x \in DOMAIN users : SetHash(u, password)[x] \in User
BY DEF SetHash, TypeOK, User

\* A new account, and a handler that goes on with it or none.
LEMMA NewUserType ==
  ASSUME TypeOK, UNCHANGED <<sessions, resets, lastSession, retired, uses>>,
         faults' \in 0..MaxFaults, lastUser < MaxUsers, lastUser' = lastUser + 1,
         NEW row \in User, users' = With(users, lastUser', row),
         request' \in [Requests -> Handler']
  PROVE  TypeOK'
<1>1. /\ lastUser \in Nat /\ MaxUsers \in Nat /\ lastUser' \in 0..MaxUsers
      /\ 1..lastUser \subseteq 1..lastUser' /\ lastUser' \in 1..lastUser'
  BY BoundsAssumption DEF TypeOK
<1>2. DOMAIN users' \subseteq 1..lastUser' /\ \A u \in DOMAIN users' : users'[u] \in User
  BY <1>1 DEF TypeOK, With
<1>3. /\ \A t \in DOMAIN sessions' : sessions'[t] \in Session'
      /\ \A t \in DOMAIN resets' : resets'[t] \in Reset'
      /\ DOMAIN retired' \subseteq 1..lastUser'
  BY <1>1 DEF TypeOK, Session, Reset
<1> QED
  BY <1>1, <1>2, <1>3 DEF TypeOK

LEMMA InsertType ==
  ASSUME TypeOK, NEW r \in Requests, InsertUser(r)
  PROVE  TypeOK'
<1> DEFINE q == request[r]
           row == [email |-> q.email, hash |-> q.password, slug |-> q.slug]
<1>1. CASE UsersWith(q.email) # {}
  BY <1>1, Positions, SameTablesType, SameFaultsType DEF InsertUser, tables, ids
<1>2. CASE UsersWith(q.email) = {}
  <2>1. row \in User
    BY Shape DEF InsertUser, User
  <2>2. /\ lastUser < MaxUsers /\ lastUser' = lastUser + 1
        /\ users' = With(users, lastUser', row)
        /\ Continue(r, [stage |-> "session", user |-> lastUser'])
        /\ UNCHANGED <<sessions, resets, lastSession, faults, retired, uses>>
    BY <1>2 DEF InsertUser
  <2>3. lastUser' \in Nat /\ lastUser <= lastUser' /\ lastUser' \in 1..lastUser'
    BY <2>2 DEF TypeOK
  <2>4. [stage |-> "session", user |-> lastUser'] \in Handler'
    BY <2>3 DEF Handler
  <2>5. request' \in [Requests -> Handler']
    BY <2>2, <2>3, <2>4, ContinueType
  <2> HIDE DEF row
  <2> QED
    BY <2>1, <2>2, <2>5, SameFaultsType, NewUserType
<1> QED
  BY <1>1, <1>2

LEMMA CreateSessionType ==
  ASSUME TypeOK, NEW r \in Requests, CreateSession(r)
  PROVE  TypeOK'
<1>1. /\ lastSession < MaxSessions /\ lastSession' = lastSession + 1
      /\ sessions' = With(sessions, lastSession', [user |-> request[r].user])
      /\ Continue(r, Idle) /\ UNCHANGED <<users, resets, lastUser, faults, retired, uses>>
  BY DEF CreateSession
<1>2. [user |-> request[r].user] \in Session
  BY Shape DEF CreateSession, At, Session
<1>3. Handler' = Handler /\ Session' = Session /\ Reset' = Reset
  BY <1>1 DEF Handler, Session, Reset
<1>4. request' \in [Requests -> Handler']
  BY <1>1, <1>3, Positions DEF Continue, TypeOK
<1>5. /\ lastSession' \in 0..MaxSessions /\ DOMAIN sessions' \subseteq 1..lastSession'
      /\ \A t \in DOMAIN sessions' : sessions'[t] \in Session'
  <2>1. /\ lastSession \in Nat /\ lastSession' \in 0..MaxSessions
        /\ 1..lastSession \subseteq 1..lastSession' /\ lastSession' \in 1..lastSession'
    BY <1>1, BoundsAssumption DEF TypeOK
  <2> QED
    BY <1>1, <1>2, <1>3, <2>1 DEF TypeOK, With
<1> QED
  BY <1>1, <1>3, <1>4, <1>5 DEF TypeOK

LEMMA CreateResetType ==
  ASSUME TypeOK, NEW r \in Requests, CreatePasswordReset(r)
  PROVE  TypeOK'
<1> DEFINE token == Cardinality(DOMAIN resets) + 1
<1>1. /\ token <= MaxResets
      /\ resets' = With(resets, token, [user |-> request[r].user, used |-> 0])
      /\ Continue(r, Idle) /\ UNCHANGED <<users, sessions, ids, faults, retired, uses>>
  BY DEF CreatePasswordReset
<1>2. token \in 1..MaxResets
  <2>1. IsFiniteSet(DOMAIN resets)
    BY FS_Interval, FS_Subset, BoundsAssumption DEF TypeOK
  <2> QED
    BY <1>1, <2>1, FS_CardinalityType, BoundsAssumption
<1>3. [user |-> request[r].user, used |-> 0] \in Reset
  BY Shape DEF CreatePasswordReset, At, Reset
<1> HIDE DEF token
<1>4. lastUser' = lastUser /\ lastSession' = lastSession
  BY <1>1 DEF ids
<1>5. DOMAIN resets \subseteq DOMAIN resets' /\ DOMAIN resets' \subseteq 1..MaxResets
  BY <1>1, <1>2 DEF TypeOK, With
<1>6. Session' = Session /\ Reset' = Reset
  BY <1>4 DEF Session, Reset
<1>7. \A t \in DOMAIN resets' : resets'[t] \in Reset'
  BY <1>1, <1>3, <1>6 DEF TypeOK, With
<1>8. request' \in [Requests -> Handler']
  <2>1. Idle \in Handler'
    BY DEF Handler
  <2>2. lastUser' \in Nat /\ lastUser <= lastUser'
    BY <1>4 DEF TypeOK
  <2> QED
    BY <1>1, <1>5, <2>1, <2>2, ContinueType
<1> QED
  BY <1>1, <1>4, <1>5, <1>6, <1>7, <1>8 DEF TypeOK

\* The statements that write no row, or rows of users only.
LEMMA StatementType ==
  ASSUME TypeOK, NEW r \in Requests, Statement(r)
  PROVE  TypeOK'
<1> DEFINE q == request[r]
<1>1. CASE Candidate(r)
  <2>1. /\ q.email \in Emails /\ q.password \in Passwords /\ q.n \in 1..(MaxSuffix + 1)
        /\ q = [stage |-> "candidate", email |-> q.email, password |-> q.password,
                n |-> q.n]
    <3>1. q \in Handler /\ q.stage = "candidate"
      BY <1>1 DEF TypeOK, Candidate, At
    <3> HIDE DEF q
    <3> QED
      BY <3>1 DEF Handler, Idle, Down
  <2>2. CountCandidate(r, q)
    BY <1>1 DEF Candidate
  <2> HIDE DEF q
  <2> QED
    BY <2>1, <2>2, CountType
<1>2. CASE InsertUser(r)
  BY <1>2, InsertType
<1>3. CASE CreateSession(r)
  BY <1>3, CreateSessionType
<1>4. CASE CreatePasswordReset(r)
  BY <1>4, CreateResetType
<1>5. CASE UpdateForgotten(r)
  <2>1. q.password \in Passwords /\ q.token \in DOMAIN resets
    BY <1>5, Shape DEF UpdateForgotten, At
  <2>2. /\ users' = SetHash(q.user, q.password)
        /\ uses' = [uses EXCEPT ![q.token] = @ + 1]
        /\ Continue(r, [stage |-> "markUsed", token |-> q.token])
        /\ UNCHANGED <<sessions, resets, ids, faults, retired>>
    BY <1>5 DEF UpdateForgotten
  <2>3. uses' \in [1..MaxResets -> Nat] /\ RetiredOK'
    BY <2>1, <2>2 DEF TypeOK, RetiredOK, ids
  <2>4. [stage |-> "markUsed", token |-> q.token] \in Handler
    BY <2>1, Positions
  <2> HIDE DEF q
  <2>5. DOMAIN users' \subseteq DOMAIN users /\ \A u \in DOMAIN users' : users'[u] \in User
    BY <2>1, <2>2, SetHashRows
  <2> QED
    BY <2>2, <2>3, <2>4, <2>5, UsersType
<1>6. CASE MarkPasswordResetUsed(r)
  <2>1. /\ resets' = Marked(q.token) /\ Continue(r, Idle)
        /\ UNCHANGED <<users, sessions, ids, faults, retired, uses>>
    BY <1>6 DEF MarkPasswordResetUsed
  <2>2. lastUser' = lastUser /\ lastSession' = lastSession
    BY <2>1 DEF ids
  <2>3. Session' = Session /\ Reset' = Reset
    BY <2>2 DEF Session, Reset
  <2>4. DOMAIN resets' = DOMAIN resets /\ \A t \in DOMAIN resets' : resets'[t] \in Reset'
    BY <2>1, <2>3 DEF Marked, Reset, TypeOK
  <2>5. Handler' = Handler
    BY <2>2, <2>4 DEF Handler
  <2>6. request' \in [Requests -> Handler']
    BY <2>1, <2>5, Positions DEF Continue, TypeOK
  <2> HIDE DEF q
  <2> QED
    BY <2>1, <2>2, <2>3, <2>4, <2>6 DEF TypeOK
<1>7. CASE Available(r)
  <2>1. q.user \in 1..lastUser /\ q.slug \in Slugs
    BY <1>7, Shape DEF Available, At
  <2>2. q \in Handler /\ q.stage = "available"
    BY <1>7 DEF TypeOK, Available, At
  <2>3. [q EXCEPT !.stage = "setSlug"] \in Handler
    <3>1. q = [stage |-> "available", user |-> q.user, slug |-> q.slug]
      <4> HIDE DEF q
      <4> QED
        BY <2>2 DEF Handler, Idle, Down
    <3>2. [q EXCEPT !.stage = "setSlug"]
            = [stage |-> "setSlug", user |-> q.user, slug |-> q.slug]
      BY <3>1
    <3> QED
      BY ZenonT(30), <2>1, <3>2, Positions
  <2>4. PICK next \in Handler : Continue(r, next)
    BY <1>7, <2>3, Positions DEF Available
  <2> QED
    BY <1>7, <2>4, SameTablesType, SameFaultsType DEF Available
<1>8. CASE UpdateUserSlug(r)
  <2>1. q.slug \in Slugs
    BY <1>8, Shape DEF UpdateUserSlug, At
  <2>2. DOMAIN users' = DOMAIN users /\ \A u \in DOMAIN users' : users'[u] \in User
    BY <1>8, <2>1 DEF UpdateUserSlug, TypeOK, User
  <2>3. uses' \in [1..MaxResets -> Nat] /\ RetiredOK'
    BY <1>8 DEF UpdateUserSlug, TypeOK, RetiredOK, ids
  <2> QED
    BY <1>8, <2>2, <2>3, Positions, UsersType DEF UpdateUserSlug
<1>9. CASE UpdatePassword(r)
  <2>1. q.password \in Passwords
    BY <1>9, Shape DEF UpdatePassword, At
  <2>2. users' = SetHash(q.user, q.password)
    BY <1>9 DEF UpdatePassword
  <2>3. DOMAIN users' = DOMAIN users /\ \A u \in DOMAIN users' : users'[u] \in User
    BY <2>1, <2>2, SetHashRows
  <2>4. uses' \in [1..MaxResets -> Nat] /\ RetiredOK'
    BY <1>9 DEF UpdatePassword, TypeOK, RetiredOK, ids
  <2> QED
    BY <1>9, <2>3, <2>4, Positions, UsersType DEF UpdatePassword
<1>10. CASE EmailTaken(r)
  <2>1. q.user \in 1..lastUser /\ q.email \in Emails
    BY <1>10, Shape DEF EmailTaken, At
  <2>2. q \in Handler /\ q.stage = "emailTaken"
    BY <1>10 DEF TypeOK, EmailTaken, At
  <2>3. [q EXCEPT !.stage = "setEmail"] \in Handler
    <3>1. q = [stage |-> "emailTaken", user |-> q.user, email |-> q.email]
      <4> HIDE DEF q
      <4> QED
        BY <2>2 DEF Handler, Idle, Down
    <3>2. [q EXCEPT !.stage = "setEmail"]
            = [stage |-> "setEmail", user |-> q.user, email |-> q.email]
      BY <3>1
    <3> QED
      BY ZenonT(30), <2>1, <3>2, Positions
  <2>4. PICK next \in Handler : Continue(r, next)
    BY <1>10, <2>3, Positions DEF EmailTaken
  <2>5. faults' \in 0..MaxFaults
    BY <1>10, FaultType, SameFaultsType DEF EmailTaken
  <2> QED
    BY <1>10, <2>4, <2>5, SameTablesType DEF EmailTaken
<1>11. CASE UpdateEmail(r)
  <2>1. q.email \in Emails
    BY <1>11, Shape DEF UpdateEmail, At
  <2>2. DOMAIN users' = DOMAIN users /\ \A u \in DOMAIN users' : users'[u] \in User
    BY <1>11, <2>1 DEF UpdateEmail, TypeOK, User
  <2>3. uses' \in [1..MaxResets -> Nat] /\ RetiredOK'
    BY <1>11 DEF UpdateEmail, TypeOK, RetiredOK, ids
  <2> QED
    BY <1>11, <2>2, <2>3, Positions, UsersType DEF UpdateEmail
<1>12. CASE DeleteSessions(r)
  <2>1. /\ Continue(r, [stage |-> "deleteUser", user |-> q.user, since |-> q.since])
        /\ UNCHANGED <<users, resets, ids, faults, retired, uses>>
    BY <1>12 DEF DeleteSessions
  <2>2. [stage |-> "deleteUser", user |-> q.user, since |-> q.since] \in Handler
    BY <1>12, Shape, Positions DEF DeleteSessions, At
  <2>3. lastUser' = lastUser /\ lastSession' = lastSession
    BY <2>1 DEF ids
  <2>4. Session' = Session /\ Reset' = Reset /\ Handler' = Handler
    BY <2>1, <2>3 DEF Session, Reset, Handler
  <2>5. DOMAIN sessions' \subseteq DOMAIN sessions
        /\ \A t \in DOMAIN sessions' : sessions'[t] = sessions[t]
    <3>1. PICK gone : sessions' = Without(sessions, gone)
      BY <1>12 DEF DeleteSessions
    <3> QED
      BY <3>1 DEF Without
  <2>6. request' \in [Requests -> Handler']
    BY <2>1, <2>2, <2>4 DEF Continue, TypeOK
  <2> QED
    BY <2>1, <2>3, <2>4, <2>5, <2>6 DEF TypeOK
<1>13. CASE DeleteUser(r)
  <2>1. q.user \in 1..lastUser /\ q.since \in 0..MaxSessions
    BY <1>13, Shape DEF DeleteUser, At
  <2>2. /\ users' = Without(users, {q.user})
        /\ retired' = With(retired, q.user, q.since) \/ retired' = retired
        /\ Continue(r, Idle) /\ UNCHANGED <<sessions, resets, ids, faults, uses>>
    BY <1>13 DEF DeleteUser
  <2> HIDE DEF q
  <2>3. DOMAIN users' \subseteq DOMAIN users /\ \A u \in DOMAIN users' : users'[u] \in User
    BY <2>2 DEF Without, TypeOK
  <2>4. uses' \in [1..MaxResets -> Nat] /\ RetiredOK'
    BY <2>1, <2>2 DEF TypeOK, RetiredOK, With, ids
  <2> QED
    BY <2>2, <2>3, <2>4, Positions, UsersType
<1>14. CASE Fail(r)
  BY <1>14, Positions, FaultType, SameTablesType DEF Fail, GivesUp
<1> QED
  BY <1>1, <1>2, <1>3, <1>4, <1>5, <1>6, <1>7, <1>8, <1>9, <1>10, <1>11, <1>12,
     <1>13, <1>14 DEF Statement

\* The process starts or dies: all handlers are where one of them would be.
LEMMA ProcessType ==
  ASSUME TypeOK, Serve \/ SeedDemoAccount \/ Restart
  PROVE  TypeOK'
<1>1. CASE Serve
  <2>1. Handler' = Handler /\ Session' = Session /\ Reset' = Reset
    BY <1>1 DEF Serve, tables, ids, Handler, Session, Reset
  <2>2. request' \in [Requests -> Handler']
    BY <1>1, <2>1, Positions DEF Serve
  <2> QED
    BY <1>1, <2>1, <2>2 DEF Serve, tables, ids, TypeOK
<1>2. CASE SeedDemoAccount
  <2>1. PICK email \in Demo, password \in Passwords, slug \in Slugs :
          /\ lastUser < MaxUsers /\ lastUser' = lastUser + 1
          /\ users' = With(users, lastUser',
               [email |-> email, hash |-> password, slug |-> slug])
    BY <1>2 DEF SeedDemoAccount
  <2>2. [email |-> email, hash |-> password, slug |-> slug] \in User
    BY InputAssumption DEF User
  <2>3. request' \in [Requests -> Handler']
    BY <1>2 DEF SeedDemoAccount, Handler
  <2>4. faults' \in 0..MaxFaults
    BY <1>2, FaultType, SameFaultsType DEF SeedDemoAccount
  <2> QED
    BY <1>2, <2>1, <2>2, <2>3, <2>4, NewUserType DEF SeedDemoAccount
<1>3. CASE Restart
  <2>1. /\ UNCHANGED <<users, sessions, resets, lastUser, lastSession, retired, uses>>
        /\ faults' \in 0..MaxFaults
    BY <1>3, FaultType DEF Restart, tables, ids
  <2>2. Handler' = Handler /\ Session' = Session /\ Reset' = Reset
    BY <2>1 DEF Handler, Session, Reset
  <2>3. request' \in [Requests -> Handler']
    BY <1>3, <2>2, Positions DEF Restart
  <2> QED
    BY <2>1, <2>2, <2>3 DEF TypeOK
<1> QED
  BY <1>1, <1>2, <1>3

LEMMA StepType == TypeOK /\ [Next]_vars => TypeOK'
<1> SUFFICES ASSUME TypeOK, [Next]_vars PROVE TypeOK'
  OBVIOUS
<1>1. CASE UNCHANGED vars
  BY <1>1 DEF vars, TypeOK, Handler, Session, Reset
<1>2. CASE Next
  BY <1>2, ProcessType, AnonymousType, ByUserType, StatementType DEF Next
<1> QED
  BY <1>1, <1>2

\* The tables and the local variables of the handlers stay well-typed: no id or
\* token refers to an account or a token that was never created.
THEOREM TypeCorrect == Spec => []TypeOK
BY InitType, StepType, PTL DEF Spec

-----------------------------------------------------------------------------
(* Addresses, and deleted accounts. *)

\* Accounts may go; addresses and slugs stay.
Kept ==
  /\ DOMAIN users' \subseteq DOMAIN users
  /\ \A u \in DOMAIN users' : /\ users'[u].email = users[u].email
                              /\ users'[u].slug = users[u].slug

LEMMA SetHashKeeps ==
  ASSUME TypeOK, NEW u, NEW password, users' = SetHash(u, password)
  PROVE  Kept
BY DEF SetHash, TypeOK, User, Kept

\* The four statements that write an address or a slug.
LEMMA WritersOfUsers ==
  ASSUME TypeOK, [Next]_vars
  PROVE  \/ Kept \/ SeedDemoAccount
         \/ \E r \in Requests : InsertUser(r) \/ UpdateUserSlug(r) \/ UpdateEmail(r)
<1>1. users' = users => Kept
  BY DEF Kept
<1>2. UNCHANGED vars => Kept
  BY <1>1 DEF vars
<1>3. Serve \/ Restart => Kept
  BY <1>1 DEF Serve, Restart, tables
<1>4. ASSUME NEW r \in Requests, Anonymous(r) PROVE Kept
  BY <1>1, <1>4 DEF Anonymous, Signup, CountCandidate, Login, ForgotPassword,
     ResetPassword, tables
<1>5. ASSUME NEW r \in Requests, ByUser(r) PROVE Kept
  BY <1>1, <1>5 DEF ByUser, Logout, ProfileSlug, AccountDelete, AccountPassword,
     AccountEmail, SignedIn, tables
<1>6. ASSUME NEW r \in Requests, Statement(r)
      PROVE  Kept \/ InsertUser(r) \/ UpdateUserSlug(r) \/ UpdateEmail(r)
  <2>1. CASE UpdateForgotten(r) \/ UpdatePassword(r)
    BY <2>1, SetHashKeeps DEF UpdateForgotten, UpdatePassword
  <2>2. CASE DeleteUser(r)
    BY <2>2 DEF DeleteUser, Without, Kept
  <2>3. CASE \/ Candidate(r) \/ CreateSession(r) \/ CreatePasswordReset(r)
             \/ MarkPasswordResetUsed(r) \/ Available(r) \/ EmailTaken(r)
             \/ DeleteSessions(r) \/ Fail(r)
    BY <1>1, <2>3 DEF Candidate, CountCandidate, CreateSession, CreatePasswordReset,
       MarkPasswordResetUsed, Available, EmailTaken, DeleteSessions, Fail, tables
  <2> QED
    BY <1>6, <2>1, <2>2, <2>3 DEF Statement
<1> QED
  BY <1>2, <1>3, <1>4, <1>5, <1>6 DEF Next

\* A new account gets an id that no account has or had.
LEMMA NewId ==
  ASSUME TypeOK
  PROVE  lastUser + 1 \notin DOMAIN users /\ lastUser + 1 \notin DOMAIN retired
BY DEF TypeOK

\* No two accounts have one address.
OneEach ==
  \A u, v \in DOMAIN users : users[u].email = users[v].email => u = v

LEMMA NewAddress ==
  ASSUME TypeOK, OneEach, NEW row, UsersWith(row.email) = {},
         users' = With(users, lastUser + 1, row)
  PROVE  OneEach'
BY NewId DEF OneEach, UsersWith, With

LEMMA StepAddresses == TypeOK /\ OneEach /\ [Next]_vars => OneEach'
<1> SUFFICES ASSUME TypeOK, OneEach, [Next]_vars PROVE OneEach'
  OBVIOUS
<1>1. CASE Kept
  BY <1>1 DEF Kept, OneEach
<1>2. CASE SeedDemoAccount
  <2>1. PICK email \in Demo, password \in Passwords, slug \in Slugs :
          /\ UsersWith(email) = {} /\ lastUser' = lastUser + 1
          /\ users' = With(users, lastUser',
               [email |-> email, hash |-> password, slug |-> slug])
    BY <1>2 DEF SeedDemoAccount
  <2> QED
    BY <2>1, NewAddress
<1>3. ASSUME NEW r \in Requests, InsertUser(r) PROVE OneEach'
  <2>1. CASE users' = users
    BY <2>1 DEF OneEach
  <2>2. CASE users' # users
    BY <1>3, <2>2, NewAddress DEF InsertUser
  <2> QED
    BY <2>1, <2>2
<1>4. ASSUME NEW r \in Requests, UpdateUserSlug(r) PROVE OneEach'
  <2>1. DOMAIN users' = DOMAIN users
        /\ \A u \in DOMAIN users : users'[u].email = users[u].email
    BY <1>4 DEF UpdateUserSlug, TypeOK, User
  <2> QED
    BY <2>1 DEF OneEach
<1>5. ASSUME NEW r \in Requests, UpdateEmail(r) PROVE OneEach'
  <2> DEFINE q == request[r]
  <2>1. CASE users' = users
    BY <2>1 DEF OneEach
  <2>2. CASE users' # users
    <3>1. /\ q.user \in DOMAIN users /\ UsersWith(q.email) \subseteq {q.user}
          /\ users' = [users EXCEPT ![q.user].email = q.email]
      BY <1>5, <2>2 DEF UpdateEmail, EmailUnique
    <3>2. /\ DOMAIN users' = DOMAIN users /\ users'[q.user].email = q.email
          /\ \A u \in DOMAIN users \ {q.user} : users'[u].email = users[u].email
      BY <3>1 DEF TypeOK, User
    <3>3. \A u \in DOMAIN users \ {q.user} : users[u].email # q.email
      BY <3>1 DEF UsersWith
    <3> HIDE DEF q
    <3> QED
      BY <3>2, <3>3 DEF OneEach
  <2> QED
    BY <2>1, <2>2
<1> QED
  BY <1>1, <1>2, <1>3, <1>4, <1>5, WritersOfUsers

\* An address names one account, whatever the handlers had checked before they
\* wrote it: the inductive form is OneEach.
THEOREM AddressesAreUnique == Spec => []EmailsUnique
<1>1. Init => OneEach
  BY DEF Init, OneEach
<1>2. OneEach => EmailsUnique
  <2> SUFFICES ASSUME OneEach, NEW email \in Emails
               PROVE  Cardinality(UsersWith(email)) <= 1
    BY DEF EmailsUnique
  <2>1. CASE UsersWith(email) = {}
    BY <2>1, FS_EmptySet
  <2>2. CASE UsersWith(email) # {}
    <3>1. PICK u \in UsersWith(email) : TRUE
      BY <2>2
    <3>2. \A v \in UsersWith(email) : v = u
      BY <3>1 DEF OneEach, UsersWith
    <3>3. UsersWith(email) = {u}
      BY <3>1, <3>2
    <3>4. Cardinality(UsersWith(email)) = 1
      BY <3>3, FS_Singleton
    <3> QED
      BY <3>4
  <2> QED
    BY <2>1, <2>2
<1> QED
  BY <1>1, <1>2, InitType, StepType, StepAddresses, PTL DEF Spec

LEMMA StepDeleted ==
  TypeOK /\ DeletedStaysDeleted /\ [Next]_vars => DeletedStaysDeleted'
<1> SUFFICES ASSUME TypeOK, DeletedStaysDeleted, [Next]_vars
             PROVE  DeletedStaysDeleted'
  OBVIOUS
<1>1. CASE \E r \in Requests : DeleteUser(r)
  BY <1>1 DEF DeleteUser, With, Without, DeletedStaysDeleted
<1>2. CASE ~\E r \in Requests : DeleteUser(r)
  <2>1. retired' = retired
    <3>1. CASE Serve \/ SeedDemoAccount \/ Restart \/ UNCHANGED vars
      BY <3>1 DEF Serve, SeedDemoAccount, Restart, vars
    <3>2. ASSUME NEW r \in Requests, Anonymous(r) PROVE retired' = retired
      BY <3>2 DEF Anonymous, Signup, CountCandidate, Login, ForgotPassword, ResetPassword
    <3>3. ASSUME NEW r \in Requests, ByUser(r) PROVE retired' = retired
      BY <3>3 DEF ByUser, Logout, ProfileSlug, AccountDelete, AccountPassword,
         AccountEmail, SignedIn
    <3>4. ASSUME NEW r \in Requests, Statement(r) PROVE retired' = retired
      BY <1>2, <3>4 DEF Statement, Candidate, CountCandidate, InsertUser, CreateSession,
         CreatePasswordReset, UpdateForgotten, MarkPasswordResetUsed, Available,
         UpdateUserSlug, UpdatePassword, EmailTaken, UpdateEmail, DeleteSessions, Fail
    <3> QED
      BY <3>1, <3>2, <3>3, <3>4 DEF Next
  <2>2. DOMAIN users' \subseteq DOMAIN users \cup {lastUser + 1}
    BY WritersOfUsers DEF Kept, SeedDemoAccount, InsertUser, UpdateUserSlug,
       UpdateEmail, With
  <2> QED
    BY <2>1, <2>2, NewId DEF DeletedStaysDeleted
<1> QED
  BY <1>1, <1>2

\* A deleted account stays deleted: no handler that has read the row before it
\* went, and no id that is handed out later, brings it back.
THEOREM NoAccountComesBack == Spec => []DeletedStaysDeleted
<1>1. Init => DeletedStaysDeleted
  BY DEF Init, DeletedStaysDeleted
<1> QED
  BY <1>1, InitType, StepType, StepDeleted, PTL DEF Spec

-----------------------------------------------------------------------------
(* The inductive invariants. *)

Requesting(stage, slug) ==
  {r \in Requests : At(r, stage) /\ request[r].slug = slug}

\* The accounts that have the slug, or are about to have it.
Claims(slug) ==
  Holders(slug) \cup {request[r].user : r \in Requesting("setSlug", slug)}

\* Whoever has a slug, is about to change to it or is about to sign up with it
\* passed a check that saw no other holder, or a check that failed.
ClaimsAreBounded ==
  \A slug \in Slugs :
    Cardinality(Claims(slug)) + Cardinality(Requesting("insert", slug))
      <= Cardinality(Requests) + faults

-----------------------------------------------------------------------------
(* Slugs. *)

\* The finite sets at hand, and how their sizes relate.
SizesOK ==
  /\ Cardinality(Requests) \in Nat /\ Cardinality(Requests) >= 1 /\ faults \in Nat
  /\ \A slug \in Slugs :
       LET setting == Requesting("setSlug", slug)
           inserting == Requesting("insert", slug) IN
       /\ IsFiniteSet(Claims(slug)) /\ Cardinality(Claims(slug)) \in Nat
       /\ IsFiniteSet(inserting) /\ Cardinality(inserting) \in Nat
       /\ Cardinality(setting) \in Nat
       /\ Cardinality({request[r].user : r \in setting}) <= Cardinality(setting)
       /\ Cardinality(setting) + Cardinality(inserting) <= Cardinality(Requests)

LEMMA ActorsSize ==
  ASSUME NEW S, IsFiniteSet(S), NEW f
  PROVE  /\ IsFiniteSet({f[r].user : r \in S})
         /\ Cardinality({f[r].user : r \in S}) <= Cardinality(S)
<1> DEFINE T == {f[r].user : r \in S}
           g == [r \in S |-> f[r].user]
<1>1. g \in Surjection(S, T)
  BY DEF Surjection
<1> QED
  BY <1>1, FS_Surjection

LEMMA Sizes == TypeOK => SizesOK
<1> SUFFICES ASSUME TypeOK PROVE SizesOK
  OBVIOUS
<1>1. /\ Cardinality(Requests) \in Nat /\ Cardinality(Requests) >= 1
      /\ faults \in Nat
  <2>1. Cardinality(Requests) \in Nat /\ Cardinality(Requests) # 0
    BY InputAssumption, FS_CardinalityType, FS_EmptySet
  <2> QED
    BY <2>1 DEF TypeOK
<1>2. ASSUME NEW slug \in Slugs
      PROVE  LET setting == Requesting("setSlug", slug)
                 inserting == Requesting("insert", slug) IN
             /\ IsFiniteSet(Claims(slug)) /\ Cardinality(Claims(slug)) \in Nat
             /\ IsFiniteSet(inserting) /\ Cardinality(inserting) \in Nat
             /\ Cardinality(setting) \in Nat
             /\ Cardinality({request[r].user : r \in setting}) <= Cardinality(setting)
             /\ Cardinality(setting) + Cardinality(inserting) <= Cardinality(Requests)
  <2> DEFINE setting == Requesting("setSlug", slug)
             inserting == Requesting("insert", slug)
             actors == {request[r].user : r \in setting}
  <2>1. setting \subseteq Requests /\ inserting \subseteq Requests
    BY DEF Requesting
  <2>2. setting \cap inserting = {}
    BY DEF Requesting, At
  <2> HIDE DEF setting, inserting
  <2>3. IsFiniteSet(setting) /\ IsFiniteSet(inserting)
    BY <2>1, InputAssumption, FS_Subset
  <2>4. IsFiniteSet(actors) /\ Cardinality(actors) <= Cardinality(setting)
    BY <2>3, ActorsSize
  <2>5. IsFiniteSet(Holders(slug))
    <3>1. IsFiniteSet(1..lastUser) /\ Holders(slug) \subseteq 1..lastUser
      BY FS_Interval DEF TypeOK, Holders
    <3> QED
      BY <3>1, FS_Subset
  <2>6. Claims(slug) = Holders(slug) \cup actors
    BY DEF Claims, setting
  <2>7. IsFiniteSet(Claims(slug))
    BY <2>4, <2>5, <2>6, FS_Union
  <2>8. /\ Cardinality(setting) \in Nat /\ Cardinality(inserting) \in Nat
        /\ Cardinality(Claims(slug)) \in Nat
    BY <2>3, <2>7, FS_CardinalityType
  <2>9. Cardinality(setting) + Cardinality(inserting) <= Cardinality(Requests)
    <3>1. Cardinality(setting \cup inserting) <= Cardinality(Requests)
      BY <2>1, InputAssumption, FS_Subset
    <3>2. Cardinality(setting \cup inserting)
            = Cardinality(setting) + Cardinality(inserting)
      BY SMTT(30), <2>2, <2>3, <2>8, FS_Union, FS_EmptySet
    <3> QED
      BY <3>1, <3>2
  <2> QED
    BY <2>3, <2>4, <2>7, <2>8, <2>9 DEF setting, inserting
<1> QED
  BY <1>1, <1>2 DEF SizesOK

SlugBounded(slug) ==
  Cardinality(Claims(slug)) + Cardinality(Requesting("insert", slug))
    <= Cardinality(Requests) + faults

\* No claim more, and no sign-up.
LEMMA NoMoreClaims ==
  ASSUME SizesOK, SizesOK', faults <= faults', NEW slug \in Slugs, SlugBounded(slug),
         Claims(slug)' \subseteq Claims(slug),
         Requesting("insert", slug)' \subseteq Requesting("insert", slug)
  PROVE  SlugBounded(slug)'
<1>1. /\ Cardinality(Claims(slug)') <= Cardinality(Claims(slug))
      /\ Cardinality(Requesting("insert", slug)') <= Cardinality(Requesting("insert", slug))
  BY FS_Subset DEF SizesOK
<1>2. /\ Cardinality(Claims(slug)) \in Nat /\ Cardinality(Claims(slug)') \in Nat
      /\ Cardinality(Requesting("insert", slug)) \in Nat
      /\ Cardinality(Requesting("insert", slug)') \in Nat
      /\ faults \in Nat /\ faults' \in Nat /\ Cardinality(Requests) \in Nat
  BY DEF SizesOK
<1>3. Cardinality(Claims(slug)) + Cardinality(Requesting("insert", slug))
        <= Cardinality(Requests) + faults
  BY DEF SlugBounded
<1>4. Cardinality(Claims(slug)') + Cardinality(Requesting("insert", slug)')
        <= Cardinality(Requests) + faults'
  BY <1>1, <1>2, <1>3
<1> QED
  BY <1>4 DEF SlugBounded

\* Handlers and accounts that have to do with a slug may only become fewer.
Steady ==
  /\ DOMAIN users' \subseteq DOMAIN users /\ faults <= faults'
  /\ \A u \in DOMAIN users' : users'[u].slug = users[u].slug
  /\ \A r \in Requests : \/ request'[r] = request[r]
                         \/ request'[r].stage \notin {"insert", "setSlug"}

LEMMA SteadyKeepsClaims ==
  ASSUME SizesOK, SizesOK', Steady, NEW slug \in Slugs, SlugBounded(slug)
  PROVE  SlugBounded(slug)'
<1>1. /\ Requesting("insert", slug)' \subseteq Requesting("insert", slug)
      /\ Requesting("setSlug", slug)' \subseteq Requesting("setSlug", slug)
  BY DEF Steady, Requesting, At
<1>2. \A r \in Requesting("setSlug", slug)' : request'[r] = request[r]
  BY DEF Steady, Requesting, At
<1>3. Claims(slug)' \subseteq Claims(slug)
  BY <1>1, <1>2 DEF Claims, Holders, Steady
<1> QED
  BY <1>1, <1>3, NoMoreClaims DEF Steady

\* The steps that are not steady.
LEMMA WritersOfSlugs ==
  ASSUME TypeOK, [Next]_vars
  PROVE  \/ Steady \/ SeedDemoAccount
         \/ \E r \in Requests :
              \/ \E q : CountCandidate(r, q) /\ q.stage = "candidate"
              \/ InsertUser(r) \/ Available(r) \/ UpdateUserSlug(r)
<1>1. faults \in Nat
  BY DEF TypeOK
<1>2. UNCHANGED vars => Steady
  BY <1>1 DEF vars, Steady
<1>3. Serve \/ Restart => Steady
  BY <1>1 DEF Serve, Restart, tables, Steady, Idle, Down
<1>4. ASSUME NEW r \in Requests, users' = users, faults <= faults', NEW next,
             next.stage \notin {"insert", "setSlug"}, Continue(r, next)
      PROVE  Steady
  BY <1>4 DEF Continue, TypeOK, Steady
<1>5. ASSUME NEW r \in Requests, Anonymous(r)
      PROVE  Steady \/ \E q : CountCandidate(r, q) /\ q.stage = "candidate"
  <2>1. ASSUME NEW email \in Emails, NEW password \in Passwords,
               Signup(r, email, password)
        PROVE  \E q : CountCandidate(r, q) /\ q.stage = "candidate"
    BY <2>1 DEF Signup
  <2>2. ASSUME NEW email \in Emails, NEW password \in Passwords,
               Login(r, email, password)
        PROVE  Steady
    BY <1>1, <1>4, <2>2 DEF Login, tables
  <2>3. ASSUME NEW email \in Emails, ForgotPassword(r, email) PROVE Steady
    BY <1>1, <1>4, <2>3 DEF ForgotPassword, tables
  <2>4. ASSUME NEW token, NEW password, ResetPassword(r, token, password)
        PROVE  Steady
    BY <1>1, <1>4, <2>4 DEF ResetPassword, tables
  <2> QED
    BY <1>5, <2>1, <2>2, <2>3, <2>4 DEF Anonymous
<1>6. ASSUME NEW r \in Requests, ByUser(r) PROVE Steady
  <2>1. ASSUME NEW token, Logout(r, token) PROVE Steady
    BY <1>1, <2>1 DEF Logout, Steady
  <2>2. ASSUME NEW token, NEW slug, ProfileSlug(r, token, slug) PROVE Steady
    BY <1>1, <1>4, <2>2 DEF ProfileSlug, SignedIn, tables
  <2>3. ASSUME NEW token, NEW password, AccountDelete(r, token, password)
        PROVE  Steady
    BY <1>1, <1>4, <2>3 DEF AccountDelete, SignedIn, tables
  <2>4. ASSUME NEW token, NEW password, NEW new, AccountPassword(r, token, password, new)
        PROVE  Steady
    BY <1>1, <1>4, <2>4 DEF AccountPassword, SignedIn, tables
  <2>5. ASSUME NEW token, NEW password, NEW email,
               AccountEmail(r, token, password, email)
        PROVE  Steady
    BY <1>1, <1>4, <2>5 DEF AccountEmail, SignedIn, tables
  <2> QED
    BY <1>6, <2>1, <2>2, <2>3, <2>4, <2>5 DEF ByUser
<1>7. ASSUME NEW r \in Requests, Statement(r)
      PROVE  \/ Steady \/ \E q : CountCandidate(r, q) /\ q.stage = "candidate"
             \/ InsertUser(r) \/ Available(r) \/ UpdateUserSlug(r)
  <2>1. Candidate(r) => \E q : CountCandidate(r, q) /\ q.stage = "candidate"
    BY DEF Candidate, At
  <2>2. ASSUME NEW next, next.stage \notin {"insert", "setSlug"}, Continue(r, next)
        PROVE  request' = [request EXCEPT ![r] = next] /\ request'[r] = next
               /\ \A x \in Requests : request'[x] = request[x] \/ request'[x] = next
    BY <2>2 DEF Continue, TypeOK
  <2>3. CASE \/ CreateSession(r) \/ CreatePasswordReset(r) \/ MarkPasswordResetUsed(r)
             \/ DeleteSessions(r) \/ Fail(r)
    BY <1>1, <1>4, <2>3 DEF CreateSession, CreatePasswordReset, MarkPasswordResetUsed,
       DeleteSessions, Fail, GivesUp, tables, Idle
  <2>4. CASE EmailTaken(r)
    <3>1. request[r].stage = "emailTaken" /\ users' = users /\ faults <= faults'
      BY <1>1, <2>4 DEF EmailTaken, At, tables
    <3>2. [request[r] EXCEPT !.stage = "setEmail"].stage = "setEmail"
      <4>1. request[r] \in Handler /\ request[r].stage = "emailTaken"
        BY <3>1 DEF TypeOK
      <4> QED
        BY <4>1 DEF Handler, Idle, Down
    <3> QED
      BY <1>4, <2>4, <3>1, <3>2 DEF EmailTaken, Idle
  <2>5. CASE UpdateForgotten(r)
    <3>1. users' = SetHash(request[r].user, request[r].password)
      BY <2>5 DEF UpdateForgotten
    <3>2. Kept
      BY <3>1, SetHashKeeps
    <3> QED
      BY <1>1, <2>2, <2>5, <3>2 DEF UpdateForgotten, Steady, Kept
  <2>6. CASE UpdatePassword(r)
    <3>1. users' = SetHash(request[r].user, request[r].password)
      BY <2>6 DEF UpdatePassword
    <3>2. Kept
      BY <3>1, SetHashKeeps
    <3> QED
      BY <1>1, <2>2, <2>6, <3>2 DEF UpdatePassword, Steady, Kept, Idle
  <2>7. CASE UpdateEmail(r)
    <3>1. DOMAIN users' = DOMAIN users
          /\ \A u \in DOMAIN users : users'[u].slug = users[u].slug
      BY <2>7 DEF UpdateEmail, TypeOK, User
    <3> QED
      BY <1>1, <2>2, <2>7, <3>1 DEF UpdateEmail, Steady, Idle
  <2>8. CASE DeleteUser(r)
    <3>1. DOMAIN users' \subseteq DOMAIN users
          /\ \A u \in DOMAIN users' : users'[u].slug = users[u].slug
      BY <2>8 DEF DeleteUser, Without
    <3> QED
      <4>1. /\ Continue(r, Idle) /\ Idle.stage \notin {"insert", "setSlug"}
            /\ faults' = faults
        BY <2>8 DEF DeleteUser, Idle
      <4> QED
        BY <1>1, <2>2, <3>1, <4>1 DEF Steady
  <2> QED
    BY <1>7, <2>1, <2>3, <2>4, <2>5, <2>6, <2>7, <2>8 DEF Statement
<1> QED
  BY <1>2, <1>3, <1>5, <1>6, <1>7 DEF Next

\* A claim that a check found to be the only ones: those of the handlers.
LEMMA CheckedClaims ==
  ASSUME SizesOK', NEW slug \in Slugs, faults' \in Nat,
         Claims(slug)' = {request'[r].user : r \in Requesting("setSlug", slug)'}
  PROVE  SlugBounded(slug)'
<1> DEFINE setting == Requesting("setSlug", slug)'
           inserting == Requesting("insert", slug)'
<1>1. /\ Cardinality(setting) \in Nat /\ Cardinality(inserting) \in Nat
      /\ Cardinality(Claims(slug)') <= Cardinality(setting)
      /\ Cardinality(setting) + Cardinality(inserting) <= Cardinality(Requests)
      /\ Cardinality(Claims(slug)') \in Nat /\ Cardinality(Requests) \in Nat
  BY DEF SizesOK
<1> HIDE DEF setting, inserting
<1>2. Cardinality(Claims(slug)') + Cardinality(inserting) <= Cardinality(Requests) + faults'
  BY <1>1
<1> QED
  BY <1>2 DEF SlugBounded, inserting

LEMMA CountKeepsClaims ==
  ASSUME TypeOK, SizesOK, SizesOK', NEW r \in Requests, NEW q, CountCandidate(r, q),
         q.stage = "candidate", NEW slug \in Slugs, SlugBounded(slug)
  PROVE  SlugBounded(slug)'
<1> DEFINE mine == <<BaseOf[q.email], q.n>>
           taken == [q EXCEPT !.n = @ + 1]
           free == [stage |-> "insert", email |-> q.email, password |-> q.password,
                    slug |-> mine]
<1>1. users' = users /\ faults \in Nat
  BY DEF CountCandidate, tables, TypeOK
<1>2. CASE Continue(r, taken) /\ UNCHANGED faults
  <2>1. Steady
    BY <1>1, <1>2 DEF Continue, TypeOK, Steady
  <2> QED
    BY <2>1, SteadyKeepsClaims
<1>3. CASE Continue(r, free) /\ faults' \in {faults, faults + 1}
           /\ (faults' = faults => Holders(mine) = {})
  <2>1. /\ request'[r] = free /\ \A x \in Requests \ {r} : request'[x] = request[x]
        /\ faults <= faults' /\ faults' \in Nat
    BY <1>1, <1>3 DEF Continue, TypeOK
  <2>2. Holders(slug)' = Holders(slug)
    BY <1>1 DEF Holders
  <2>3. /\ Requesting("setSlug", slug)' \subseteq Requesting("setSlug", slug)
        /\ \A x \in Requesting("setSlug", slug)' : request'[x] = request[x]
    BY <2>1 DEF Requesting, At
  <2>4. Claims(slug)' \subseteq Claims(slug)
    BY <2>2, <2>3 DEF Claims
  <2>5. CASE slug # mine
    <3>1. Requesting("insert", slug)' \subseteq Requesting("insert", slug)
      BY <2>1, <2>5 DEF Requesting, At
    <3> QED
      BY <2>1, <2>4, <3>1, NoMoreClaims
  <2>6. CASE slug = mine /\ faults' = faults
    <3>1. Claims(slug)' = {request'[x].user : x \in Requesting("setSlug", slug)'}
      BY <1>3, <2>2, <2>6 DEF Claims
    <3> QED
      BY <2>1, <3>1, CheckedClaims
  <2>7. CASE slug = mine /\ faults' = faults + 1
    <3>1. Requesting("insert", slug)' \subseteq Requesting("insert", slug) \cup {r}
      BY <2>1 DEF Requesting, At
    <3>2. /\ IsFiniteSet(Claims(slug)) /\ IsFiniteSet(Requesting("insert", slug))
          /\ Cardinality(Claims(slug)) \in Nat /\ Cardinality(Claims(slug)') \in Nat
          /\ Cardinality(Requesting("insert", slug)) \in Nat
          /\ Cardinality(Requesting("insert", slug)') \in Nat
          /\ Cardinality(Requests) \in Nat
      BY DEF SizesOK
    <3>3. Cardinality(Claims(slug)') <= Cardinality(Claims(slug))
      BY <2>4, <3>2, FS_Subset
    <3>4. Cardinality(Requesting("insert", slug)')
            <= Cardinality(Requesting("insert", slug) \cup {r})
      BY <3>1, <3>2, FS_AddElement, FS_Subset
    <3>5. Cardinality(Requesting("insert", slug) \cup {r})
            \in {Cardinality(Requesting("insert", slug)),
                 Cardinality(Requesting("insert", slug)) + 1}
      BY <3>2, FS_AddElement
    <3>6. Cardinality(Claims(slug)) + Cardinality(Requesting("insert", slug))
            <= Cardinality(Requests) + faults
      BY DEF SlugBounded
    <3>7. Cardinality(Claims(slug)') + Cardinality(Requesting("insert", slug)')
            <= Cardinality(Requests) + faults'
      BY <1>1, <2>7, <3>2, <3>3, <3>4, <3>5, <3>6
    <3> QED
      BY <3>7 DEF SlugBounded
  <2> QED
    BY <1>3, <2>5, <2>6, <2>7
<1>4. \/ Continue(r, taken) /\ UNCHANGED faults
      \/ Continue(r, free) /\ UNCHANGED faults /\ Holders(mine) = {}
      \/ Continue(r, free) /\ faults' = faults + 1
  BY DEF CountCandidate
<1>5. faults + 1 # faults
  BY <1>1
<1> HIDE DEF taken, free, mine
<1> QED
  BY <1>2, <1>3, <1>4, <1>5

LEMMA InsertKeepsClaims ==
  ASSUME TypeOK, SizesOK, SizesOK', NEW r \in Requests, InsertUser(r),
         NEW slug \in Slugs, SlugBounded(slug)
  PROVE  SlugBounded(slug)'
<1> DEFINE q == request[r]
           new == lastUser + 1
<1>1. CASE UsersWith(q.email) # {}
  <2>1. Steady
    BY <1>1 DEF InsertUser, Continue, Idle, TypeOK, Steady
  <2> QED
    BY <2>1, SteadyKeepsClaims
<1>2. CASE UsersWith(q.email) = {}
  <2>1. /\ DOMAIN users' = DOMAIN users \cup {new} /\ users'[new].slug = q.slug
        /\ \A u \in DOMAIN users : users'[u] = users[u]
        /\ faults' = faults /\ faults \in Nat
    BY <1>2, NewId DEF InsertUser, With, TypeOK
  <2>2. /\ request'[r].stage = "session"
        /\ \A x \in Requests \ {r} : request'[x] = request[x]
    BY <1>2 DEF InsertUser, Continue, TypeOK
  <2>3. /\ Requesting("setSlug", slug)' \subseteq Requesting("setSlug", slug)
        /\ Requesting("insert", slug)' \subseteq Requesting("insert", slug) \ {r}
        /\ \A x \in Requesting("setSlug", slug)' : request'[x] = request[x]
    BY <2>2 DEF Requesting, At
  <2>4. CASE slug # q.slug
    <3>1. Claims(slug)' \subseteq Claims(slug)
      <4>1. Holders(slug)' \subseteq Holders(slug)
        BY <2>1, <2>4 DEF Holders
      <4> QED
        BY <2>3, <4>1 DEF Claims
    <3> QED
      BY <2>1, <2>3, <3>1, NoMoreClaims
  <2>5. CASE slug = q.slug
    <3>1. Claims(slug)' \subseteq Claims(slug) \cup {new}
      <4>1. Holders(slug)' \subseteq Holders(slug) \cup {new}
        BY <2>1 DEF Holders
      <4> QED
        BY <2>3, <4>1 DEF Claims
    <3>2. r \in Requesting("insert", slug)
      BY <2>5 DEF InsertUser, Requesting
    <3> HIDE DEF new, q
    <3>3. /\ IsFiniteSet(Claims(slug)) /\ IsFiniteSet(Requesting("insert", slug))
          /\ Cardinality(Claims(slug)) \in Nat /\ Cardinality(Claims(slug)') \in Nat
          /\ Cardinality(Requesting("insert", slug)) \in Nat
          /\ Cardinality(Requesting("insert", slug)') \in Nat
          /\ Cardinality(Requests) \in Nat
      BY DEF SizesOK
    <3>4. Cardinality(Claims(slug)') <= Cardinality(Claims(slug) \cup {new})
      BY <3>1, <3>3, FS_AddElement, FS_Subset
    <3>5. Cardinality(Claims(slug) \cup {new})
            \in {Cardinality(Claims(slug)), Cardinality(Claims(slug)) + 1}
      BY <3>3, FS_AddElement
    <3>6. Cardinality(Requesting("insert", slug)')
            <= Cardinality(Requesting("insert", slug) \ {r})
      BY <2>3, <3>3, FS_RemoveElement, FS_Subset
    <3>7. Cardinality(Requesting("insert", slug) \ {r})
            = Cardinality(Requesting("insert", slug)) - 1
      BY <3>2, <3>3, FS_RemoveElement
    <3>8. Cardinality(Claims(slug)) + Cardinality(Requesting("insert", slug))
            <= Cardinality(Requests) + faults
      BY DEF SlugBounded
    <3>9. Cardinality(Claims(slug)') + Cardinality(Requesting("insert", slug)')
            <= Cardinality(Requests) + faults'
      BY <2>1, <3>3, <3>4, <3>5, <3>6, <3>7, <3>8
    <3> QED
      BY <3>9 DEF SlugBounded
  <2> QED
    BY <2>4, <2>5
<1> QED
  BY <1>1, <1>2

LEMMA AvailableKeepsClaims ==
  ASSUME TypeOK, SizesOK, SizesOK', NEW r \in Requests, Available(r),
         NEW slug \in Slugs, SlugBounded(slug)
  PROVE  SlugBounded(slug)'
<1> DEFINE q == request[r]
           next == [q EXCEPT !.stage = "setSlug"]
<1>1. /\ users' = users /\ faults' = faults /\ faults \in Nat
      /\ q.stage = "available" /\ q \in Handler
  BY DEF Available, At, tables, TypeOK
<1>2. next.stage = "setSlug" /\ next.user = q.user /\ next.slug = q.slug
  <2>1. q = [stage |-> "available", user |-> q.user, slug |-> q.slug]
    BY <1>1 DEF Handler, Idle, Down
  <2> QED
    BY <2>1
<1> HIDE DEF next
<1>3. CASE Continue(r, Idle)
  <2>1. Steady
    BY <1>1, <1>3 DEF Continue, Idle, TypeOK, Steady
  <2> QED
    BY <2>1, SteadyKeepsClaims
<1>4. CASE Continue(r, next) /\ IsSlugAvailable(q.slug, q.user)
  <2>1. request'[r] = next /\ \A x \in Requests \ {r} : request'[x] = request[x]
    BY <1>4 DEF Continue, TypeOK
  <2>2. Holders(slug)' = Holders(slug)
    BY <1>1 DEF Holders
  <2>3. CASE slug = q.slug
    <3>1. r \in Requesting("setSlug", slug)' /\ request'[r].user = q.user
      BY <1>2, <2>1, <2>3 DEF Requesting, At
    <3>2. Holders(slug)' \subseteq {q.user}
      BY <1>4, <2>2, <2>3 DEF IsSlugAvailable
    <3>3. Claims(slug)' = {request'[x].user : x \in Requesting("setSlug", slug)'}
      BY <3>1, <3>2 DEF Claims
    <3> QED
      BY <1>1, <3>3, CheckedClaims
  <2>4. CASE slug # q.slug
    <3>1. /\ Requesting("insert", slug)' \subseteq Requesting("insert", slug)
          /\ Requesting("setSlug", slug)' \subseteq Requesting("setSlug", slug)
          /\ \A x \in Requesting("setSlug", slug)' : request'[x] = request[x]
      BY <1>2, <2>1, <2>4 DEF Requesting, At
    <3>2. Claims(slug)' \subseteq Claims(slug)
      BY <2>2, <3>1 DEF Claims
    <3>3. faults <= faults'
      BY <1>1
    <3> QED
      BY <3>1, <3>2, <3>3, NoMoreClaims
  <2> QED
    BY <2>3, <2>4
<1> QED
  BY <1>3, <1>4 DEF Available, next

LEMMA UpdateSlugKeepsClaims ==
  ASSUME TypeOK, SizesOK, SizesOK', NEW r \in Requests, UpdateUserSlug(r),
         NEW slug \in Slugs, SlugBounded(slug)
  PROVE  SlugBounded(slug)'
<1> DEFINE q == request[r]
<1>1. /\ request'[r] = Idle /\ \A x \in Requests \ {r} : request'[x] = request[x]
      /\ faults <= faults' /\ q.stage = "setSlug"
  BY DEF UpdateUserSlug, Continue, At, TypeOK
<1>2. /\ Requesting("insert", slug)' \subseteq Requesting("insert", slug)
      /\ Requesting("setSlug", slug)' \subseteq Requesting("setSlug", slug)
      /\ \A x \in Requesting("setSlug", slug)' : request'[x] = request[x]
  BY <1>1 DEF Requesting, At, Idle
<1>3. DOMAIN users' = DOMAIN users /\ \A u \in DOMAIN users :
        users'[u].slug = users[u].slug \/ (u = q.user /\ users'[u].slug = q.slug)
  BY DEF UpdateUserSlug, TypeOK, User
<1>4. q.slug = slug => q.user \in Claims(slug)
  BY <1>1 DEF Claims, Requesting, At
<1>5. Holders(slug)' \subseteq Claims(slug)
  BY <1>3, <1>4 DEF Holders, Claims
<1>6. Claims(slug)' \subseteq Claims(slug)
  BY <1>2, <1>5 DEF Claims
<1> QED
  BY <1>1, <1>2, <1>6, NoMoreClaims

LEMMA SeedKeepsClaims ==
  ASSUME TypeOK, SizesOK, SizesOK', SeedDemoAccount, NEW slug \in Slugs,
         SlugBounded(slug)
  PROVE  SlugBounded(slug)'
<1>1. PICK email \in Demo, password \in Passwords, mine \in Slugs :
        /\ \/ Holders(mine) = {} /\ faults' = faults
           \/ faults' = faults + 1
        /\ lastUser' = lastUser + 1
        /\ users' = With(users, lastUser',
             [email |-> email, hash |-> password, slug |-> mine])
  BY DEF SeedDemoAccount
<1> DEFINE new == lastUser + 1
<1>2. /\ DOMAIN users' = DOMAIN users \cup {new} /\ users'[new].slug = mine
      /\ \A u \in DOMAIN users : users'[u] = users[u]
  BY <1>1, NewId DEF With
<1>3. /\ Requesting("insert", slug)' = {} /\ Requesting("setSlug", slug)' = {}
      /\ Requesting("insert", slug) = {} /\ Requesting("setSlug", slug) = {}
  BY DEF SeedDemoAccount, Requesting, At, Idle
<1>4. /\ faults \in Nat /\ Cardinality(Requests) \in Nat
      /\ Cardinality(Requests) >= 1 /\ faults <= faults'
      /\ IsFiniteSet(Claims(slug)) /\ Cardinality(Claims(slug)) \in Nat
  <2>1. /\ faults \in Nat /\ Cardinality(Requests) \in Nat
        /\ Cardinality(Requests) >= 1
    BY DEF SizesOK
  <2>2. IsFiniteSet(Claims(slug)) /\ Cardinality(Claims(slug)) \in Nat
    BY DEF SizesOK
  <2> QED
    BY <1>1, <2>1, <2>2
<1>5. CASE slug = mine
  <2>1. Claims(slug)' = Claims(slug) \cup {new} /\ new \notin Claims(slug)
    BY <1>2, <1>3, <1>5, NewId DEF Claims, Holders
  <2> HIDE DEF new
  <2>2. /\ Cardinality(Claims(slug)') = Cardinality(Claims(slug)) + 1
        /\ Cardinality(Requesting("insert", slug)') = 0
        /\ Cardinality(Requesting("insert", slug)) = 0
    <3>1. Cardinality({}) = 0
      BY FS_EmptySet
    <3>2. Cardinality(Claims(slug) \cup {new}) = Cardinality(Claims(slug)) + 1
      BY <1>4, <2>1, FS_AddElement
    <3> QED
      BY <1>3, <2>1, <3>1, <3>2
  <2>3. CASE Holders(mine) = {} /\ faults' = faults
    <3>1. Claims(slug) = {}
      BY <1>3, <1>5, <2>3 DEF Claims
    <3>2. Cardinality(Claims(slug)) = 0
      BY <3>1, FS_EmptySet
    <3> QED
      BY <1>4, <2>2, <2>3, <3>2 DEF SlugBounded
  <2>4. CASE faults' = faults + 1
    BY <1>4, <2>2, <2>4 DEF SlugBounded
  <2> QED
    BY <1>1, <2>3, <2>4
<1>6. CASE slug # mine
  <2>1. Claims(slug)' \subseteq Claims(slug)
    BY <1>2, <1>3, <1>6 DEF Claims, Holders
  <2>2. Requesting("insert", slug)' \subseteq Requesting("insert", slug)
    BY <1>3
  <2> QED
    BY <1>4, <2>1, <2>2, NoMoreClaims
<1> QED
  BY <1>5, <1>6

LEMMA StepClaims == TypeOK /\ ClaimsAreBounded /\ [Next]_vars => ClaimsAreBounded'
<1> SUFFICES ASSUME TypeOK, ClaimsAreBounded, [Next]_vars, NEW slug \in Slugs
             PROVE  SlugBounded(slug)'
  BY DEF ClaimsAreBounded, SlugBounded
<1>1. TypeOK' => SizesOK'
  BY Sizes, PTL
<1>2. SizesOK /\ SizesOK' /\ SlugBounded(slug)
  BY <1>1, Sizes, StepType DEF ClaimsAreBounded, SlugBounded
<1> QED
  BY <1>2, WritersOfSlugs, SteadyKeepsClaims, SeedKeepsClaims, CountKeepsClaims,
     InsertKeepsClaims, AvailableKeepsClaims, UpdateSlugKeepsClaims

\* What the checks for a free slug are worth: no more accounts share a slug than
\* requests run at a time, and one more for each check that failed.
THEOREM SlugsAreShared == Spec => []SlugSharingIsBounded
<1>1. Init => ClaimsAreBounded
  <2> SUFFICES ASSUME Init, NEW slug \in Slugs PROVE SlugBounded(slug)
    BY DEF ClaimsAreBounded, SlugBounded
  <2>1. Claims(slug) = {} /\ Requesting("insert", slug) = {}
    BY DEF Init, Claims, Holders, Requesting, At, Down
  <2>2. Cardinality(Claims(slug)) = 0 /\ Cardinality(Requesting("insert", slug)) = 0
    BY <2>1, FS_EmptySet
  <2>3. faults = 0 /\ Cardinality(Requests) \in Nat
    BY InputAssumption, FS_CardinalityType DEF Init
  <2> QED
    BY <2>2, <2>3 DEF SlugBounded
<1>2. TypeOK /\ ClaimsAreBounded => SlugSharingIsBounded
  <2> SUFFICES ASSUME TypeOK, ClaimsAreBounded, NEW slug \in Slugs
               PROVE  Cardinality(Holders(slug)) <= Cardinality(Requests) + faults
    BY DEF SlugSharingIsBounded
  <2>1. /\ IsFiniteSet(Claims(slug)) /\ Cardinality(Claims(slug)) \in Nat
        /\ Cardinality(Requesting("insert", slug)) \in Nat
        /\ Cardinality(Requests) \in Nat /\ faults \in Nat
    BY Sizes DEF SizesOK
  <2>2. Holders(slug) \subseteq Claims(slug)
    BY DEF Claims
  <2>3. IsFiniteSet(Holders(slug)) /\ Cardinality(Holders(slug)) <= Cardinality(Claims(slug))
    BY <2>1, <2>2, FS_Subset
  <2>4. Cardinality(Holders(slug)) \in Nat
    BY <2>3, FS_CardinalityType
  <2>5. Cardinality(Claims(slug)) + Cardinality(Requesting("insert", slug))
          <= Cardinality(Requests) + faults
    BY DEF ClaimsAreBounded
  <2> QED
    BY <2>1, <2>3, <2>4, <2>5
<1> QED
  BY <1>1, <1>2, InitType, StepType, StepClaims, PTL DEF Spec

-----------------------------------------------------------------------------
(* Reset tokens. *)

\* The requests that are to set a password with the token; those that have set
\* one and are to mark it.
Presenting(stage, t) ==
  {r \in Requests : At(r, stage) /\ request[r].token = t}

Setters(t) == Presenting("resetPassword", t)

Markers(t) == Presenting("markUsed", t)

\* What n failed statements account for.
Lost(n) == Cardinality(Requests) * n

TokensAreNew ==
  /\ DOMAIN resets = 1..Cardinality(DOMAIN resets)
  /\ \A t \in 1..MaxResets \ DOMAIN resets : uses[t] = 0

\* The uses of a token that is not marked are still to be marked, or a failure
\* accounts for them; with those to come they stay within the bound.
UsesAreAccounted ==
  \A t \in DOMAIN resets :
    /\ uses[t] + Cardinality(Setters(t)) <= Lost(faults + 1)
    /\ resets[t].used = 0 => uses[t] <= Cardinality(Markers(t)) + Lost(faults)

\* The sizes at hand.
CountsOK ==
  /\ Cardinality(Requests) \in Nat /\ faults \in Nat
  /\ \A t \in DOMAIN resets :
       /\ uses[t] \in Nat
       /\ IsFiniteSet(Setters(t)) /\ Cardinality(Setters(t)) \in Nat
       /\ IsFiniteSet(Markers(t)) /\ Cardinality(Markers(t)) \in Nat
       /\ Cardinality(Setters(t)) + Cardinality(Markers(t)) <= Cardinality(Requests)

LEMMA Counts == TypeOK => CountsOK
<1> SUFFICES ASSUME TypeOK PROVE CountsOK
  OBVIOUS
<1>1. Cardinality(Requests) \in Nat /\ faults \in Nat
  BY InputAssumption, FS_CardinalityType DEF TypeOK
<1>2. ASSUME NEW t \in DOMAIN resets
      PROVE  /\ uses[t] \in Nat
             /\ IsFiniteSet(Setters(t)) /\ Cardinality(Setters(t)) \in Nat
             /\ IsFiniteSet(Markers(t)) /\ Cardinality(Markers(t)) \in Nat
             /\ Cardinality(Setters(t)) + Cardinality(Markers(t)) <= Cardinality(Requests)
  <2>1. /\ Setters(t) \subseteq Requests /\ Markers(t) \subseteq Requests
        /\ Setters(t) \cap Markers(t) = {}
    BY DEF Setters, Markers, Presenting, At
  <2>2. IsFiniteSet(Setters(t)) /\ IsFiniteSet(Markers(t))
    BY <2>1, InputAssumption, FS_Subset
  <2>3. Cardinality(Setters(t)) \in Nat /\ Cardinality(Markers(t)) \in Nat
    BY <2>2, FS_CardinalityType
  <2>4. Cardinality(Setters(t) \cup Markers(t)) <= Cardinality(Requests)
    BY <2>1, InputAssumption, FS_Subset
  <2>5. Cardinality(Setters(t) \cup Markers(t))
          = Cardinality(Setters(t)) + Cardinality(Markers(t))
    <3>1. Cardinality(Setters(t) \cap Markers(t)) = 0
      BY <2>1, FS_EmptySet
    <3>2. Cardinality(Setters(t) \cup Markers(t))
            = Cardinality(Setters(t)) + Cardinality(Markers(t))
                - Cardinality(Setters(t) \cap Markers(t))
      BY <2>2, FS_Union
    <3> QED
      BY <2>3, <3>1, <3>2
  <2>6. uses[t] \in Nat
    BY DEF TypeOK
  <2> QED
    BY <2>2, <2>3, <2>4, <2>5, <2>6
<1> QED
  BY <1>1, <1>2 DEF CountsOK

LEMMA LostGrows ==
  ASSUME Cardinality(Requests) \in Nat, NEW n \in Nat
  PROVE  Lost(n) \in Nat /\ Lost(n + 1) = Lost(n) + Cardinality(Requests)
BY DEF Lost

\* Handlers that do not use tokens go on.
Calm ==
  /\ resets' = resets /\ uses' = uses /\ faults' = faults
  /\ \A r \in Requests :
       \/ request'[r] = request[r]
       \/ request[r].stage # "markUsed" /\ request'[r].stage # "resetPassword"

\* Handlers give up.
Faulty ==
  /\ resets' = resets /\ uses' = uses /\ faults' = faults + 1
  /\ \A r \in Requests : \/ request'[r] = request[r]
                         \/ request'[r].stage # "resetPassword"

LEMMA UsersOfTokens ==
  ASSUME TypeOK, [Next]_vars
  PROVE  \/ Calm \/ Faulty
         \/ \E r \in Requests :
              \/ CreatePasswordReset(r) \/ UpdateForgotten(r) \/ MarkPasswordResetUsed(r)
              \/ \E t \in DOMAIN resets, password \in Passwords :
                   ResetPassword(r, t, password)
<1>1. ASSUME NEW r \in Requests, NEW next, Continue(r, next), request[r].stage # "markUsed",
             next.stage # "resetPassword", UNCHANGED <<resets, uses>>
      PROVE  /\ faults' = faults => Calm
             /\ faults' = faults + 1 => Faulty
  BY <1>1 DEF Continue, TypeOK, Calm, Faulty
<1>2. UNCHANGED vars \/ Serve => Calm
  BY DEF vars, Serve, At, Idle, tables, Calm
<1>8. SeedDemoAccount => Calm \/ Faulty
  BY DEF SeedDemoAccount, At, Idle, Calm, Faulty
<1>3. Restart => Faulty
  BY DEF Restart, Down, tables, Faulty
<1>4. ASSUME NEW r \in Requests, NEW q, CountCandidate(r, q), q.stage = "candidate",
             request[r].stage # "markUsed"
      PROVE  Calm \/ Faulty
  <2> DEFINE free == [stage |-> "insert", email |-> q.email, password |-> q.password,
                      slug |-> <<BaseOf[q.email], q.n>>]
             taken == [q EXCEPT !.n = @ + 1]
  <2>1. free.stage = "insert" /\ taken.stage = "candidate"
    BY <1>4
  <2>2. /\ Continue(r, free) \/ Continue(r, taken)
        /\ faults' = faults \/ faults' = faults + 1
        /\ UNCHANGED <<resets, uses>>
    BY <1>4 DEF CountCandidate, tables
  <2> HIDE DEF free, taken
  <2> QED
    BY <1>1, <1>4, <2>1, <2>2
<1>5. ASSUME NEW r \in Requests, Anonymous(r)
      PROVE  \/ Calm \/ Faulty
             \/ \E t \in DOMAIN resets, password \in Passwords :
                  ResetPassword(r, t, password)
  <2>1. ASSUME NEW email \in Emails, NEW password \in Passwords,
               Signup(r, email, password)
        PROVE  Calm \/ Faulty
    BY <1>4, <2>1 DEF Signup, At
  <2>2. ASSUME NEW email \in Emails, NEW password \in Passwords,
               Login(r, email, password)
        PROVE  Calm
    BY <1>1, <2>2 DEF Login, At, tables
  <2>3. ASSUME NEW email \in Emails, ForgotPassword(r, email) PROVE Calm
    BY <1>1, <2>3 DEF ForgotPassword, At, tables
  <2> QED
    BY <1>5, <2>1, <2>2, <2>3 DEF Anonymous
<1>6. ASSUME NEW r \in Requests, ByUser(r) PROVE Calm
  <2>1. ASSUME NEW token, Logout(r, token) PROVE Calm
    BY <2>1 DEF Logout, Calm
  <2>2. ASSUME NEW token, NEW slug, ProfileSlug(r, token, slug) PROVE Calm
    BY <1>1, <2>2 DEF ProfileSlug, SignedIn, At, tables
  <2>3. ASSUME NEW token, NEW password, AccountDelete(r, token, password)
        PROVE  Calm
    BY <1>1, <2>3 DEF AccountDelete, SignedIn, At, tables
  <2>4. ASSUME NEW token, NEW password, NEW new, AccountPassword(r, token, password, new)
        PROVE  Calm
    BY <1>1, <2>4 DEF AccountPassword, SignedIn, At, tables
  <2>5. ASSUME NEW token, NEW password, NEW email,
               AccountEmail(r, token, password, email)
        PROVE  Calm
    BY <1>1, <2>5 DEF AccountEmail, SignedIn, At, tables
  <2> QED
    BY <1>6, <2>1, <2>2, <2>3, <2>4, <2>5 DEF ByUser
<1>7. ASSUME NEW r \in Requests, Statement(r)
      PROVE  \/ Calm \/ Faulty \/ CreatePasswordReset(r) \/ UpdateForgotten(r)
             \/ MarkPasswordResetUsed(r)
  <2>1. ASSUME Candidate(r) PROVE Calm \/ Faulty
    BY <1>4, <2>1 DEF Candidate, At
  <2>2. CASE InsertUser(r) \/ CreateSession(r) \/ UpdateUserSlug(r) \/ UpdatePassword(r)
             \/ UpdateEmail(r) \/ DeleteSessions(r) \/ DeleteUser(r)
    BY <1>1, <2>2 DEF InsertUser, CreateSession, UpdateUserSlug, UpdatePassword,
       UpdateEmail, DeleteSessions, DeleteUser, At, Idle
  <2>3. CASE Available(r)
    <3>1. [request[r] EXCEPT !.stage = "setSlug"].stage = "setSlug"
      <4>1. request[r] \in Handler /\ request[r].stage = "available"
        BY <2>3 DEF Available, At, TypeOK
      <4> QED
        BY <4>1 DEF Handler, Idle, Down
    <3> QED
      BY <1>1, <2>3, <3>1 DEF Available, At, Idle, tables
  <2>4. CASE EmailTaken(r)
    <3>1. [request[r] EXCEPT !.stage = "setEmail"].stage = "setEmail"
      <4>1. request[r] \in Handler /\ request[r].stage = "emailTaken"
        BY <2>4 DEF EmailTaken, At, TypeOK
      <4> QED
        BY <4>1 DEF Handler, Idle, Down
    <3> QED
      BY <1>1, <2>4, <3>1 DEF EmailTaken, At, Idle, tables
  <2>5. CASE Fail(r)
    BY <2>5 DEF Fail, GivesUp, Continue, Idle, tables, TypeOK, Faulty
  <2> QED
    BY <1>7, <2>1, <2>2, <2>3, <2>4, <2>5 DEF Statement
<1> QED
  BY <1>2, <1>3, <1>5, <1>6, <1>7, <1>8 DEF Next

LEMMA StepTokens == TypeOK /\ TokensAreNew /\ [Next]_vars => TokensAreNew'
<1> SUFFICES ASSUME TypeOK, TokensAreNew, [Next]_vars PROVE TokensAreNew'
  OBVIOUS
<1>1. CASE resets' = resets /\ uses' = uses
  BY <1>1 DEF TokensAreNew
<1>2. ASSUME NEW r \in Requests, CreatePasswordReset(r) PROVE TokensAreNew'
  <2> DEFINE n == Cardinality(DOMAIN resets)
  <2>1. /\ DOMAIN resets' = DOMAIN resets \cup {n + 1} /\ uses' = uses
        /\ DOMAIN resets = 1..n
    BY <1>2 DEF CreatePasswordReset, With, TokensAreNew
  <2>2. n \in Nat
    <3>1. IsFiniteSet(1..MaxResets) /\ DOMAIN resets \subseteq 1..MaxResets
      BY FS_Interval, BoundsAssumption DEF TypeOK
    <3> QED
      BY <3>1, FS_Subset, FS_CardinalityType
  <2> HIDE DEF n
  <2>3. DOMAIN resets' = 1..(n + 1)
    BY <2>1, <2>2
  <2>4. Cardinality(DOMAIN resets') = n + 1
    BY <2>2, <2>3, FS_Interval
  <2> QED
    BY <2>1, <2>3, <2>4 DEF TokensAreNew
<1>3. ASSUME NEW r \in Requests, UpdateForgotten(r) PROVE TokensAreNew'
  <2>1. request[r].token \in DOMAIN resets
    BY <1>3, Shape DEF UpdateForgotten, At
  <2>2. resets' = resets /\ uses' = [uses EXCEPT ![request[r].token] = @ + 1]
    BY <1>3 DEF UpdateForgotten
  <2> QED
    BY <2>1, <2>2 DEF TokensAreNew, TypeOK
<1>4. ASSUME NEW r \in Requests, MarkPasswordResetUsed(r) PROVE TokensAreNew'
  BY <1>4 DEF MarkPasswordResetUsed, Marked, TokensAreNew
<1> QED
  BY <1>1, <1>2, <1>3, <1>4, UsersOfTokens DEF Calm, Faulty, ResetPassword, tables

\* The bounds for one token.
TokenAccounted(t) ==
  /\ uses[t] + Cardinality(Setters(t)) <= Lost(faults + 1)
  /\ resets[t].used = 0 => uses[t] <= Cardinality(Markers(t)) + Lost(faults)

LEMMA CalmKeepsAccounts ==
  ASSUME CountsOK, CountsOK', Calm, NEW t \in DOMAIN resets, TokenAccounted(t)
  PROVE  TokenAccounted(t)'
<1>1. /\ Setters(t)' \subseteq Setters(t) /\ Markers(t) \subseteq Markers(t)'
      /\ resets' = resets /\ uses' = uses /\ faults' = faults
  BY DEF Calm, Setters, Markers, Presenting, At
<1>2. /\ uses[t] \in Nat /\ faults \in Nat /\ Cardinality(Requests) \in Nat
      /\ IsFiniteSet(Setters(t)) /\ Cardinality(Setters(t)) \in Nat
      /\ Cardinality(Markers(t)) \in Nat
      /\ Cardinality(Setters(t)') \in Nat
      /\ IsFiniteSet(Markers(t)') /\ Cardinality(Markers(t)') \in Nat
  BY <1>1 DEF CountsOK
<1>3. /\ Cardinality(Setters(t)') <= Cardinality(Setters(t))
      /\ Cardinality(Markers(t)) <= Cardinality(Markers(t)')
  BY <1>1, <1>2, FS_Subset
<1>4. Lost(faults) \in Nat /\ Lost(faults + 1) \in Nat
  BY <1>2, LostGrows
<1>5. /\ uses[t] + Cardinality(Setters(t)) <= Lost(faults + 1)
      /\ resets[t].used = 0 => uses[t] <= Cardinality(Markers(t)) + Lost(faults)
  BY DEF TokenAccounted
<1>6. /\ uses[t] + Cardinality(Setters(t)') <= Lost(faults + 1)
      /\ resets[t].used = 0 => uses[t] <= Cardinality(Markers(t)') + Lost(faults)
  BY <1>2, <1>3, <1>4, <1>5
<1>7. Lost(faults)' = Lost(faults) /\ Lost(faults + 1)' = Lost(faults + 1)
  BY <1>1
<1> QED
  BY <1>1, <1>6, <1>7 DEF TokenAccounted

\* A failure accounts for as many uses as requests run at a time.
LEMMA FaultyKeepsAccounts ==
  ASSUME CountsOK, CountsOK', Faulty, NEW t \in DOMAIN resets, TokenAccounted(t)
  PROVE  TokenAccounted(t)'
<1>1. /\ Setters(t)' \subseteq Setters(t)
      /\ resets' = resets /\ uses' = uses /\ faults' = faults + 1
  BY DEF Faulty, Setters, Presenting, At
<1>2. /\ uses[t] \in Nat /\ faults \in Nat /\ Cardinality(Requests) \in Nat
      /\ IsFiniteSet(Setters(t)) /\ Cardinality(Setters(t)) \in Nat
      /\ Cardinality(Setters(t)') \in Nat /\ Cardinality(Markers(t)') \in Nat
  BY <1>1 DEF CountsOK
<1>3. Cardinality(Setters(t)') <= Cardinality(Setters(t))
  BY <1>1, <1>2, FS_Subset
<1>4. /\ Lost(faults + 1) \in Nat /\ faults + 1 \in Nat
      /\ Lost(faults + 1 + 1) = Lost(faults + 1) + Cardinality(Requests)
  <2>1. faults + 1 \in Nat
    BY <1>2
  <2> QED
    BY <1>2, <2>1, LostGrows
<1>5. uses[t] + Cardinality(Setters(t)) <= Lost(faults + 1)
  BY DEF TokenAccounted
<1>6. /\ uses[t] + Cardinality(Setters(t)') <= Lost(faults + 1 + 1)
      /\ uses[t] <= Cardinality(Markers(t)') + Lost(faults + 1)
  BY <1>2, <1>3, <1>4, <1>5
<1>7. Lost(faults)' = Lost(faults + 1) /\ Lost(faults + 1)' = Lost(faults + 1 + 1)
  BY <1>1
<1> QED
  BY <1>1, <1>6, <1>7 DEF TokenAccounted

\* The token may still be used: it is not marked.
LEMMA ResetKeepsAccounts ==
  ASSUME TypeOK, CountsOK, CountsOK', NEW r \in Requests, NEW token \in DOMAIN resets,
         NEW password, ResetPassword(r, token, password),
         NEW t \in DOMAIN resets, TokenAccounted(t)
  PROVE  TokenAccounted(t)'
<1>1. /\ resets' = resets /\ uses' = uses /\ faults' = faults /\ resets[token].used = 0
      /\ request[r] = Idle /\ \A x \in Requests \ {r} : request'[x] = request[x]
      /\ request'[r].stage = "resetPassword" /\ request'[r].token = token
  BY Shape DEF ResetPassword, GetPasswordReset, Continue, tables, TypeOK, Reset
<1>2. CASE t # token
  <2>1. Setters(t)' = Setters(t) /\ Markers(t)' = Markers(t)
    BY <1>1, <1>2 DEF Setters, Markers, Presenting, At, Idle
  <2>2. Lost(faults)' = Lost(faults) /\ Lost(faults + 1)' = Lost(faults + 1)
    BY <1>1
  <2> QED
    BY <1>1, <2>1, <2>2 DEF TokenAccounted
<1>3. CASE t = token
  <2>1. Markers(t)' = Markers(t)
    BY <1>1 DEF Markers, Presenting, At, Idle
  <2>2. /\ uses[t] \in Nat /\ faults \in Nat /\ Cardinality(Requests) \in Nat
        /\ Cardinality(Setters(t)') \in Nat /\ Cardinality(Markers(t)') \in Nat
        /\ Cardinality(Setters(t)') + Cardinality(Markers(t)') <= Cardinality(Requests)
    BY <1>1 DEF CountsOK
  <2>3. uses[t] <= Cardinality(Markers(t)') + Lost(faults)
    BY <1>1, <1>3, <2>1 DEF TokenAccounted
  <2>4. Lost(faults) \in Nat /\ Lost(faults + 1) = Lost(faults) + Cardinality(Requests)
    BY <2>2, LostGrows
  <2>5. uses[t] + Cardinality(Setters(t)') <= Lost(faults + 1)
    BY <2>2, <2>3, <2>4
  <2>6. Lost(faults)' = Lost(faults) /\ Lost(faults + 1)' = Lost(faults + 1)
    BY <1>1
  <2> QED
    BY <1>1, <2>3, <2>5, <2>6 DEF TokenAccounted
<1> QED
  BY <1>2, <1>3

\* The token is used once more, and has one request more that will mark it.
LEMMA UpdateKeepsAccounts ==
  ASSUME TypeOK, CountsOK, CountsOK', NEW r \in Requests, UpdateForgotten(r),
         NEW t \in DOMAIN resets, TokenAccounted(t)
  PROVE  TokenAccounted(t)'
<1> DEFINE token == request[r].token
<1>1. /\ resets' = resets /\ faults' = faults /\ request[r].stage = "resetPassword"
      /\ \A x \in Requests \ {r} : request'[x] = request[x]
      /\ request'[r] = [stage |-> "markUsed", token |-> token]
      /\ token \in DOMAIN resets /\ uses' = [uses EXCEPT ![token] = @ + 1]
  BY Shape DEF UpdateForgotten, Continue, At, TypeOK
<1>2. CASE t # token
  <2>1. Setters(t)' = Setters(t) /\ Markers(t)' = Markers(t) /\ uses'[t] = uses[t]
    BY SMTT(30), <1>1, <1>2 DEF Setters, Markers, Presenting, At, TypeOK
  <2>2. Lost(faults)' = Lost(faults) /\ Lost(faults + 1)' = Lost(faults + 1)
    BY <1>1
  <2> QED
    BY <1>1, <2>1, <2>2 DEF TokenAccounted
<1>3. CASE t = token
  <2>1. /\ Setters(t)' = Setters(t) \ {r} /\ r \in Setters(t)
        /\ Markers(t)' = Markers(t) \cup {r} /\ r \notin Markers(t)
        /\ uses'[t] = uses[t] + 1
    BY <1>1, <1>3 DEF Setters, Markers, Presenting, At, TypeOK
  <2>2. /\ uses[t] \in Nat /\ faults \in Nat /\ Cardinality(Requests) \in Nat
        /\ IsFiniteSet(Setters(t)) /\ Cardinality(Setters(t)) \in Nat
        /\ IsFiniteSet(Markers(t)) /\ Cardinality(Markers(t)) \in Nat
    BY DEF CountsOK
  <2>3. /\ Cardinality(Setters(t)') = Cardinality(Setters(t)) - 1
        /\ Cardinality(Markers(t)') = Cardinality(Markers(t)) + 1
    <3>1. Cardinality(Setters(t) \ {r}) = Cardinality(Setters(t)) - 1
      BY <2>1, <2>2, FS_RemoveElement
    <3>2. Cardinality(Markers(t) \cup {r}) = Cardinality(Markers(t)) + 1
      BY <2>1, <2>2, FS_AddElement
    <3> QED
      BY <2>1, <3>1, <3>2
  <2>4. Lost(faults) \in Nat /\ Lost(faults + 1) \in Nat
    BY <2>2, LostGrows
  <2>5. /\ uses[t] + Cardinality(Setters(t)) <= Lost(faults + 1)
        /\ resets[t].used = 0 => uses[t] <= Cardinality(Markers(t)) + Lost(faults)
    BY DEF TokenAccounted
  <2>6. /\ uses'[t] + Cardinality(Setters(t)') <= Lost(faults + 1)
        /\ resets[t].used = 0 => uses'[t] <= Cardinality(Markers(t)') + Lost(faults)
    BY <2>1, <2>2, <2>3, <2>4, <2>5
  <2>7. Lost(faults)' = Lost(faults) /\ Lost(faults + 1)' = Lost(faults + 1)
    BY <1>1
  <2> QED
    BY <1>1, <2>6, <2>7 DEF TokenAccounted
<1> QED
  BY <1>2, <1>3

\* The token is marked, and the requests that are to mark it no longer matter.
LEMMA MarkKeepsAccounts ==
  ASSUME TypeOK, CountsOK, CountsOK', NEW r \in Requests, MarkPasswordResetUsed(r),
         NEW t \in DOMAIN resets, TokenAccounted(t)
  PROVE  TokenAccounted(t)'
<1> DEFINE token == request[r].token
<1>1. /\ faults' = faults /\ uses' = uses /\ request[r].stage = "markUsed"
      /\ \A x \in Requests \ {r} : request'[x] = request[x]
      /\ request'[r].stage = "idle"
      /\ token \in DOMAIN resets /\ resets' = [resets EXCEPT ![token].used = 1]
  BY Shape DEF MarkPasswordResetUsed, Marked, Continue, Idle, At, TypeOK
<1>2. Setters(t)' = Setters(t)
  BY <1>1 DEF Setters, Presenting, At
<1>3. Lost(faults)' = Lost(faults) /\ Lost(faults + 1)' = Lost(faults + 1)
  BY <1>1
<1>4. CASE t # token
  <2>1. Markers(t)' = Markers(t) /\ resets'[t] = resets[t]
    BY <1>1, <1>4 DEF Markers, Presenting, At
  <2> QED
    BY <1>1, <1>2, <1>3, <2>1 DEF TokenAccounted
<1>5. CASE t = token
  <2>1. resets'[t].used = 1
    BY <1>1, <1>5 DEF TypeOK, Reset
  <2> QED
    BY <1>1, <1>2, <1>3, <2>1 DEF TokenAccounted
<1> QED
  BY <1>4, <1>5

\* A new token has not been used.
LEMMA CreateKeepsAccounts ==
  ASSUME TypeOK, TypeOK', TokensAreNew, CountsOK, CountsOK', NEW r \in Requests,
         CreatePasswordReset(r), UsesAreAccounted, NEW t \in DOMAIN resets'
  PROVE  TokenAccounted(t)'
<1> DEFINE token == Cardinality(DOMAIN resets) + 1
<1>1. /\ faults' = faults /\ uses' = uses /\ request[r].stage = "createReset"
      /\ \A x \in Requests \ {r} : request'[x] = request[x]
      /\ request'[r].stage = "idle"
      /\ DOMAIN resets' = DOMAIN resets \cup {token}
      /\ \A x \in DOMAIN resets \ {token} : resets'[x] = resets[x]
  BY DEF CreatePasswordReset, Continue, Idle, At, TypeOK, With
<1>2. Setters(t)' = Setters(t) /\ Markers(t)' = Markers(t)
  BY <1>1 DEF Setters, Markers, Presenting, At
<1>3. Lost(faults)' = Lost(faults) /\ Lost(faults + 1)' = Lost(faults + 1)
  BY <1>1
<1>4. token \notin DOMAIN resets /\ token \in 1..MaxResets
  <2>1. IsFiniteSet(1..MaxResets) /\ DOMAIN resets \subseteq 1..MaxResets
    BY FS_Interval, BoundsAssumption DEF TypeOK
  <2>2. Cardinality(DOMAIN resets) \in Nat
    BY <2>1, FS_Subset, FS_CardinalityType
  <2>3. token \notin DOMAIN resets
    BY <2>2 DEF TokensAreNew
  <2>4. token <= MaxResets
    BY DEF CreatePasswordReset
  <2> QED
    BY <2>2, <2>3, <2>4, BoundsAssumption
<1> HIDE DEF token
<1>5. CASE t # token
  <2>1. t \in DOMAIN resets /\ resets'[t] = resets[t]
    BY <1>1, <1>5
  <2>2. TokenAccounted(t)
    BY <2>1 DEF UsesAreAccounted, TokenAccounted
  <2> QED
    BY <1>1, <1>2, <1>3, <2>1, <2>2 DEF TokenAccounted
<1>6. CASE t = token
  <2>1. uses[t] = 0 /\ uses'[t] = 0
    BY <1>1, <1>4, <1>6 DEF TokensAreNew
  <2>2. /\ faults \in Nat /\ Cardinality(Requests) \in Nat
        /\ Cardinality(Setters(t)') \in Nat /\ Cardinality(Markers(t)') \in Nat
        /\ Cardinality(Setters(t)') + Cardinality(Markers(t)') <= Cardinality(Requests)
    BY DEF CountsOK
  <2>3. Lost(faults) \in Nat /\ Lost(faults + 1) = Lost(faults) + Cardinality(Requests)
    BY <2>2, LostGrows
  <2>4. /\ uses'[t] + Cardinality(Setters(t)') <= Lost(faults + 1)
        /\ uses'[t] <= Cardinality(Markers(t)') + Lost(faults)
    BY <2>1, <2>2, <2>3
  <2> QED
    BY <1>3, <2>4 DEF TokenAccounted
<1> QED
  BY <1>5, <1>6

LEMMA StepUses ==
  TypeOK /\ TokensAreNew /\ UsesAreAccounted /\ [Next]_vars => UsesAreAccounted'
<1> SUFFICES ASSUME TypeOK, TokensAreNew, UsesAreAccounted, [Next]_vars
             PROVE  UsesAreAccounted'
  OBVIOUS
<1>1. TypeOK' => CountsOK'
  BY Counts, PTL
<1>2. CountsOK /\ CountsOK' /\ TypeOK'
  BY <1>1, Counts, StepType
<1>3. \A t \in DOMAIN resets : TokenAccounted(t)
  BY DEF UsesAreAccounted, TokenAccounted
<1>4. ASSUME NEW r \in Requests, CreatePasswordReset(r), NEW t \in DOMAIN resets'
      PROVE  TokenAccounted(t)'
  BY <1>2, <1>4, CreateKeepsAccounts
<1>5. ASSUME ~\E r \in Requests : CreatePasswordReset(r), NEW t \in DOMAIN resets'
      PROVE  TokenAccounted(t)'
  <2>1. t \in DOMAIN resets
    BY <1>5, UsersOfTokens DEF Calm, Faulty, UpdateForgotten, MarkPasswordResetUsed,
       Marked, ResetPassword, tables
  <2> QED
    BY <1>2, <1>3, <1>5, <2>1, UsersOfTokens, CalmKeepsAccounts, FaultyKeepsAccounts,
       ResetKeepsAccounts, UpdateKeepsAccounts, MarkKeepsAccounts
<1>6. ASSUME NEW t \in DOMAIN resets' PROVE TokenAccounted(t)'
  BY <1>4, <1>5
<1> QED
  BY <1>6 DEF UsesAreAccounted, TokenAccounted

\* What the column "used" is worth: a token sets no more passwords than requests
\* run at a time, and as many again for each statement that failed.
THEOREM TokensAreUsedUp == Spec => []ResetUsesAreBounded
<1>1. Init => TokensAreNew /\ UsesAreAccounted
  <2> SUFFICES ASSUME Init PROVE TokensAreNew /\ UsesAreAccounted
    OBVIOUS
  <2>1. DOMAIN resets = {} /\ uses = [t \in 1..MaxResets |-> 0]
    BY DEF Init
  <2>2. Cardinality(DOMAIN resets) = 0
    BY <2>1, FS_EmptySet
  <2>3. DOMAIN resets = 1..Cardinality(DOMAIN resets)
    BY <2>1, <2>2
  <2> QED
    BY <2>1, <2>3 DEF TokensAreNew, UsesAreAccounted
<1>2. TypeOK /\ UsesAreAccounted => ResetUsesAreBounded
  <2> SUFFICES ASSUME TypeOK, UsesAreAccounted, NEW t \in DOMAIN resets
               PROVE  uses[t] <= Cardinality(Requests) * (1 + faults)
    BY DEF ResetUsesAreBounded
  <2>1. /\ uses[t] \in Nat /\ faults \in Nat /\ Cardinality(Requests) \in Nat
        /\ Cardinality(Setters(t)) \in Nat
    BY Counts DEF CountsOK
  <2>2. Lost(faults + 1) \in Nat /\ faults + 1 = 1 + faults
    BY <2>1, LostGrows
  <2>3. uses[t] + Cardinality(Setters(t)) <= Lost(faults + 1)
    BY DEF UsesAreAccounted
  <2>4. uses[t] <= Lost(faults + 1)
    BY <2>1, <2>2, <2>3
  <2> QED
    BY <2>2, <2>4 DEF Lost
<1> QED
  BY <1>1, <1>2, InitType, StepType, StepTokens, StepUses, PTL DEF Spec

-----------------------------------------------------------------------------
(* What is left of a deleted account. *)

\* A deletion on its way knows the sessions there were when it was asked for, and
\* before it deletes the account, those of them that were the account's are gone.
DeletionsOnTheirWay ==
  \A r \in Requests :
    /\ At(r, "deleteSessions") \/ At(r, "deleteUser") => request[r].since <= lastSession
    /\ At(r, "deleteUser") =>
         \A t \in DOMAIN sessions :
           sessions[t].user = request[r].user => t > request[r].since

RetiredBefore == \A u \in DOMAIN retired : retired[u] <= lastSession

Leftovers == DeletionsOnTheirWay /\ RetiredBefore /\ SessionsGoFirst

\* Sessions may go, and handlers move to where no deletion is on its way.
Aside ==
  /\ lastSession' = lastSession /\ retired' = retired
  /\ DOMAIN sessions' \subseteq DOMAIN sessions
  /\ \A t \in DOMAIN sessions' : sessions'[t] = sessions[t]
  /\ \A r \in Requests :
       \/ request'[r] = request[r]
       \/ request'[r].stage \notin {"deleteSessions", "deleteUser"}

LEMMA AsideKeepsLeftovers == Leftovers /\ Aside => Leftovers'
BY DEF Leftovers, Aside, DeletionsOnTheirWay, RetiredBefore, SessionsGoFirst, At

\* The steps that are not: those of a deletion, and a new session.
LEMMA StepsOfDeletions ==
  ASSUME TypeOK, [Next]_vars
  PROVE  \/ Aside
         \/ \E r \in Requests :
              \/ CreateSession(r) \/ DeleteSessions(r) \/ DeleteUser(r)
              \/ \E token \in DOMAIN sessions, password \in Passwords :
                   AccountDelete(r, token, password)
<1>1. ASSUME NEW r \in Requests, NEW next, Continue(r, next),
             next.stage \notin {"deleteSessions", "deleteUser"},
             UNCHANGED <<sessions, lastSession, retired>>
      PROVE  Aside
  BY <1>1 DEF Continue, TypeOK, Aside
<1>2. UNCHANGED vars \/ Serve \/ SeedDemoAccount \/ Restart => Aside
  BY DEF vars, Serve, SeedDemoAccount, Restart, Idle, Down, tables, ids, Aside
<1>3. ASSUME NEW r \in Requests, NEW q, CountCandidate(r, q), q.stage = "candidate"
      PROVE  Aside
  <2> DEFINE free == [stage |-> "insert", email |-> q.email, password |-> q.password,
                      slug |-> <<BaseOf[q.email], q.n>>]
             taken == [q EXCEPT !.n = @ + 1]
  <2>1. free.stage = "insert" /\ taken.stage = "candidate"
    BY <1>3
  <2>2. /\ Continue(r, free) \/ Continue(r, taken)
        /\ UNCHANGED <<sessions, lastSession, retired>>
    BY <1>3 DEF CountCandidate, tables, ids
  <2> HIDE DEF free, taken
  <2> QED
    BY <1>1, <2>1, <2>2
<1>4. ASSUME NEW r \in Requests, Anonymous(r) PROVE Aside
  <2>1. ASSUME NEW email \in Emails, NEW password \in Passwords,
               Signup(r, email, password)
        PROVE  Aside
    BY <1>3, <2>1 DEF Signup
  <2>2. ASSUME NEW email \in Emails, NEW password \in Passwords,
               Login(r, email, password)
        PROVE  Aside
    BY <1>1, <2>2 DEF Login, tables, ids
  <2>3. ASSUME NEW email \in Emails, ForgotPassword(r, email) PROVE Aside
    BY <1>1, <2>3 DEF ForgotPassword, tables, ids
  <2>4. ASSUME NEW token, NEW password, ResetPassword(r, token, password) PROVE Aside
    BY <1>1, <2>4 DEF ResetPassword, tables, ids
  <2> QED
    BY <1>4, <2>1, <2>2, <2>3, <2>4 DEF Anonymous
<1>5. ASSUME NEW r \in Requests, ByUser(r)
      PROVE  \/ Aside
             \/ \E token \in DOMAIN sessions, password \in Passwords :
                  AccountDelete(r, token, password)
  <2>1. ASSUME NEW token, Logout(r, token) PROVE Aside
    BY <2>1 DEF Logout, Without, ids, Aside
  <2>2. ASSUME NEW token, NEW slug, ProfileSlug(r, token, slug) PROVE Aside
    BY <1>1, <2>2 DEF ProfileSlug, SignedIn, tables, ids
  <2>3. ASSUME NEW token, NEW password, NEW new, AccountPassword(r, token, password, new)
        PROVE  Aside
    BY <1>1, <2>3 DEF AccountPassword, SignedIn, tables, ids
  <2>4. ASSUME NEW token, NEW password, NEW email,
               AccountEmail(r, token, password, email)
        PROVE  Aside
    BY <1>1, <2>4 DEF AccountEmail, SignedIn, tables, ids
  <2> QED
    BY <1>5, <2>1, <2>2, <2>3, <2>4 DEF ByUser
<1>6. ASSUME NEW r \in Requests, Statement(r)
      PROVE  Aside \/ CreateSession(r) \/ DeleteSessions(r) \/ DeleteUser(r)
  <2>1. ASSUME Candidate(r) PROVE Aside
    BY <1>3, <2>1 DEF Candidate, At
  <2>2. CASE InsertUser(r) \/ CreatePasswordReset(r) \/ UpdateForgotten(r)
             \/ MarkPasswordResetUsed(r) \/ UpdateUserSlug(r) \/ UpdatePassword(r)
             \/ UpdateEmail(r) \/ Fail(r)
    BY <1>1, <2>2 DEF InsertUser, CreatePasswordReset, UpdateForgotten,
       MarkPasswordResetUsed, UpdateUserSlug, UpdatePassword, UpdateEmail, Fail, GivesUp,
       Idle, tables, ids
  <2>3. CASE Available(r)
    <3>1. [request[r] EXCEPT !.stage = "setSlug"].stage = "setSlug"
      <4>1. request[r] \in Handler /\ request[r].stage = "available"
        BY <2>3 DEF Available, At, TypeOK
      <4> QED
        BY <4>1 DEF Handler, Idle, Down
    <3> QED
      BY <1>1, <2>3, <3>1 DEF Available, Idle, tables, ids
  <2>4. CASE EmailTaken(r)
    <3>1. [request[r] EXCEPT !.stage = "setEmail"].stage = "setEmail"
      <4>1. request[r] \in Handler /\ request[r].stage = "emailTaken"
        BY <2>4 DEF EmailTaken, At, TypeOK
      <4> QED
        BY <4>1 DEF Handler, Idle, Down
    <3> QED
      BY <1>1, <2>4, <3>1 DEF EmailTaken, Idle, tables, ids
  <2> QED
    BY <1>6, <2>1, <2>2, <2>3, <2>4 DEF Statement
<1> QED
  BY <1>2, <1>4, <1>5, <1>6 DEF Next

\* The new session is newer than any deletion on its way, and than any account
\* that is gone.
LEMMA CreateSessionKeepsLeftovers ==
  ASSUME TypeOK, Leftovers, NEW r \in Requests, CreateSession(r)
  PROVE  Leftovers'
<1>1. /\ lastSession \in Nat /\ lastSession' = lastSession + 1 /\ retired' = retired
      /\ DOMAIN sessions' = DOMAIN sessions \cup {lastSession + 1}
      /\ \A t \in DOMAIN sessions : t # lastSession + 1 => sessions'[t] = sessions[t]
      /\ DOMAIN sessions \subseteq 1..lastSession
  BY DEF CreateSession, With, TypeOK
<1>2. \A x \in Requests : request'[x] = request[x] \/ request'[x].stage = "idle"
  BY DEF CreateSession, Continue, Idle, TypeOK
<1>3. \A u \in DOMAIN retired : retired[u] \in Nat
  BY DEF TypeOK
<1>4. \A x \in Requests : At(x, "deleteSessions") \/ At(x, "deleteUser")
        => request[x].since \in Nat
  BY Shape DEF At
<1>5. \A t \in DOMAIN sessions' : \/ t \in DOMAIN sessions /\ t # lastSession + 1
                                  \/ t = lastSession + 1
  BY <1>1
<1>6. DeletionsOnTheirWay'
  <2> SUFFICES ASSUME NEW x \in Requests, request'[x] = request[x],
                      At(x, "deleteSessions") \/ At(x, "deleteUser")
               PROVE  /\ request[x].since <= lastSession'
                      /\ At(x, "deleteUser") =>
                           \A t \in DOMAIN sessions' :
                             sessions'[t].user = request[x].user => t > request[x].since
    BY <1>2 DEF DeletionsOnTheirWay, At
  <2>1. request[x].since \in Nat /\ request[x].since <= lastSession
    BY <1>4 DEF Leftovers, DeletionsOnTheirWay
  <2>2. lastSession + 1 > request[x].since /\ request[x].since <= lastSession'
    BY <1>1, <2>1
  <2>3. ASSUME At(x, "deleteUser"), NEW t \in DOMAIN sessions',
               sessions'[t].user = request[x].user
        PROVE  t > request[x].since
    BY <1>1, <1>5, <2>2, <2>3 DEF Leftovers, DeletionsOnTheirWay
  <2> QED
    BY <2>2, <2>3
<1>7. RetiredBefore'
  BY <1>1, <1>3 DEF Leftovers, RetiredBefore
<1>8. SessionsGoFirst'
  <2> SUFFICES ASSUME NEW t \in DOMAIN sessions', sessions'[t].user \in DOMAIN retired
               PROVE  t > retired[sessions'[t].user]
    BY <1>1 DEF SessionsGoFirst
  <2>1. CASE t \in DOMAIN sessions /\ t # lastSession + 1
    BY <1>1, <2>1 DEF Leftovers, SessionsGoFirst
  <2>2. CASE t = lastSession + 1
    BY <1>1, <1>3, <2>2 DEF Leftovers, RetiredBefore
  <2> QED
    BY <1>5, <2>1, <2>2
<1> QED
  BY <1>6, <1>7, <1>8 DEF Leftovers

\* The deletion is asked for ...
LEMMA AccountDeleteKeepsLeftovers ==
  ASSUME TypeOK, Leftovers, NEW r \in Requests, NEW token, NEW password,
         AccountDelete(r, token, password)
  PROVE  Leftovers'
<1>1. PICK u : Continue(r, [stage |-> "deleteSessions", user |-> u,
                            since |-> lastSession])
  BY DEF AccountDelete
<1>2. UNCHANGED <<sessions, lastSession, retired>> /\ lastSession \in Nat
  BY DEF AccountDelete, SignedIn, tables, ids, TypeOK
<1>3. /\ \A x \in Requests \ {r} : request'[x] = request[x]
      /\ request'[r].stage = "deleteSessions" /\ request'[r].since = lastSession
  BY <1>1 DEF Continue, TypeOK
<1>4. DeletionsOnTheirWay'
  BY <1>2, <1>3 DEF Leftovers, DeletionsOnTheirWay, At
<1> QED
  BY <1>2, <1>4 DEF Leftovers, RetiredBefore, SessionsGoFirst

\* ... has deleted the sessions ...
LEMMA DeleteSessionsKeepsLeftovers ==
  ASSUME TypeOK, Leftovers, NEW r \in Requests, DeleteSessions(r)
  PROVE  Leftovers'
<1> DEFINE q == request[r]
<1>1. /\ UNCHANGED <<lastSession, retired>> /\ At(r, "deleteSessions")
      /\ DOMAIN sessions' = {t \in DOMAIN sessions : sessions[t].user # q.user}
      /\ \A t \in DOMAIN sessions' : sessions'[t] = sessions[t]
  BY DEF DeleteSessions, Without, ids
<1>2. /\ \A x \in Requests \ {r} : request'[x] = request[x]
      /\ request'[r].stage = "deleteUser" /\ request'[r].user = q.user
      /\ request'[r].since = q.since
  BY DEF DeleteSessions, Continue, TypeOK
<1> HIDE DEF q
<1>3. q.since <= lastSession
  BY <1>1 DEF Leftovers, DeletionsOnTheirWay, q
<1>4. DeletionsOnTheirWay'
  BY <1>1, <1>2, <1>3 DEF Leftovers, DeletionsOnTheirWay, At
<1> QED
  BY <1>1, <1>4 DEF Leftovers, RetiredBefore, SessionsGoFirst

\* ... and then the account.
LEMMA DeleteUserKeepsLeftovers ==
  ASSUME TypeOK, Leftovers, NEW r \in Requests, DeleteUser(r)
  PROVE  Leftovers'
<1> DEFINE q == request[r]
<1>1. /\ UNCHANGED <<sessions, lastSession>> /\ At(r, "deleteUser")
      /\ retired' = retired \/ retired' = With(retired, q.user, q.since)
  BY DEF DeleteUser, ids
<1>2. /\ \A x \in Requests : request'[x] = request[x] \/ request'[x].stage = "idle"
  BY DEF DeleteUser, Continue, Idle, TypeOK
<1> HIDE DEF q
<1>3. /\ q.since <= lastSession
      /\ \A t \in DOMAIN sessions : sessions[t].user = q.user => t > q.since
  BY <1>1 DEF Leftovers, DeletionsOnTheirWay, q
<1>4. DeletionsOnTheirWay'
  BY <1>1, <1>2 DEF Leftovers, DeletionsOnTheirWay, At
<1>5. RetiredBefore' /\ SessionsGoFirst'
  BY <1>1, <1>3 DEF Leftovers, RetiredBefore, SessionsGoFirst, With
<1> QED
  BY <1>4, <1>5 DEF Leftovers

LEMMA StepLeftovers == TypeOK /\ Leftovers /\ [Next]_vars => Leftovers'
BY StepsOfDeletions, AsideKeepsLeftovers, CreateSessionKeepsLeftovers,
   AccountDeleteKeepsLeftovers, DeleteSessionsKeepsLeftovers, DeleteUserKeepsLeftovers

\* No session that there was when the deletion of an account was asked for is left
\* once the account is gone, wherever earlier attempts stopped.
THEOREM SessionsOfDeletedAccounts == Spec => []SessionsGoFirst
<1>1. Init => Leftovers
  BY DEF Init, Leftovers, DeletionsOnTheirWay, RetiredBefore, SessionsGoFirst, At, Down
<1>2. Leftovers => SessionsGoFirst
  BY DEF Leftovers
<1> QED
  BY <1>1, <1>2, InitType, StepType, StepLeftovers, PTL DEF Spec
=============================================================================
