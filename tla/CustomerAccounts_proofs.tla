----------------------- MODULE CustomerAccounts_proofs ------------------------
(* Proofs about CustomerAccounts, for any accounts, sessions and requests. *)
EXTENDS CustomerAccounts, TLAPS

LEMMA InitIInv == Init => IInv
  <1>1. SUFFICES ASSUME Init PROVE IInv
    OBVIOUS
  <1>2. TypeOK
    BY <1>1, MaxPasswordAssumption
    DEF Init, TypeOK, Users, Sessions, Requests, Resets
  <1>3. Registered = {}
    BY <1>1, NoneAssumption DEF Init, Registered, NoUser
  <1>4. LinksSound
    BY <1>1 DEF Init, LinksSound, NoUser
  <1>5. RequestsSound
    BY <1>1 DEF Init, RequestsSound, RequestSound, Idle
  <1> QED
    BY <1>1, <1>2, <1>3, <1>4, <1>5
    DEF Init, IInv, EmailsDistinct, VerifiedByProof, ResetEndsSessions,
        ConfirmedSound

(* A step that changes only where one request stands, and what is proven. *)
LEMMA OnlyRequest ==
  ASSUME IInv, NEW w \in Workers, NEW r \in Requests, RequestSound(r)',
         req' = [req EXCEPT ![w] = r],
         proven \subseteq proven', proven' \subseteq Emails,
         UNCHANGED <<users, sessions, mailed, confirmed>>
  PROVE  IInv'
  <1>1. TypeOK'
    BY DEF IInv, TypeOK
  <1>2. Registered' = Registered
    BY DEF Registered
  <1>3. RequestsSound'
    <2>1. SUFFICES ASSUME NEW x \in Workers PROVE RequestSound(req[x])'
      BY DEF RequestsSound
    <2>2. CASE x = w
      BY <2>2 DEF IInv, TypeOK
    <2>3. CASE x # w
      <3>1. RequestSound(req[x]) /\ req'[x] = req[x]
        BY <2>3 DEF IInv, TypeOK, RequestsSound
      <3> QED
        BY <1>2, <3>1 DEF RequestSound
    <2> QED
      BY <2>2, <2>3
  <1> QED
    BY <1>1, <1>2, <1>3
    DEF IInv, EmailsDistinct, VerifiedByProof, ResetEndsSessions, LinksSound,
        ConfirmedSound

(* What a step may do to the sessions without disturbing the rest. *)
LEMMA OnlySessions ==
  ASSUME IInv, NEW w \in Workers, NEW r \in Requests, RequestSound(r)',
         req' = req \/ req' = [req EXCEPT ![w] = r],
         sessions' \in [SessionIds -> Sessions],
         \A s \in SessionIds : sessions[s] # NoSession => sessions'[s] # NoSession,
         ResetEndsSessions',
         UNCHANGED <<users, mailed, proven, confirmed>>
  PROVE  IInv'
  <1>1. TypeOK'
    BY DEF IInv, TypeOK
  <1>2. Registered' = Registered
    BY DEF Registered
  <1>3. RequestsSound'
    <2>1. SUFFICES ASSUME NEW x \in Workers PROVE RequestSound(req[x])'
      BY DEF RequestsSound
    <2>2. CASE req'[x] = r
      BY <2>2
    <2>3. CASE req'[x] # r
      <3>1. RequestSound(req[x]) /\ req'[x] = req[x] /\ req[x] \in Requests
        BY <2>3 DEF IInv, TypeOK, RequestsSound
      <3>2. req[x].at = "rotate" => req[x].session \in SessionIds
        BY <3>1 DEF Requests, Idle
      <3> QED
        BY <1>2, <3>1, <3>2 DEF RequestSound
    <2> QED
      BY <2>2, <2>3
  <1> QED
    BY <1>1, <1>2, <1>3
    DEF IInv, EmailsDistinct, VerifiedByProof, LinksSound, ConfirmedSound

(* A step that rewrites the row of one registered account, keeping its     *)
(* address and not setting its password back.                              *)
LEMMA OnlyRow ==
  ASSUME IInv, NEW w \in Workers, NEW r \in Requests, RequestSound(r)',
         req' = [req EXCEPT ![w] = r],
         NEW u \in Registered, NEW row \in Users,
         users' = [users EXCEPT ![u] = row],
         row.email = users[u].email,
         row.password >= users[u].password,
         row.verified => users[u].email \in proven,
         mailed' \in [Links -> Emails \cup {None}],
         \A l \in Links : mailed[l] \in Emails => mailed'[l] = mailed[l],
         row.verifyLink # None => mailed'[row.verifyLink] = row.email,
         row.resetLink # None => mailed'[row.resetLink] = row.email,
         row.resetLink \in {users[u].resetLink, None}
           \/ mailed[row.resetLink] = None,
         UNCHANGED <<sessions, proven, confirmed>>
  PROVE  IInv'
  <1> USE DEF IInv
  <1>1. u \in UserIds /\ users \in [UserIds -> Users] /\ users[u].email \in Emails
    BY DEF TypeOK, Registered
  <1>2. TypeOK'
    BY <1>1 DEF TypeOK
  <1>3. \A v \in UserIds : /\ users'[v].email = users[v].email
                           /\ users'[v].password >= users[v].password
                           /\ v # u => users'[v] = users[v]
    BY <1>1 DEF Users, NoUser, Passwords
  <1>4. Registered' = Registered
    BY <1>3 DEF Registered
  <1>5. EmailsDistinct' /\ VerifiedByProof' /\ ResetEndsSessions'
    BY <1>1, <1>3, <1>4 DEF EmailsDistinct, VerifiedByProof, ResetEndsSessions
  <1>6. \A v \in UserIds :
          /\ users[v].verifyLink \in Links \cup {None}
          /\ users[v].resetLink \in Links \cup {None}
          /\ users[v].verifyLink # None \/ users[v].resetLink # None
               => users[v].email \in Emails
    BY <1>1 DEF Users, NoUser
  <1>7. LinksSound'
    BY <1>1, <1>3, <1>6 DEF LinksSound
  <1>8. ASSUME NEW l \in Links, NEW v \in Registered,
               mailed[l] = users[v].email, users[v].resetLink # l
        PROVE  users'[v].resetLink # l /\ mailed'[l] = users'[v].email
    BY <1>1, <1>3, <1>8, NoneAssumption DEF Registered
  <1>9. ConfirmedSound'
    <2>1. SUFFICES ASSUME NEW c \in confirmed
                   PROVE  /\ c.user \in Registered
                          /\ mailed'[c.link] = users'[c.user].email
                          /\ users'[c.user].resetLink # c.link
                          /\ c.password <= users'[c.user].password
      BY <1>4 DEF ConfirmedSound
    <2>2. c.link \in Links /\ c.password \in Passwords /\ c.user \in UserIds
      BY DEF TypeOK, Resets
    <2>3. /\ c.user \in Registered
          /\ mailed[c.link] = users[c.user].email
          /\ users[c.user].resetLink # c.link
          /\ c.password <= users[c.user].password
      BY DEF ConfirmedSound
    <2>4. users'[c.user].resetLink # c.link /\ mailed'[c.link] = users'[c.user].email
      BY <1>8, <2>2, <2>3
    <2>5. users[c.user].password \in Int /\ users'[c.user].password \in Int
      BY <1>1, <1>2, <2>2 DEF TypeOK, Users, NoUser, Passwords
    <2> QED
      BY <1>3, <2>2, <2>3, <2>4, <2>5 DEF Passwords
  <1>10. RequestsSound'
    <2>1. SUFFICES ASSUME NEW x \in Workers, x # w PROVE RequestSound(req[x])'
      BY DEF RequestsSound, TypeOK
    <2>2. req'[x] = req[x] /\ req[x] \in Requests /\ RequestSound(req[x])
      BY <2>1 DEF TypeOK, RequestsSound
    <2>3. CASE req[x].at \in {"reset", "clear", "revoke"}
      <3>1. req[x].link \in Links /\ req[x].user \in UserIds
            /\ (req[x].at \in {"clear", "revoke"} => req[x].password \in Passwords)
        BY <2>2, <2>3 DEF Requests, Idle
      <3>2. users[req[x].user].password \in Int /\ users'[req[x].user].password \in Int
        BY <1>1, <1>2, <3>1 DEF TypeOK, Users, NoUser, Passwords
      <3> DEFINE q == req[x]
      <3>3. q.user \in Registered /\ mailed[q.link] = users[q.user].email
        BY <2>2, <2>3 DEF RequestSound
      <3>4. mailed'[q.link] = users'[q.user].email
        BY <1>1, <1>3, <3>1, <3>3 DEF Registered
      <3>5. q.at = "revoke" => users'[q.user].resetLink # q.link
        BY <1>8, <2>2, <3>1, <3>3 DEF RequestSound
      <3>6. q.at \in {"clear", "revoke"} => q.password <= users'[q.user].password
        BY <1>3, <2>2, <3>1, <3>2 DEF RequestSound, Passwords
      <3> QED
        BY <1>4, <2>2, <2>3, <3>3, <3>4, <3>5, <3>6 DEF RequestSound
    <2>4. CASE req[x].at \notin {"reset", "clear", "revoke"}
      BY <1>3, <1>4, <2>2, <2>4 DEF RequestSound, Registered
    <2> QED
      BY <2>3, <2>4
  <1> QED
    BY <1>2, <1>5, <1>7, <1>9, <1>10

LEMMA IdleSound == Idle \in Requests /\ RequestSound(Idle) /\ RequestSound(Idle)'
  BY DEF Requests, RequestSound, Idle

(* A request asked to issue a session can rely on nothing but its types. *)
LEMMA IssueSound ==
  ASSUME NEW u \in UserIds, NEW password \in Passwords,
         NEW from \in SessionIds \cup {None}
  PROVE  /\ Issue(u, password, from) \in Requests
         /\ RequestSound(Issue(u, password, from))'
  BY DEF Requests, RequestSound, Issue

--------------------------------------------------------------------------------
(* Steps that write nothing *)

LEMMA CheckSteps ==
  ASSUME IInv, NEW w \in Workers,
         \/ \E email \in Emails : Register(w, email) \/ LoginWithGoogle(w, email)
         \/ \E u \in UserIds :
              Login(w, u) \/ ResendVerification(w, u) \/ RequestPasswordReset(w, u)
         \/ \E s \in SessionIds : Refresh(w, s)
         \/ \E l \in Links : VerifyEmail(w, l) \/ ResetPassword(w, l)
  PROVE  IInv'
  <1> USE DEF IInv, TypeOK, Goto
  <1>0. ASSUME NEW u \in Registered
        PROVE  users[u].password \in Passwords /\ u \in UserIds
    <2>1. u \in UserIds /\ users[u] \in Users /\ users[u].email \in Emails
      BY DEF Registered
    <2> QED
      BY <2>1, NoneAssumption DEF Users, NoUser
  <1>1. ASSUME NEW email \in Emails, Register(w, email) PROVE IInv'
    BY <1>1, OnlyRequest DEF Register, Requests, RequestSound
  <1>2. ASSUME NEW email \in Emails, LoginWithGoogle(w, email) PROVE IInv'
    <2>1. CASE Goto(w, [at |-> "google", email |-> email])
      <3>1. RequestSound([at |-> "google", email |-> email])'
        BY <1>2 DEF LoginWithGoogle, RequestSound
      <3> QED
        BY <1>2, <2>1, <3>1, OnlyRequest DEF LoginWithGoogle, Requests
    <2>2. ASSUME NEW u \in Registered, NEW password \in Passwords,
                 \/ Goto(w, Issue(u, password, None))
                 \/ Goto(w, [at |-> "link", user |-> u, password |-> password])
          PROVE  IInv'
      <3>1. CASE Goto(w, Issue(u, password, None))
        BY <1>0, <1>2, <3>1, IssueSound, OnlyRequest DEF LoginWithGoogle
      <3>2. CASE Goto(w, [at |-> "link", user |-> u, password |-> password])
        <4>1. RequestSound([at |-> "link", user |-> u, password |-> password])'
          BY <1>2 DEF LoginWithGoogle, RequestSound, Registered
        <4> QED
          BY <1>0, <1>2, <3>2, <4>1, OnlyRequest DEF LoginWithGoogle, Requests
      <3> QED
        BY <2>2, <3>1, <3>2
    <2> QED
      BY <1>0, <1>2, <2>1, <2>2 DEF LoginWithGoogle
  <1>3. ASSUME NEW u \in UserIds, Login(w, u) PROVE IInv'
    BY <1>0, <1>3, OnlyRequest DEF Login, Requests, RequestSound, Issue
  <1>4. ASSUME NEW u \in UserIds, ResendVerification(w, u) PROVE IInv'
    BY <1>4, OnlyRequest DEF ResendVerification, Requests, RequestSound, Registered
  <1>5. ASSUME NEW u \in UserIds, RequestPasswordReset(w, u) PROVE IInv'
    BY <1>5, OnlyRequest DEF RequestPasswordReset, Requests, RequestSound, Registered
  <1>6. ASSUME NEW s \in SessionIds, Refresh(w, s) PROVE IInv'
    <2>1. sessions[s] # NoSession
      BY <1>6 DEF Refresh, NoSession, None
    <2>2. RequestSound([at |-> "rotate", session |-> s])'
      BY <1>6, <2>1 DEF Refresh, RequestSound, NoSession
    <2> QED
      BY <1>6, <2>2, OnlyRequest DEF Refresh, Requests
  <1>7. ASSUME NEW l \in Links, VerifyEmail(w, l) PROVE IInv'
    <2>1. PICK u \in UserIds :
            /\ users[u].verifyLink = l
            /\ req' = [req EXCEPT ![w] = [at |-> "verify", user |-> u]]
      BY <1>7 DEF VerifyEmail
    <2>2. mailed[l] = users[u].email /\ u \in Registered
      BY <1>7, <2>1, NoneAssumption DEF VerifyEmail, LinksSound, Registered
    <2>3. RequestSound([at |-> "verify", user |-> u])'
      BY <1>7, <2>2 DEF VerifyEmail, RequestSound, Registered
    <2> QED
      BY <1>7, <2>1, <2>3, OnlyRequest DEF VerifyEmail, Requests
  <1>8. ASSUME NEW l \in Links, ResetPassword(w, l) PROVE IInv'
    <2>1. PICK u \in UserIds :
            /\ users[u].resetLink = l
            /\ req' = [req EXCEPT ![w] = [at |-> "reset", user |-> u, link |-> l]]
      BY <1>8 DEF ResetPassword
    <2>2. mailed[l] = users[u].email /\ u \in Registered
      BY <1>8, <2>1, NoneAssumption DEF ResetPassword, LinksSound, Registered
    <2>3. RequestSound([at |-> "reset", user |-> u, link |-> l])'
      BY <1>8, <2>2 DEF ResetPassword, RequestSound, Registered
    <2> QED
      BY <1>8, <2>1, <2>3, OnlyRequest DEF ResetPassword, Requests
  <1> QED
    BY <1>1, <1>2, <1>3, <1>4, <1>5, <1>6, <1>7, <1>8

--------------------------------------------------------------------------------
(* Steps that write a session *)

LEMMA SessionSteps ==
  ASSUME IInv, NEW w \in Workers,
         \/ IssueTokenPair(w) \/ IssueFails(w) \/ Rotate(w)
         \/ \E s \in SessionIds : Logout(s)
  PROVE  IInv'
  <1> USE DEF IInv, Goto, Done
  <1>1. CASE IssueTokenPair(w)
    <2> DEFINE u == req[w].user
    <2>1. /\ u \in UserIds /\ req[w].password \in Passwords
          /\ req[w].from \in SessionIds \cup {None}
      BY <1>1 DEF IssueTokenPair, TypeOK, Requests, Idle
    <2>2. PICK s \in SessionIds :
            /\ sessions[s] = NoSession
            /\ sessions' = [sessions EXCEPT ![s] =
                 [state |-> "live", user |-> u, password |-> req[w].password,
                  from |-> req[w].from,
                  late |-> req[w].password < users[u].password]]
      BY <1>1 DEF IssueTokenPair
    <2>3. sessions' \in [SessionIds -> Sessions]
      BY <2>1, <2>2 DEF TypeOK, Sessions
    <2>4. \A c \in confirmed : c.user = u /\ req[w].password >= users[u].password
                                 => req[w].password >= c.password
      BY <2>1 DEF ConfirmedSound, TypeOK, Resets, Users, NoUser, Passwords
    <2>5. users[u].password \in Int /\ req[w].password \in Int
      BY <2>1 DEF TypeOK, Users, NoUser, Passwords
    <2>6. ResetEndsSessions'
      <3>1. SUFFICES ASSUME NEW t \in SessionIds, NEW c \in confirmed,
                            sessions'[t].state = "live", sessions'[t].user = c.user,
                            ~sessions'[t].late
                     PROVE  sessions'[t].password >= c.password
        BY <1>1 DEF ResetEndsSessions, IssueTokenPair
      <3>2. CASE t = s
        <4>1. sessions'[s].late = (req[w].password < users[u].password)
              /\ sessions'[s].user = u /\ sessions'[s].password = req[w].password
          BY <2>2 DEF TypeOK
        <4>2. ~(req[w].password < users[u].password)
          BY <3>1, <3>2, <4>1
        <4>3. c.user = u /\ req[w].password >= users[u].password
          BY <2>5, <3>1, <3>2, <4>1, <4>2
        <4> QED
          BY <2>4, <3>2, <4>1, <4>3
      <3>3. CASE t # s
        BY <2>2, <3>1, <3>3 DEF ResetEndsSessions, TypeOK
      <3> QED
        BY <3>2, <3>3
    <2>7. \A t \in SessionIds : sessions[t] # NoSession => sessions'[t] # NoSession
      BY <2>2 DEF TypeOK
    <2> QED
      BY <1>1, <2>3, <2>6, <2>7, IdleSound, OnlySessions DEF IssueTokenPair
  <1>2. CASE IssueFails(w)
    BY <1>2, IdleSound, OnlyRequest DEF IssueFails, Restore, TypeOK
  <1>3. ASSUME NEW s \in SessionIds, sessions[s] # NoSession,
               sessions' = [sessions EXCEPT ![s].state = "ended"],
               UNCHANGED <<users, confirmed>>
        PROVE  /\ sessions' \in [SessionIds -> Sessions]
               /\ \A t \in SessionIds :
                    sessions[t] # NoSession => sessions'[t] # NoSession
               /\ ResetEndsSessions'
    <2>1. sessions \in [SessionIds -> Sessions]
      BY DEF TypeOK
    <2>2. sessions' \in [SessionIds -> Sessions]
      BY <1>3, <2>1 DEF Sessions
    <2>3. \A t \in SessionIds : sessions[t] # NoSession => sessions'[t] # NoSession
      BY <1>3, <2>1 DEF Sessions, NoSession, None
    <2>4. \A t \in SessionIds : sessions'[t].state = "live" => sessions'[t] = sessions[t]
      BY <1>3, <2>1 DEF Sessions, NoSession
    <2>5. ResetEndsSessions'
      BY <1>3, <2>4 DEF ResetEndsSessions
    <2> QED
      BY <2>2, <2>3, <2>5
  <1>4. CASE Rotate(w)
    <2> DEFINE s == req[w].session
    <2>1. s \in SessionIds /\ sessions[s] # NoSession
      BY <1>4 DEF Rotate, TypeOK, Requests, Idle, RequestsSound, RequestSound
    <2>2. sessions[s].user \in UserIds /\ sessions[s].password \in Passwords
      BY <2>1 DEF TypeOK, Sessions
    <2>3. PICK u \in UserIds, password \in Passwords :
            u = sessions[s].user /\ password = sessions[s].password
      BY <2>2
    <2>4. req' = [req EXCEPT ![w] = Issue(u, password, req[w].session)]
      BY <1>4, <2>3 DEF Rotate
    <2>6. PICK r \in Requests : r = Issue(u, password, req[w].session) /\ RequestSound(r)'
      BY <2>1, IssueSound
    <2>5. /\ sessions' \in [SessionIds -> Sessions]
          /\ \A t \in SessionIds : sessions[t] # NoSession => sessions'[t] # NoSession
          /\ ResetEndsSessions'
      BY <1>3, <1>4, <2>1 DEF Rotate
    <2> QED
      BY <1>4, <2>4, <2>5, <2>6, OnlySessions DEF Rotate
  <1>5. ASSUME NEW s \in SessionIds, Logout(s) PROVE IInv'
    <2>1. sessions[s] # NoSession
      BY <1>5 DEF Logout, NoSession, None
    <2>2. /\ sessions' \in [SessionIds -> Sessions]
          /\ \A t \in SessionIds : sessions[t] # NoSession => sessions'[t] # NoSession
          /\ ResetEndsSessions'
      BY <1>3, <1>5, <2>1 DEF Logout
    <2> QED
      BY <1>5, <2>2, IdleSound, OnlySessions DEF Logout
  <1> QED
    BY <1>1, <1>2, <1>4, <1>5

--------------------------------------------------------------------------------
(* Steps that write the row of one account *)

(* The types of a registered account's row. *)
LEMMA RowType ==
  ASSUME IInv, NEW u \in Registered
  PROVE  /\ u \in UserIds /\ users[u].email \in Emails
         /\ users[u] \in [email : Emails, google : BOOLEAN, verified : BOOLEAN,
                          verifyLink : Links \cup {None},
                          resetLink : Links \cup {None}, password : Passwords]
  <1>1. u \in UserIds /\ users[u] \in Users /\ users[u].email \in Emails
    BY DEF Registered, IInv, TypeOK
  <1> QED
    BY <1>1, NoneAssumption DEF Users, NoUser

LEMMA RowSteps ==
  ASSUME IInv, NEW w \in Workers,
         \/ LinkGoogle(w) \/ MarkEmailVerified(w) \/ SetEmailVerification(w)
         \/ SetPasswordReset(w) \/ UpdatePasswordHash(w) \/ ClearPasswordReset(w)
  PROVE  IInv'
  <1> DEFINE u == req[w].user
  <1>1. u \in Registered /\ RequestSound(req[w]) /\ req[w] \in Requests
    BY DEF LinkGoogle, MarkEmailVerified, SetEmailVerification, SetPasswordReset,
           UpdatePasswordHash, ClearPasswordReset, IInv, RequestsSound,
           RequestSound, TypeOK
  <1> PICK v \in Registered : v = u
    BY <1>1
  <1> DEFINE row == users[v]
  <1>2. /\ v \in UserIds /\ row.email \in Emails
        /\ row \in [email : Emails, google : BOOLEAN, verified : BOOLEAN,
                    verifyLink : Links \cup {None},
                    resetLink : Links \cup {None}, password : Passwords]
    BY RowType
  <1>3. /\ row.verified => row.email \in proven
        /\ row.verifyLink # None => mailed[row.verifyLink] = row.email
        /\ row.resetLink # None => mailed[row.resetLink] = row.email
        /\ mailed \in [Links -> Emails \cup {None}]
        /\ row.password \in Int
    BY <1>2 DEF IInv, VerifiedByProof, LinksSound, TypeOK, Passwords
  <1> USE DEF Goto, Done
  <1>4. CASE LinkGoogle(w)
    <2>1. PICK new \in Users : new = [row EXCEPT !.google = TRUE]
      BY <1>2 DEF Users
    <2>2. users' = [users EXCEPT ![v] = new]
      BY <1>4, <2>1 DEF LinkGoogle
    <2>3. PICK password \in Passwords : password = req[w].password
      BY <1>1, <1>4 DEF LinkGoogle, Requests, Idle
    <2>4. PICK r \in Requests : r = Issue(v, password, None) /\ RequestSound(r)'
      BY <1>2, IssueSound
    <2>5. req' = [req EXCEPT ![w] = r]
      BY <1>4, <2>3, <2>4 DEF LinkGoogle
    <2>9. /\ new.email = users[v].email
          /\ new.password >= users[v].password
          /\ new.verified => users[v].email \in proven
          /\ mailed' \in [Links -> Emails \cup {None}]
          /\ \A k \in Links : mailed[k] \in Emails => mailed'[k] = mailed[k]
          /\ new.verifyLink # None => mailed'[new.verifyLink] = new.email
          /\ new.resetLink # None => mailed'[new.resetLink] = new.email
          /\ new.resetLink \in {users[v].resetLink, None}
               \/ mailed[new.resetLink] = None
      BY <1>2, <1>3, <1>4, <2>1 DEF LinkGoogle
    <2> QED
      BY <1>4, <2>2, <2>4, <2>5, <2>9, OnlyRow DEF LinkGoogle
  <1>5. CASE MarkEmailVerified(w)
    <2>1. PICK new \in Users : new = [row EXCEPT !.verified = TRUE, !.verifyLink = None]
      BY <1>2 DEF Users
    <2>2. users' = [users EXCEPT ![v] = new]
      BY <1>2, <1>5, <2>1 DEF MarkEmailVerified, IInv, TypeOK
    <2>3. row.email \in proven
      BY <1>1, <1>5 DEF MarkEmailVerified, RequestSound
    <2>9. /\ new.email = users[v].email
          /\ new.password >= users[v].password
          /\ new.verified => users[v].email \in proven
          /\ mailed' \in [Links -> Emails \cup {None}]
          /\ \A k \in Links : mailed[k] \in Emails => mailed'[k] = mailed[k]
          /\ new.verifyLink # None => mailed'[new.verifyLink] = new.email
          /\ new.resetLink # None => mailed'[new.resetLink] = new.email
          /\ new.resetLink \in {users[v].resetLink, None}
               \/ mailed[new.resetLink] = None
      BY <1>2, <1>3, <1>5, <2>1, <2>3 DEF MarkEmailVerified
    <2> QED
      BY <1>5, <2>2, <2>9, IdleSound, OnlyRow DEF MarkEmailVerified
  <1>6. ASSUME NEW l \in Links, mailed[l] = None,
               mailed' = [mailed EXCEPT ![l] = users[v].email]
        PROVE  /\ mailed' \in [Links -> Emails \cup {None}]
               /\ mailed'[l] = row.email
               /\ \A k \in Links : mailed[k] \in Emails => mailed'[k] = mailed[k]
               /\ row.verifyLink # None => mailed'[row.verifyLink] = row.email
               /\ row.resetLink # None => mailed'[row.resetLink] = row.email
    <2>1. /\ mailed' \in [Links -> Emails \cup {None}]
          /\ mailed'[l] = row.email
          /\ \A k \in Links : mailed[k] \in Emails => mailed'[k] = mailed[k]
      BY <1>2, <1>3, <1>6, NoneAssumption
    <2> QED
      BY <1>2, <1>3, <2>1
  <1>7. CASE SetEmailVerification(w)
    <2>1. PICK l \in Links :
            /\ mailed[l] = None
            /\ mailed' = [mailed EXCEPT ![l] = users[v].email]
            /\ users' = [users EXCEPT ![v].verifyLink = l]
      BY <1>7 DEF SetEmailVerification
    <2>2. PICK new \in Users : new = [row EXCEPT !.verifyLink = l]
      BY <1>2 DEF Users
    <2>3. users' = [users EXCEPT ![v] = new]
      BY <2>1, <2>2
    <2>4. PICK r \in Requests : req' = [req EXCEPT ![w] = r] /\ RequestSound(r)'
      <3>1. CASE req[w].at = "welcome"
        BY <1>2, <1>7, <3>1, IssueSound, MaxPasswordAssumption
        DEF SetEmailVerification, AfterLink, Passwords
      <3>2. CASE req[w].at # "welcome"
        BY <1>7, <3>2, IdleSound DEF SetEmailVerification, AfterLink
      <3> QED
        BY <3>1, <3>2
    <2>9. /\ new.email = users[v].email
          /\ new.password >= users[v].password
          /\ new.verified => users[v].email \in proven
          /\ mailed' \in [Links -> Emails \cup {None}]
          /\ \A k \in Links : mailed[k] \in Emails => mailed'[k] = mailed[k]
          /\ new.verifyLink # None => mailed'[new.verifyLink] = new.email
          /\ new.resetLink # None => mailed'[new.resetLink] = new.email
          /\ new.resetLink \in {users[v].resetLink, None}
               \/ mailed[new.resetLink] = None
      <3>1. /\ mailed' \in [Links -> Emails \cup {None}]
            /\ mailed'[l] = row.email
            /\ \A k \in Links : mailed[k] \in Emails => mailed'[k] = mailed[k]
            /\ row.verifyLink # None => mailed'[row.verifyLink] = row.email
            /\ row.resetLink # None => mailed'[row.resetLink] = row.email
        BY <1>6, <2>1
      <3>2. /\ new.email = row.email /\ new.password = row.password
            /\ new.verified = row.verified /\ new.verifyLink = l
            /\ new.resetLink = row.resetLink
        BY <1>2, <2>2
      <3> QED
        BY <1>3, <2>1, <3>1, <3>2
    <2> QED
      BY <1>7, <2>3, <2>4, <2>9, OnlyRow DEF SetEmailVerification
  <1>8. CASE SetPasswordReset(w)
    <2>1. PICK l \in Links :
            /\ mailed[l] = None
            /\ mailed' = [mailed EXCEPT ![l] = users[v].email]
            /\ users' = [users EXCEPT ![v].resetLink = l]
      BY <1>8 DEF SetPasswordReset
    <2>2. PICK new \in Users : new = [row EXCEPT !.resetLink = l]
      BY <1>2 DEF Users
    <2>3. users' = [users EXCEPT ![v] = new]
      BY <2>1, <2>2
    <2>9. /\ new.email = users[v].email
          /\ new.password >= users[v].password
          /\ new.verified => users[v].email \in proven
          /\ mailed' \in [Links -> Emails \cup {None}]
          /\ \A k \in Links : mailed[k] \in Emails => mailed'[k] = mailed[k]
          /\ new.verifyLink # None => mailed'[new.verifyLink] = new.email
          /\ new.resetLink # None => mailed'[new.resetLink] = new.email
          /\ new.resetLink \in {users[v].resetLink, None}
               \/ mailed[new.resetLink] = None
      <3>1. /\ mailed' \in [Links -> Emails \cup {None}]
            /\ mailed'[l] = row.email
            /\ \A k \in Links : mailed[k] \in Emails => mailed'[k] = mailed[k]
            /\ row.verifyLink # None => mailed'[row.verifyLink] = row.email
            /\ row.resetLink # None => mailed'[row.resetLink] = row.email
        BY <1>6, <2>1
      <3>2. /\ new.email = row.email /\ new.password = row.password
            /\ new.verified = row.verified /\ new.resetLink = l
            /\ new.verifyLink = row.verifyLink
        BY <1>2, <2>2
      <3> QED
        BY <1>3, <2>1, <3>1, <3>2
    <2> QED
      BY <1>8, <2>3, <2>9, IdleSound, OnlyRow DEF SetPasswordReset
  <1>9. CASE UpdatePasswordHash(w)
    <2>1. PICK password \in Passwords : password = users[v].password + 1
      BY <1>2, <1>9 DEF UpdatePasswordHash, Passwords
    <2>2. PICK new \in Users : new = [row EXCEPT !.password = password]
      BY <1>2 DEF Users
    <2>3. users' = [users EXCEPT ![v] = new]
      BY <1>9, <2>1, <2>2 DEF UpdatePasswordHash
    <2>4. PICK l \in Links : l = req[w].link /\ mailed[l] = row.email
      BY <1>1, <1>9 DEF UpdatePasswordHash, RequestSound, Requests, Idle
    <2>5. PICK r \in Requests :
            r = [at |-> "clear", user |-> v, link |-> l, password |-> password]
      BY <1>2 DEF Requests
    <2>6. RequestSound(r)'
      <3>1. users'[v] = new /\ mailed' = mailed /\ new.email = row.email
        BY <1>2, <1>9, <2>2, <2>3 DEF UpdatePasswordHash, IInv, TypeOK
      <3>2. v \in Registered'
        BY <1>2, <3>1 DEF Registered
      <3> QED
        BY <1>2, <2>2, <2>4, <2>5, <3>1, <3>2 DEF RequestSound, Passwords
    <2>7. req' = [req EXCEPT ![w] = r]
      BY <1>9, <2>1, <2>4, <2>5 DEF UpdatePasswordHash
    <2>9. /\ new.email = users[v].email
          /\ new.password >= users[v].password
          /\ new.verified => users[v].email \in proven
          /\ mailed' \in [Links -> Emails \cup {None}]
          /\ \A k \in Links : mailed[k] \in Emails => mailed'[k] = mailed[k]
          /\ new.verifyLink # None => mailed'[new.verifyLink] = new.email
          /\ new.resetLink # None => mailed'[new.resetLink] = new.email
          /\ new.resetLink \in {users[v].resetLink, None}
               \/ mailed[new.resetLink] = None
      BY <1>2, <1>3, <1>9, <2>1, <2>2 DEF UpdatePasswordHash
    <2> QED
      BY <1>9, <2>3, <2>6, <2>7, <2>9, OnlyRow DEF UpdatePasswordHash
  <1>10. CASE ClearPasswordReset(w)
    <2>1. PICK new \in Users : new = [row EXCEPT !.resetLink = None]
      BY <1>2 DEF Users
    <2>2. users' = [users EXCEPT ![v] = new]
      BY <1>10, <2>1 DEF ClearPasswordReset
    <2>3. /\ req[w] \in [at : {"clear"}, user : UserIds, link : Links,
                         password : Passwords]
          /\ mailed[req[w].link] = row.email
          /\ req[w].password <= row.password
      BY <1>1, <1>10 DEF ClearPasswordReset, RequestSound, Requests, Idle
    <2>4. PICK r \in Requests : r = [req[w] EXCEPT !.at = "revoke"]
      BY <2>3 DEF Requests
    <2>5. RequestSound(r)'
      <3>1. users'[v] = new /\ mailed' = mailed /\ new.email = row.email
            /\ new.password = row.password /\ new.resetLink = None
        BY <1>2, <1>10, <2>1, <2>2 DEF ClearPasswordReset, IInv, TypeOK
      <3>2. v \in Registered'
        BY <1>2, <3>1 DEF Registered
      <3>3. r.at = "revoke" /\ r.user = v /\ r.link = req[w].link
            /\ r.password = req[w].password
        BY <2>3, <2>4
      <3> QED
        BY <2>3, <3>1, <3>2, <3>3, NoneAssumption DEF RequestSound
    <2>6. req' = [req EXCEPT ![w] = r]
      BY <1>10, <2>4 DEF ClearPasswordReset
    <2>9. /\ new.email = users[v].email
          /\ new.password >= users[v].password
          /\ new.verified => users[v].email \in proven
          /\ mailed' \in [Links -> Emails \cup {None}]
          /\ \A k \in Links : mailed[k] \in Emails => mailed'[k] = mailed[k]
          /\ new.verifyLink # None => mailed'[new.verifyLink] = new.email
          /\ new.resetLink # None => mailed'[new.resetLink] = new.email
          /\ new.resetLink \in {users[v].resetLink, None}
               \/ mailed[new.resetLink] = None
      BY <1>2, <1>3, <1>10, <2>1 DEF ClearPasswordReset
    <2> QED
      BY <1>10, <2>2, <2>5, <2>6, <2>9, OnlyRow DEF ClearPasswordReset
  <1> QED
    BY <1>4, <1>5, <1>7, <1>8, <1>9, <1>10

--------------------------------------------------------------------------------
(* A new account, and the end of a reset *)

LEMMA CreateStep ==
  ASSUME IInv, NEW w \in Workers, Create(w)
  PROVE  IInv'
  <1> DEFINE email == req[w].email
             google == req[w].at = "google"
  <1> USE DEF Goto, Done
  <1>1. email \in Emails /\ (google => email \in proven)
    BY DEF Create, IInv, TypeOK, Requests, Idle, RequestsSound, RequestSound
  <1>2. CASE ~EmailFree(email)
    BY <1>2, IdleSound, OnlyRequest DEF Create, IInv, TypeOK
  <1>3. CASE EmailFree(email)
    <2>1. PICK u \in UserIds :
            /\ users[u] = NoUser
            /\ users' = [users EXCEPT ![u] = NewUser(email, google)]
            /\ IF google THEN req' = [req EXCEPT ![w] = Issue(u, 0, None)]
                 ELSE req' = [req EXCEPT ![w] = [at |-> "welcome", user |-> u]]
      BY <1>3 DEF Create
    <2>2. PICK new \in Users :
            /\ new = NewUser(email, google)
            /\ new.email = email /\ new.password = 0 /\ new.verified = google
            /\ new.verifyLink = None /\ new.resetLink = None
      <3>1. PICK g \in BOOLEAN : g = google
        OBVIOUS
      <3>2. NewUser(email, g) \in Users
        BY <1>1, MaxPasswordAssumption DEF NewUser, Users, Passwords
      <3> QED
        BY <3>1, <3>2 DEF NewUser
    <2>3. users \in [UserIds -> Users] /\ users' = [users EXCEPT ![u] = new]
      BY <2>1, <2>2 DEF IInv, TypeOK
    <2>4. UNCHANGED <<sessions, mailed, proven, confirmed>>
      BY DEF Create
    <2>5. Registered' = Registered \cup {u} /\ u \notin Registered
      BY <1>1, <2>1, <2>2, <2>3, NoneAssumption DEF Registered, NoUser
    <2>6. \A v \in Registered : users'[v] = users[v]
      BY <2>3, <2>5 DEF Registered
    <2>8. PICK r \in Requests : req' = [req EXCEPT ![w] = r] /\ RequestSound(r)'
      <3>1. CASE google
        <4>1. 0 \in Passwords /\ None \in SessionIds \cup {None}
          BY MaxPasswordAssumption DEF Passwords
        <4>2. Issue(u, 0, None) \in Requests /\ RequestSound(Issue(u, 0, None))'
          BY <4>1, IssueSound
        <4> QED
          BY <2>1, <3>1, <4>2
      <3>2. CASE ~google
        <4>1. RequestSound([at |-> "welcome", user |-> u])'
          BY <2>5 DEF RequestSound
        <4> QED
          BY <2>1, <3>2, <4>1 DEF Requests
      <3> QED
        BY <3>1, <3>2
    <2>9. TypeOK'
      BY <2>3, <2>4, <2>8 DEF IInv, TypeOK
    <2>10. EmailsDistinct'
      BY <1>3, <2>2, <2>3, <2>5, <2>6
      DEF IInv, EmailsDistinct, EmailFree, Registered
    <2>11. VerifiedByProof'
      <3>1. SUFFICES ASSUME NEW v \in Registered', users'[v].verified
                     PROVE  users'[v].email \in proven
        BY <2>4 DEF VerifiedByProof
      <3>2. CASE v = u
        <4>1. users'[v] = new
          BY <2>3, <3>2
        <4> QED
          BY <1>1, <2>2, <3>1, <4>1
      <3>3. CASE v # u
        BY <2>5, <2>6, <3>1, <3>3 DEF IInv, VerifiedByProof
      <3> QED
        BY <3>2, <3>3
    <2>12. ResetEndsSessions'
      BY <2>4 DEF IInv, ResetEndsSessions
    <2>13. LinksSound'
      BY <2>2, <2>3, <2>4 DEF IInv, LinksSound
    <2>14. ConfirmedSound'
      BY <2>4, <2>5, <2>6 DEF IInv, ConfirmedSound
    <2>15. RequestsSound'
      <3>1. SUFFICES ASSUME NEW x \in Workers, x # w PROVE RequestSound(req[x])'
        BY <2>8 DEF RequestsSound, IInv, TypeOK
      <3>2. req'[x] = req[x] /\ RequestSound(req[x])
        BY <2>8, <3>1 DEF IInv, TypeOK, RequestsSound
      <3> QED
        BY <2>4, <2>5, <2>6, <3>2 DEF RequestSound
    <2> QED
      BY <2>9, <2>10, <2>11, <2>12, <2>13, <2>14, <2>15 DEF IInv
  <1> QED
    BY <1>2, <1>3

LEMMA RevokeStep ==
  ASSUME IInv, NEW w \in Workers, RevokeAllForUser(w)
  PROVE  IInv'
  <1> USE DEF Goto, Done
  <1>1. PICK c \in Resets : c = [user |-> req[w].user, link |-> req[w].link,
                                 password |-> req[w].password]
    <2>1. req[w] \in [at : {"revoke"}, user : UserIds, link : Links,
                     password : Passwords]
      BY DEF RevokeAllForUser, IInv, TypeOK, Requests, Idle
    <2> QED
      BY <2>1 DEF Resets
  <1>2. /\ c.user \in Registered /\ mailed[c.link] = users[c.user].email
        /\ users[c.user].resetLink # c.link
        /\ c.password <= users[c.user].password
    BY <1>1 DEF RevokeAllForUser, IInv, RequestsSound, RequestSound
  <1>3. confirmed' = confirmed \cup {c}
        /\ UNCHANGED <<users, mailed, proven>>
        /\ sessions' = [s \in SessionIds |->
             IF sessions[s].user = c.user THEN [sessions[s] EXCEPT !.state = "ended"]
                                          ELSE sessions[s]]
    BY <1>1 DEF RevokeAllForUser
  <1>4. Registered' = Registered
    BY <1>3 DEF Registered
  <1>5. \A s \in SessionIds :
          /\ sessions[s].user = c.user => sessions'[s].state = "ended"
          /\ sessions[s].user # c.user => sessions'[s] = sessions[s]
          /\ sessions'[s] \in Sessions
          /\ sessions[s] # NoSession => sessions'[s] # NoSession
    <2>1. TAKE s \in SessionIds
    <2>2. sessions[s] \in Sessions
      BY DEF IInv, TypeOK
    <2>3. CASE sessions[s].user = c.user
      <3>1. sessions[s] # NoSession
        BY <1>2, <2>3, NoneAssumption DEF NoSession, Registered
      <3>2. sessions'[s] = [sessions[s] EXCEPT !.state = "ended"]
        BY <1>3, <2>3
      <3>3. sessions'[s] \in Sessions /\ sessions'[s].state = "ended"
        BY <2>2, <3>1, <3>2 DEF Sessions
      <3> QED
        BY <2>3, <3>3 DEF NoSession, None
    <2>4. CASE sessions[s].user # c.user
      BY <1>3, <2>2, <2>4
    <2> QED
      BY <2>3, <2>4
  <1>6. TypeOK'
    BY <1>1, <1>3, <1>5, IdleSound DEF RevokeAllForUser, IInv, TypeOK
  <1>7. ResetEndsSessions'
    BY <1>3, <1>5 DEF IInv, ResetEndsSessions
  <1>8. ConfirmedSound'
    BY <1>2, <1>3, <1>4 DEF IInv, ConfirmedSound
  <1>9. RequestsSound'
    <2>1. SUFFICES ASSUME NEW x \in Workers, x # w PROVE RequestSound(req[x])'
      BY IdleSound DEF RequestsSound, RevokeAllForUser, IInv, TypeOK
    <2>2. req'[x] = req[x] /\ RequestSound(req[x]) /\ req[x] \in Requests
      BY <2>1 DEF RevokeAllForUser, IInv, TypeOK, RequestsSound
    <2>3. req[x].at = "rotate" => req[x].session \in SessionIds
      BY <2>2 DEF Requests, Idle
    <2> QED
      BY <1>3, <1>4, <1>5, <2>2, <2>3 DEF RequestSound
  <1> QED
    BY <1>3, <1>4, <1>6, <1>7, <1>8, <1>9
    DEF IInv, EmailsDistinct, VerifiedByProof, LinksSound

--------------------------------------------------------------------------------
LEMMA NextIInv == IInv /\ [Next]_vars => IInv'
  <1> SUFFICES ASSUME IInv, [Next]_vars PROVE IInv'
    OBVIOUS
  <1>1. ASSUME NEW w \in Workers, LinkFails(w) PROVE IInv'
    <2>1. PICK u \in UserIds : u = req[w].user
      BY <1>1 DEF LinkFails, IInv, TypeOK, Requests, Idle
    <2>2. PICK r \in Requests : r = Issue(u, 0, None) /\ RequestSound(r)'
      BY MaxPasswordAssumption, IssueSound DEF Passwords
    <2> QED
      BY <1>1, <2>1, <2>2, OnlyRequest DEF LinkFails, AfterLink, Goto, IInv, TypeOK
  <1>2. ASSUME NEW w \in Workers, RequestDies(w) PROVE IInv'
    BY <1>2, IdleSound, OnlyRequest DEF RequestDies, Done, Goto, IInv, TypeOK
  <1>3. CASE UNCHANGED vars
    <2>1. Registered' = Registered
      BY <1>3 DEF vars, Registered
    <2> QED
      BY <1>3, <2>1
      DEF vars, IInv, TypeOK, EmailsDistinct, VerifiedByProof, ResetEndsSessions,
          LinksSound, RequestsSound, RequestSound, ConfirmedSound
  <1>4. ASSUME NEW s \in SessionIds, Logout(s) PROVE IInv'
    BY <1>4, WorkersAssumption, SessionSteps
  <1> QED
    BY <1>1, <1>2, <1>3, <1>4, CheckSteps, SessionSteps, RowSteps, CreateStep,
       RevokeStep
    DEF Next

(* The inductive invariant: besides the promises, what each request may    *)
(* still rely on when it writes, and where every live link was mailed.     *)
THEOREM Invariance == Spec => []IInv
  BY InitIInv, NextIInv, PTL DEF Spec

(* However many registrations and Google sign-ins race, the unique key     *)
(* leaves one account per address.                                         *)
THEOREM AddressesDiffer == Spec => []EmailsDistinct
  <1>1. IInv => EmailsDistinct
    BY DEF IInv
  <1> QED
    BY <1>1, Invariance, PTL

(* No interleaving of links, resends and sign-ins verifies an address its  *)
(* owner did not prove.                                                    *)
THEOREM VerifiedIsProved == Spec => []VerifiedByProof
  <1>1. IInv => VerifiedByProof
    BY DEF IInv
  <1> QED
    BY <1>1, Invariance, PTL

(* A confirmed reset ends the older sessions. *)
THEOREM ResetSignsOut == Spec => []ResetEndsSessions
  <1>1. IInv => ResetEndsSessions
    BY DEF IInv
  <1> QED
    BY <1>1, Invariance, PTL

(* The link of a confirmed reset is on no row: it went to one address, and *)
(* only that address's account could hold it.                              *)
THEOREM ConfirmedLinkDead == Spec => []UsedLinkIsDead
  <1>1. ASSUME IInv PROVE UsedLinkIsDead
    <2>1. SUFFICES ASSUME NEW c \in confirmed, NEW u \in UserIds,
                          users[u].resetLink = c.link
                   PROVE  FALSE
      BY DEF UsedLinkIsDead
    <2>2. /\ c.link \in Links /\ c.user \in Registered
          /\ mailed[c.link] = users[c.user].email
          /\ users[c.user].resetLink # c.link
      BY <1>1 DEF IInv, TypeOK, Resets, ConfirmedSound
    <2>3. mailed[c.link] = users[u].email
      BY <1>1, <2>1, <2>2, NoneAssumption DEF IInv, LinksSound
    <2>4. u \in Registered /\ u = c.user
      BY <1>1, <2>2, <2>3 DEF IInv, EmailsDistinct, Registered
    <2> QED
      BY <2>1, <2>2, <2>4
  <1> QED
    BY <1>1, Invariance, PTL

================================================================================
