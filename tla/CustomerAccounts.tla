--------------------------- MODULE CustomerAccounts ---------------------------
(***************************************************************************)
(* Customer accounts, their sessions and the links mailed to them:         *)
(* AuthService over UserRepository and RefreshTokenRepository.  Nothing    *)
(* here runs in a transaction: a request checks what it read and then      *)
(* writes row after row, each write a step, with other requests and the    *)
(* death of the request in between.                                        *)
(*                                                                         *)
(* The access JWT is left out: nothing of it is stored.  A password is the *)
(* number of resets before it.  An expired link is refused like an unknown *)
(* one, so nothing is lost by letting links live on.  A mail failure only  *)
(* leaves a link nobody holds.  A Google account keeps its address.        *)
(***************************************************************************)
EXTENDS Integers

CONSTANTS
  UserIds,      \* bound: the user ids the database will hand out
  SessionIds,   \* bound: the refresh token rows it will hand out
  Links,        \* bound: the random link tokens drawn
  Emails,       \* addresses
  Workers,      \* bound: PHP requests in flight
  MaxPassword   \* bound: resets of one account

None == "none"    \* NULL, or an id not handed out yet

ASSUME NoneAssumption == None \notin Emails \cup UserIds \cup SessionIds \cup Links
ASSUME WorkersAssumption == Workers # {}
ASSUME MaxPasswordAssumption == MaxPassword \in Nat

Passwords == 0..MaxPassword
NoUser == [email |-> None, google |-> FALSE, verified |-> FALSE,
           verifyLink |-> None, resetLink |-> None, password |-> 0]
NoSession == [state |-> None, user |-> None, password |-> 0,
              from |-> None, late |-> FALSE]

Users ==
  {NoUser} \cup
  [email : Emails, google : BOOLEAN, verified : BOOLEAN,
   verifyLink : Links \cup {None}, resetLink : Links \cup {None},
   password : Passwords]

Sessions ==
  {NoSession} \cup
  [state : {"live", "ended"}, user : UserIds, password : Passwords,
   from : SessionIds \cup {None}, late : BOOLEAN]

Resets == [user : UserIds, link : Links, password : Passwords]

Idle == [at |-> "idle"]
Requests ==
  {Idle}
  \cup [at : {"register", "google"}, email : Emails]
  \cup [at : {"welcome", "resend", "verify", "forgot"}, user : UserIds]
  \cup [at : {"link"}, user : UserIds, password : Passwords]
  \cup [at : {"reset"}, user : UserIds, link : Links]
  \cup [at : {"clear", "revoke"}, user : UserIds, link : Links,
        password : Passwords]
  \cup [at : {"rotate"}, session : SessionIds]
  \cup [at : {"issue"}, user : UserIds, password : Passwords,
        from : SessionIds \cup {None}]

VARIABLES
  users,      \* users[u]: the row of users
  sessions,   \* sessions[s]: the row of refresh_tokens, live until it is
              \* revoked or expires.  History: the password it was opened
              \* under, the row it was exchanged for, and whether that
              \* password had been replaced before it was written
  req,        \* req[w]: what request w read and where it stands
  mailed,     \* history: the address each link went to
  proven,     \* history: addresses whose owner clicked a link or whom Google
              \* vouched for
  confirmed   \* history: the resets the customer was told succeeded

vars == <<users, sessions, req, mailed, proven, confirmed>>

TypeOK ==
  /\ users \in [UserIds -> Users]
  /\ sessions \in [SessionIds -> Sessions]
  /\ req \in [Workers -> Requests]
  /\ mailed \in [Links -> Emails \cup {None}]
  /\ proven \subseteq Emails
  /\ confirmed \subseteq Resets

Registered == {u \in UserIds : users[u].email \in Emails}

Init ==
  /\ users = [u \in UserIds |-> NoUser]
  /\ sessions = [s \in SessionIds |-> NoSession]
  /\ req = [w \in Workers |-> Idle]
  /\ mailed = [l \in Links |-> None]
  /\ proven = {}
  /\ confirmed = {}

--------------------------------------------------------------------------------
(* Shared steps *)

Goto(w, next) == req' = [req EXCEPT ![w] = next]
Done(w) == Goto(w, Idle)

Issue(u, password, from) ==
  [at |-> "issue", user |-> u, password |-> password, from |-> from]

(* issueTokenPair: the new row of refresh_tokens. *)
IssueTokenPair(w) ==
  LET u == req[w].user IN
  /\ req[w].at = "issue"
  /\ \E s \in SessionIds :
       /\ sessions[s] = NoSession
       /\ sessions' = [sessions EXCEPT ![s] =
            [state |-> "live", user |-> u, password |-> req[w].password,
             from |-> req[w].from,
             late |-> req[w].password < users[u].password]]
  /\ Done(w)
  /\ UNCHANGED <<users, mailed, proven, confirmed>>

(* refresh's catch block inserts the old hash again.  Its row, revoked, is *)
(* still there and uq_refresh_tokens_hash refuses a second one.            *)
Restore(s) == UNCHANGED sessions

(* issueTokenPair throws: the signing secret or the INSERT. *)
IssueFails(w) ==
  /\ req[w].at = "issue"
  /\ Restore(req[w].from)
  /\ Done(w)
  /\ UNCHANGED <<users, mailed, proven, confirmed>>

--------------------------------------------------------------------------------
(* Registration and sign-in *)

(* POST /api/auth/register up to the duplicate check. *)
Register(w, email) ==
  /\ req[w] = Idle
  /\ \A u \in UserIds : users[u].email # email
  /\ Goto(w, [at |-> "register", email |-> email])
  /\ UNCHANGED <<users, sessions, mailed, proven, confirmed>>

(* uq_users_email. *)
EmailFree(email) == \A u \in UserIds : users[u].email # email

(* Google vouches for the addresses of its accounts. *)
NewUser(email, google) ==
  [email |-> email, google |-> google, verified |-> google,
   verifyLink |-> None, resetLink |-> None, password |-> 0]

(* UserRepository::create; a duplicate address fails. *)
Create(w) ==
  LET email == req[w].email
      google == req[w].at = "google"
  IN
  /\ req[w].at \in {"register", "google"}
  /\ IF EmailFree(email)
       THEN \E u \in UserIds :
              /\ users[u] = NoUser
              /\ users' = [users EXCEPT ![u] = NewUser(email, google)]
              /\ IF google THEN Goto(w, Issue(u, 0, None))
                   ELSE Goto(w, [at |-> "welcome", user |-> u])
       ELSE Done(w) /\ UNCHANGED users
  /\ UNCHANGED <<sessions, mailed, proven, confirmed>>

(* POST /api/auth/login: the row is found and the password fits. *)
Login(w, u) ==
  /\ req[w] = Idle
  /\ u \in Registered
  /\ Goto(w, Issue(u, users[u].password, None))
  /\ UNCHANGED <<users, sessions, mailed, proven, confirmed>>

(* POST /api/auth/google: the account, the account to link, or none yet. *)
LoginWithGoogle(w, email) ==
  /\ req[w] = Idle
  /\ proven' = proven \cup {email}
  /\ \/ EmailFree(email) /\ Goto(w, [at |-> "google", email |-> email])
     \/ \E u \in Registered :
          /\ users[u].email = email
          /\ IF users[u].google
               THEN Goto(w, Issue(u, users[u].password, None))
               ELSE Goto(w, [at |-> "link", user |-> u,
                             password |-> users[u].password])
  /\ UNCHANGED <<users, sessions, mailed, confirmed>>

(* A linked account stays as verified as it was. *)
LinkGoogle(w) ==
  /\ req[w].at = "link"
  /\ users' = [users EXCEPT ![req[w].user].google = TRUE]
  /\ Goto(w, Issue(req[w].user, req[w].password, None))
  /\ UNCHANGED <<sessions, mailed, proven, confirmed>>

--------------------------------------------------------------------------------
(* Sessions *)

(* POST /api/auth/refresh: findActive. *)
Refresh(w, s) ==
  /\ req[w] = Idle
  /\ sessions[s].state = "live"
  /\ Goto(w, [at |-> "rotate", session |-> s])
  /\ UNCHANGED <<users, sessions, mailed, proven, confirmed>>

(* refresh revokes the row, whether or not another request already did. *)
Rotate(w) ==
  LET s == req[w].session IN
  /\ req[w].at = "rotate"
  /\ sessions' = [sessions EXCEPT ![s].state = "ended"]
  /\ Goto(w, Issue(sessions[s].user, sessions[s].password, s))
  /\ UNCHANGED <<users, mailed, proven, confirmed>>

(* POST /api/auth/logout, or expires_at passes. *)
Logout(s) ==
  /\ sessions[s].state = "live"
  /\ sessions' = [sessions EXCEPT ![s].state = "ended"]
  /\ UNCHANGED <<users, req, mailed, proven, confirmed>>

--------------------------------------------------------------------------------
(* Verifying the address *)

(* The link of a registration, or of a resend; with a registration's the   *)
(* new customer is signed in, link or no link.                             *)
AfterLink(w) ==
  IF req[w].at = "welcome" THEN Goto(w, Issue(req[w].user, 0, None)) ELSE Done(w)

(* POST /api/auth/resend-verification up to its check. *)
ResendVerification(w, u) ==
  /\ req[w] = Idle
  /\ u \in Registered
  /\ ~users[u].verified
  /\ Goto(w, [at |-> "resend", user |-> u])
  /\ UNCHANGED <<users, sessions, mailed, proven, confirmed>>

(* Mutant of SetEmailVerification: the token is not a new one every time. *)
SetEmailVerification_NotUnique(w) ==
  LET u == req[w].user IN
  /\ req[w].at \in {"welcome", "resend"}
  /\ \E l \in Links :
       /\ mailed' = [mailed EXCEPT ![l] = users[u].email]
       /\ users' = [users EXCEPT ![u].verifyLink = l]
  /\ AfterLink(w)
  /\ UNCHANGED <<sessions, proven, confirmed>>

(* setEmailVerification and the mail with the link. *)
SetEmailVerification(w) ==
  LET u == req[w].user IN
  /\ req[w].at \in {"welcome", "resend"}
  /\ \E l \in Links :
       /\ mailed[l] = None
       /\ mailed' = [mailed EXCEPT ![l] = users[u].email]
       /\ users' = [users EXCEPT ![u].verifyLink = l]
  /\ AfterLink(w)
  /\ UNCHANGED <<sessions, proven, confirmed>>

(* register catches whatever the link's step throws. *)
LinkFails(w) ==
  /\ req[w].at = "welcome"
  /\ AfterLink(w)
  /\ UNCHANGED <<users, sessions, mailed, proven, confirmed>>

(* GET /api/auth/verify-email up to the write: the owner of the address    *)
(* the link went to follows it.                                            *)
VerifyEmail(w, l) ==
  /\ req[w] = Idle
  /\ mailed[l] \in Emails
  /\ \E u \in UserIds :
       /\ users[u].verifyLink = l
       /\ Goto(w, [at |-> "verify", user |-> u])
  /\ proven' = proven \cup {mailed[l]}
  /\ UNCHANGED <<users, sessions, mailed, confirmed>>

MarkEmailVerified(w) ==
  /\ req[w].at = "verify"
  /\ users' = [users EXCEPT ![req[w].user].verified = TRUE,
                            ![req[w].user].verifyLink = None]
  /\ Done(w)
  /\ UNCHANGED <<sessions, mailed, proven, confirmed>>

--------------------------------------------------------------------------------
(* Resetting the password *)

(* POST /api/auth/forgot-password up to the write. *)
RequestPasswordReset(w, u) ==
  /\ req[w] = Idle
  /\ u \in Registered
  /\ Goto(w, [at |-> "forgot", user |-> u])
  /\ UNCHANGED <<users, sessions, mailed, proven, confirmed>>

(* setPasswordReset and the mail; an older link is overwritten. *)
SetPasswordReset(w) ==
  LET u == req[w].user IN
  /\ req[w].at = "forgot"
  /\ \E l \in Links :
       /\ mailed[l] = None
       /\ mailed' = [mailed EXCEPT ![l] = users[u].email]
       /\ users' = [users EXCEPT ![u].resetLink = l]
  /\ Done(w)
  /\ UNCHANGED <<sessions, proven, confirmed>>

(* Mutant of ResetPassword: the row found is not checked. *)
ResetPassword_NoRow(w, l) ==
  /\ req[w] = Idle
  /\ mailed[l] \in Emails
  /\ \E u \in UserIds \cup {None} :
       /\ u \in UserIds => users[u].resetLink = l
       /\ Goto(w, [at |-> "reset", user |-> u, link |-> l])
  /\ UNCHANGED <<users, sessions, mailed, proven, confirmed>>

(* POST /api/auth/reset-password up to its writes. *)
ResetPassword(w, l) ==
  /\ req[w] = Idle
  /\ mailed[l] \in Emails
  /\ \E u \in UserIds :
       /\ users[u].resetLink = l
       /\ Goto(w, [at |-> "reset", user |-> u, link |-> l])
  /\ UNCHANGED <<users, sessions, mailed, proven, confirmed>>

UpdatePasswordHash(w) ==
  LET u == req[w].user
      password == users[u].password + 1
  IN
  /\ req[w].at = "reset"
  /\ password <= MaxPassword
  /\ users' = [users EXCEPT ![u].password = password]
  /\ Goto(w, [at |-> "clear", user |-> u, link |-> req[w].link,
              password |-> password])
  /\ UNCHANGED <<sessions, mailed, proven, confirmed>>

ClearPasswordReset(w) ==
  /\ req[w].at = "clear"
  /\ users' = [users EXCEPT ![req[w].user].resetLink = None]
  /\ Goto(w, [req[w] EXCEPT !.at = "revoke"])
  /\ UNCHANGED <<sessions, mailed, proven, confirmed>>

(* Mutant of RevokeAllForUser: it is not called. *)
RevokeAllForUser_Not(w) ==
  LET u == req[w].user IN
  /\ req[w].at = "revoke"
  /\ confirmed' = confirmed \cup
       {[user |-> u, link |-> req[w].link, password |-> req[w].password]}
  /\ Done(w)
  /\ UNCHANGED <<users, sessions, mailed, proven>>

(* revokeAllForUser, and the customer is told the reset succeeded. *)
RevokeAllForUser(w) ==
  LET u == req[w].user IN
  /\ req[w].at = "revoke"
  /\ sessions' = [s \in SessionIds |->
       IF sessions[s].user = u THEN [sessions[s] EXCEPT !.state = "ended"]
                               ELSE sessions[s]]
  /\ confirmed' = confirmed \cup
       {[user |-> u, link |-> req[w].link, password |-> req[w].password]}
  /\ Done(w)
  /\ UNCHANGED <<users, mailed, proven>>

(* The PHP process or its connection is gone between two steps. *)
RequestDies(w) ==
  /\ req[w] # Idle
  /\ Done(w)
  /\ UNCHANGED <<users, sessions, mailed, proven, confirmed>>

Next ==
  \/ \E w \in Workers :
       \/ \E email \in Emails : Register(w, email) \/ LoginWithGoogle(w, email)
       \/ \E u \in UserIds :
            Login(w, u) \/ ResendVerification(w, u) \/ RequestPasswordReset(w, u)
       \/ \E s \in SessionIds : Refresh(w, s)
       \/ \E l \in Links : VerifyEmail(w, l) \/ ResetPassword(w, l)
       \/ Create(w) \/ LinkGoogle(w)
       \/ SetEmailVerification(w) \/ LinkFails(w) \/ MarkEmailVerified(w)
       \/ SetPasswordReset(w)
       \/ UpdatePasswordHash(w) \/ ClearPasswordReset(w) \/ RevokeAllForUser(w)
       \/ Rotate(w) \/ IssueTokenPair(w) \/ IssueFails(w)
       \/ RequestDies(w)
  \/ \E s \in SessionIds : Logout(s)

Spec == Init /\ [][Next]_vars

--------------------------------------------------------------------------------
(***************************************************************************)
(* No two accounts share an address, however many registrations and Google *)
(* sign-ins for it checked at once: sign-in finds an account by address.   *)
(***************************************************************************)
EmailsDistinct ==
  \A u, v \in Registered : users[u].email = users[v].email => u = v

(***************************************************************************)
(* A verified account's address was proved by its owner: by a link mailed  *)
(* to that very address, or by Google ("Unique so one token can never      *)
(* verify two accounts"; reviews are gated on it).                         *)
(***************************************************************************)
VerifiedByProof ==
  \A u \in Registered : users[u].verified => users[u].email \in proven

(***************************************************************************)
(* A confirmed reset ended every session opened under an older password,   *)
(* those of sign-ins and refreshes that ran while it did included          *)
(* ("Revokes every active refresh token").  Only a request that had        *)
(* checked the old password and wrote its row after the change escapes.    *)
(***************************************************************************)
ResetEndsSessions ==
  \A s \in SessionIds, c \in confirmed :
    /\ sessions[s].state = "live"
    /\ sessions[s].user = c.user
    /\ ~sessions[s].late
    => sessions[s].password >= c.password

(***************************************************************************)
(* The link of a confirmed reset is on no row any more, whatever was       *)
(* requested or reset at the same time: a reset that begins later is       *)
(* refused.                                                                *)
(***************************************************************************)
UsedLinkIsDead ==
  \A c \in confirmed, u \in UserIds : users[u].resetLink # c.link

(***************************************************************************)
(* One link resets one password once ("Completes a password reset with a   *)
(* one-time token").                                                       *)
(***************************************************************************)
LinkResetsOnce == \A c, d \in confirmed : c.link = d.link => c = d

(***************************************************************************)
(* Exchanging a session gives one session ("only the newly issued pair can *)
(* be used from now on, so a stolen token works at most once").            *)
(***************************************************************************)
ExchangedOnce ==
  \A s, t \in SessionIds :
    sessions[s].from = sessions[t].from /\ sessions[s].from # None => s = t

(***************************************************************************)
(* A refresh that cannot issue the new pair leaves the old session usable  *)
(* ("restore the old token so the client can retry instead of being locked *)
(* out").                                                                  *)
(***************************************************************************)
FailedRefreshRestores ==
  [][\A w \in Workers :
       IssueFails(w) /\ req[w].from # None
         => sessions'[req[w].from].state = "live"]_vars

--------------------------------------------------------------------------------
(* The inductive invariant *)

(* A link on a row went to the address of that row. *)
LinksSound ==
  \A u \in UserIds :
    /\ users[u].verifyLink # None => mailed[users[u].verifyLink] = users[u].email
    /\ users[u].resetLink # None => mailed[users[u].resetLink] = users[u].email

(* What a request read before its write and may rely on at the write. *)
RequestSound(r) ==
  /\ r.at = "google" => r.email \in proven
  /\ r.at \in {"welcome", "resend", "forgot", "link", "verify", "reset", "clear",
               "revoke"} => r.user \in Registered
  /\ r.at = "verify" => users[r.user].email \in proven
  /\ r.at \in {"reset", "clear", "revoke"} => mailed[r.link] = users[r.user].email
  /\ r.at \in {"clear", "revoke"} => r.password <= users[r.user].password
  /\ r.at = "revoke" => users[r.user].resetLink # r.link
  /\ r.at = "rotate" => sessions[r.session] # NoSession
RequestsSound == \A w \in Workers : RequestSound(req[w])

(* A confirmed reset changed the password, and its link is off the row. *)
ConfirmedSound ==
  \A c \in confirmed :
    /\ c.user \in Registered
    /\ mailed[c.link] = users[c.user].email
    /\ users[c.user].resetLink # c.link
    /\ c.password <= users[c.user].password

IInv ==
  /\ TypeOK
  /\ EmailsDistinct
  /\ VerifiedByProof
  /\ ResetEndsSessions
  /\ LinksSound
  /\ RequestsSound
  /\ ConfirmedSound

================================================================================
