---------------------------- MODULE AdminAccounts -----------------------------
(***************************************************************************)
(* Staff accounts and their sessions: AccountsController, AdminAuthService,*)
(* AdminRepository and the session check of AuthMiddleware.  Every admin   *)
(* may create, edit and delete every other, so two of them may delete each *)
(* other at the same time.                                                 *)
(*                                                                         *)
(* A request passes the middleware and makes its checks on plain reads;    *)
(* what it writes is a second step.  A transaction is one step.  Passwords *)
(* are left out: only a password change matters, since it ends sessions.   *)
(***************************************************************************)
EXTENDS Integers, FiniteSets

CONSTANTS
  AdminIds,    \* bound: the admin ids the database will hand out
  SessionIds,  \* bound: the session ids the database will hand out
  Emails,      \* addresses
  Workers      \* bound: PHP requests in flight

Unused == "unused"    \* an id not handed out yet; AUTO_INCREMENT never repeats
Deleted == "deleted"
Keep == "keep"        \* the field is absent from the request body

ASSUME AdminIdsAssumption == IsFiniteSet(AdminIds)
ASSUME EmailsAssumption == {Unused, Deleted, Keep} \cap Emails = {}

Idle == [at |-> "idle"]
Requests ==
  {Idle}
  \cup [at : {"session"}, admin : AdminIds]
  \cup [at : {"delete"}, actor : AdminIds, target : AdminIds]
  \cup [at : {"update"}, target : AdminIds, email : Emails \cup {Keep},
        password : BOOLEAN]
  \cup [at : {"create"}, email : Emails]

VARIABLES
  admins,    \* admins[a]: the email of admin a, Unused or Deleted
  sessions,  \* sessions[s]: the row of admin_refresh_tokens, its owner and
             \* whether it is live (neither revoked nor expired)
  req        \* req[w]: what request w read and where it stands

vars == <<admins, sessions, req>>

NoSession == [state |-> Unused, admin |-> Unused]

TypeOK ==
  /\ admins \in [AdminIds -> Emails \cup {Unused, Deleted}]
  /\ sessions \in [SessionIds -> {NoSession} \cup
       [state : {"live", "ended", Deleted}, admin : AdminIds]]
  /\ req \in [Workers -> Requests]

Present == {a \in AdminIds : admins[a] \in Emails}

(* create-admin.php seeded the first account. *)
Init ==
  /\ \E first \in AdminIds, email \in Emails :
       admins = [a \in AdminIds |-> IF a = first THEN email ELSE Unused]
  /\ sessions = [s \in SessionIds |-> NoSession]
  /\ req = [w \in Workers |-> Idle]

--------------------------------------------------------------------------------
(* The admin rows *)

(* uq_admins_email: no other row has the address. *)
EmailFree(email, a) == \A b \in AdminIds \ {a} : admins[b] # email

(* emailExists, a plain read before the write. *)
EmailExists(email, a) == \E b \in AdminIds \ {a} : admins[b] = email

(* AuthMiddleware('admin'): the session row is live and its admin exists. *)
SignedIn(s) == sessions[s].state = "live" /\ sessions[s].admin \in Present

(* ON DELETE CASCADE of admin_refresh_tokens. *)
Cascade(a) ==
  sessions' = [s \in SessionIds |->
    IF sessions[s].admin = a THEN [sessions[s] EXCEPT !.state = Deleted]
                             ELSE sessions[s]]

RevokeSessions(a) ==
  sessions' = [s \in SessionIds |->
    IF sessions[s].admin = a /\ sessions[s].state = "live"
      THEN [sessions[s] EXCEPT !.state = "ended"]
      ELSE sessions[s]]

Done(w) == req' = [req EXCEPT ![w] = Idle]

--------------------------------------------------------------------------------
(* Signing in *)

(* AdminAuthService::login: the row is found and the password fits. *)
Login(w, a) ==
  /\ req[w] = Idle
  /\ a \in Present
  /\ req' = [req EXCEPT ![w] = [at |-> "session", admin |-> a]]
  /\ UNCHANGED <<admins, sessions>>

(* Mutant of IssueTokenPair: the session row has no foreign key. *)
IssueTokenPair_NoKey(w) ==
  /\ req[w].at = "session"
  /\ \E s \in SessionIds :
       /\ sessions[s] = NoSession
       /\ sessions' = [sessions EXCEPT ![s] =
            [state |-> "live", admin |-> req[w].admin]]
  /\ Done(w)
  /\ UNCHANGED admins

(* issueTokenPair: the session row.  Its foreign key refuses the INSERT if *)
(* the admin was deleted since the password was checked.                   *)
IssueTokenPair(w) ==
  /\ req[w].at = "session"
  /\ IF req[w].admin \in Present
       THEN \E s \in SessionIds :
              /\ sessions[s] = NoSession
              /\ sessions' = [sessions EXCEPT ![s] =
                   [state |-> "live", admin |-> req[w].admin]]
       ELSE UNCHANGED sessions
  /\ Done(w)
  /\ UNCHANGED admins

SessionExpires(s) ==
  /\ sessions[s].state = "live"
  /\ sessions' = [sessions EXCEPT ![s].state = "ended"]
  /\ UNCHANGED <<admins, req>>

--------------------------------------------------------------------------------
(* Managing accounts *)

(* POST /api/admin/accounts up to the duplicate check. *)
Store(w, s, email) ==
  /\ req[w] = Idle
  /\ SignedIn(s)
  /\ ~EmailExists(email, Unused)
  /\ req' = [req EXCEPT ![w] = [at |-> "create", email |-> email]]
  /\ UNCHANGED <<admins, sessions>>

(* create-admin.php, run on the server: same check, no session. *)
CreateAdminScript(w, email) ==
  /\ req[w] = Idle
  /\ ~EmailExists(email, Unused)
  /\ req' = [req EXCEPT ![w] = [at |-> "create", email |-> email]]
  /\ UNCHANGED <<admins, sessions>>

(* AdminRepository::create; a duplicate address fails. *)
Create(w) ==
  LET email == req[w].email IN
  /\ req[w].at = "create"
  /\ \E a \in AdminIds :
       /\ admins[a] = Unused
       /\ IF EmailFree(email, a)
            THEN admins' = [admins EXCEPT ![a] = email]
            ELSE UNCHANGED admins
  /\ Done(w)
  /\ UNCHANGED sessions

(* PUT /api/admin/accounts/{id} up to the write.  A body that only renames *)
(* is left out.                                                            *)
RequestUpdate(w, s, a, email, password) ==
  /\ req[w] = Idle
  /\ SignedIn(s)
  /\ a \in Present
  /\ email # Keep \/ password
  /\ email # Keep => ~EmailExists(email, a)
  /\ req' = [req EXCEPT ![w] =
       [at |-> "update", target |-> a, email |-> email, password |-> password]]
  /\ UNCHANGED <<admins, sessions>>

(* AdminRepository::update: nothing if the row is gone or the address was  *)
(* taken; a password change ends the sessions in the same transaction.     *)
Update(w) ==
  LET a == req[w].target
      email == IF req[w].email = Keep THEN admins[a] ELSE req[w].email
  IN
  /\ req[w].at = "update"
  /\ IF a \in Present /\ EmailFree(email, a)
       THEN /\ admins' = [admins EXCEPT ![a] = email]
            /\ IF req[w].password THEN RevokeSessions(a) ELSE UNCHANGED sessions
       ELSE UNCHANGED <<admins, sessions>>
  /\ Done(w)

(* DELETE /api/admin/accounts/{id} up to the transaction. *)
Destroy(w, s, a) ==
  /\ req[w] = Idle
  /\ SignedIn(s)
  /\ req' = [req EXCEPT ![w] =
       [at |-> "delete", actor |-> sessions[s].admin, target |-> a]]
  /\ UNCHANGED <<admins, sessions>>

(* Mutant of DeleteGuarded: the actor is trusted to be the one who stays.  *)
DeleteGuarded_ActorStays(w) ==
  LET a == req[w].target IN
  /\ req[w].at = "delete"
  /\ IF a \in Present /\ a # req[w].actor
       THEN admins' = [admins EXCEPT ![a] = Deleted] /\ Cascade(a)
       ELSE UNCHANGED <<admins, sessions>>
  /\ Done(w)

(* deleteGuarded: every admin row is locked, then the guards. *)
DeleteGuarded(w) ==
  LET a == req[w].target IN
  /\ req[w].at = "delete"
  /\ IF a \in Present /\ a # req[w].actor /\ Cardinality(Present) > 1
       THEN admins' = [admins EXCEPT ![a] = Deleted] /\ Cascade(a)
       ELSE UNCHANGED <<admins, sessions>>
  /\ Done(w)

RequestDies(w) ==
  /\ req[w] # Idle
  /\ Done(w)
  /\ UNCHANGED <<admins, sessions>>

Next ==
  \/ \E w \in Workers :
       \/ \E a \in AdminIds : Login(w, a)
       \/ IssueTokenPair(w)
       \/ \E s \in SessionIds, email \in Emails : Store(w, s, email)
       \/ \E email \in Emails : CreateAdminScript(w, email)
       \/ Create(w)
       \/ \E s \in SessionIds, a \in AdminIds, email \in Emails \cup {Keep},
             password \in BOOLEAN : RequestUpdate(w, s, a, email, password)
       \/ Update(w)
       \/ \E s \in SessionIds, a \in AdminIds : Destroy(w, s, a)
       \/ DeleteGuarded(w)
       \/ RequestDies(w)
  \/ \E s \in SessionIds : SessionExpires(s)

Spec == Init /\ [][Next]_vars

--------------------------------------------------------------------------------
(***************************************************************************)
(* However many admins delete each other at once, one is left: without any *)
(* admin only the server's shell could let staff in again ("two concurrent *)
(* deletions can never remove every admin account").                       *)
(***************************************************************************)
NeverWithoutAdmin == Present # {}

(***************************************************************************)
(* No two admins share an address, although every request checks it on a   *)
(* read made before its write: login finds an admin by address.            *)
(***************************************************************************)
EmailsDistinct ==
  \A a, b \in Present : admins[a] = admins[b] => a = b

(***************************************************************************)
(* A deleted admin has no live session, not even one opened by a login     *)
(* that had checked the password before the deletion.                      *)
(***************************************************************************)
DeletedSignedOut ==
  \A s \in SessionIds : sessions[s].state = "live" => sessions[s].admin \in Present

IInv == TypeOK /\ NeverWithoutAdmin /\ EmailsDistinct /\ DeletedSignedOut

================================================================================
