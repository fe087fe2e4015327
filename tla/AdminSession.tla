----------------------------- MODULE AdminSession ------------------------------
(***************************************************************************)
(* The staff session of one browser as the back office sees it: the token  *)
(* in localStorage, the cookie the proxy looks at, and the requests a page *)
(* has under way (lib/admin.ts, admin-shell.tsx, admin/(public)/login).    *)
(*                                                                         *)
(* A request carries the token of the moment it was sent, and answers      *)
(* arrive in any order.  What the server does is a step of its own (done)  *)
(* where it changes or reads something that changes; elsewhere it is part  *)
(* of the step that acts on the answer.  When its page has gone            *)
(* (here = FALSE) an answer sets no state any more, but a refused token    *)
(* still signs out.                                                        *)
(***************************************************************************)
EXTENDS Naturals, FiniteSets

CONSTANTS
  Tokens,   \* bound: access tokens at once
  Calls,    \* bound: requests of handlers under way at once
  MaxLate,  \* bound: cancelled loads at once whose body is being read
  Nothing   \* null

ASSUME NothingAssumption == Nothing \notin Tokens

VARIABLES
  stored,   \* the token of SESSION_KEY in localStorage, or Nothing
  cookie,   \* the gate cookie is set; it carries the same token
  live,     \* tokens the API accepts
  shown,    \* the page that is mounted
  going,    \* the page the router was sent to, or Nothing
  check,    \* the shell's GET /auth/me: the token it verifies, or Nothing
  calls     \* requests of handlers under way

sessionVars == <<stored, cookie, live>>
shellVars == <<shown, going, check>>
adminVars == <<sessionVars, shellVars, calls>>

Pages == {"login", "orders", "products", "new", "edit", "coupons", "reviews", "messages"}
Replies == {"ok", "refused", "lost", "401"}

--------------------------------------------------------------------------------
(* lib/admin.ts.  Storing or clearing the session writes localStorage and  *)
(* then the cookie, two statements of one task of the page: here they are  *)
(* one step, so no crash and no other tab comes between the two.           *)

SaveAdminSession(token) == stored' = token /\ cookie' = TRUE

ClearAdminSession_KeepsCookie == stored' = Nothing /\ cookie' = cookie

ClearAdminSession == stored' = Nothing /\ cookie' = FALSE

(* redirectToLogin, sessionExpired, handleSessionExpired: the same two     *)
(* calls on every page.                                                    *)
RedirectToLogin == ClearAdminSession /\ going' = "login"

(* adminRequest and updateAdminOrder: the request leaves with the stored   *)
(* token; context is what the handler's closure captured.                  *)
AdminRequest(op, arg, context) ==
  \E id \in Calls \ {c.id : c \in calls} :
    calls' = calls \cup {[id |-> id, op |-> op, arg |-> arg, context |-> context,
                          token |-> stored, here |-> TRUE, done |-> FALSE]}

(* A handler without a session signs out, with one it sends.               *)
Send(op, arg, context) ==
  \/ stored = Nothing /\ RedirectToLogin /\ UNCHANGED calls
  \/ stored # Nothing /\ AdminRequest(op, arg, context) /\ UNCHANGED <<stored, cookie, going>>

(* AuthMiddleware refuses a token that ended (401), the endpoint refuses   *)
(* what it likes; a lost answer stands for a network error and for a       *)
(* failed CSRF request.                                                    *)
Refusals(token) == {"refused", "lost"} \cup IF token \in live THEN {} ELSE {"401"}

(* An accepted one may have been handled before its token ended.           *)
Answers(token) == {"ok"} \cup Refusals(token)

(* The answer to a request whose handling is a step of its own.            *)
Outcomes(request) == IF request.done THEN {"ok", "lost"} ELSE Refusals(request.token)

Asked(op) == {c \in calls : c.op = op}

(* The answer is acted on.  Whether or not the page is still there, a 401  *)
(* clears the session of the browser and goes to the sign-in page.         *)
SignOutOn(reply) == IF reply = "401" THEN RedirectToLogin ELSE UNCHANGED <<stored, cookie, going>>
Deliver(c, reply) == calls' = calls \ {c} /\ SignOutOn(reply)

(* The requests of a page that goes away go on without it.                 *)
Orphaned == {[c EXCEPT !.here = FALSE] : c \in calls}

--------------------------------------------------------------------------------
(* The sign-in page *)

(* useEffect of the page: who has a session is sent on.                    *)
SignInOpened == IF stored # Nothing THEN "orders" ELSE Nothing

(* handleSubmit; the button is disabled while one is under way.            *)
SubmitSignIn ==
  /\ shown = "login"
  /\ \A c \in calls : ~(c.op = "login" /\ c.here)
  /\ AdminRequest("login", Nothing, Nothing)
  /\ UNCHANGED <<sessionVars, shellVars>>

FreshTokens == Tokens \ (live \cup {stored, check} \cup {c.token : c \in calls})

(* POST /auth/login: an accepted one issues a token nobody had, which is   *)
(* saved and followed even if the page has gone.                           *)
SignInAnswered ==
  \E c \in Asked("login") :
    /\ calls' = calls \ {c}
    /\ \/ \E token \in FreshTokens :
            live' = live \cup {token} /\ SaveAdminSession(token) /\ going' = "orders"
       \/ UNCHANGED <<sessionVars, going>>
    /\ UNCHANGED <<shown, check>>

--------------------------------------------------------------------------------
(* The shell around every other page *)

(* The mount effect: without a session it signs out, with one it verifies. *)
ShellVerified ==
  /\ check # Nothing
  /\ check' = Nothing
  /\ \/ \E ok \in BOOLEAN :      \* res.ok; a server in trouble also says no
          /\ ok => check \in live
          /\ IF ok THEN UNCHANGED <<stored, cookie, going>> ELSE RedirectToLogin
     \/ UNCHANGED <<stored, cookie, going>>    \* network failure
  /\ UNCHANGED <<live, shown, calls>>

Logout ==
  /\ shown # "login"
  /\ RedirectToLogin
  /\ UNCHANGED <<live, shown, check, calls>>

--------------------------------------------------------------------------------
(* The rest of the browser, and the API *)

(* Another tab signs in or out; the cookie and localStorage are shared.    *)
OtherTab ==
  /\ \/ \E token \in FreshTokens : SaveAdminSession(token) /\ live' = live \cup {token}
     \/ stored # Nothing /\ ClearAdminSession /\ UNCHANGED live
  /\ UNCHANGED <<shellVars, calls>>

(* The token runs out or its account is deleted.                           *)
TokenEnds ==
  /\ \E token \in live : live' = live \ {token}
  /\ UNCHANGED <<stored, cookie, shellVars, calls>>
================================================================================
