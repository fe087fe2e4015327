------------------------------ MODULE PaymentPage ------------------------------
(***************************************************************************)
(* The card payment page (app/payment/[id]/payment-view.tsx) of one order: *)
(* it asks for the status, starts the payment at the gateway, and polls    *)
(* every three seconds until the gateway's callback has settled it.        *)
(*                                                                         *)
(* The callback of setInterval is asynchronous and is not awaited, so      *)
(* requests overlap and are answered in any order; none is cancelled.  A   *)
(* request reads the status when the server handles it (saw) and acts on   *)
(* it when the answer arrives.  Staff leave the payment status alone here  *)
(* (OrderLifecycle has what they can do to it).                            *)
(***************************************************************************)
EXTENDS Naturals, FiniteSets

CONSTANTS
  MaxTries,    \* 40 in the code
  MaxPending,  \* bound: status requests of intervals under way at once
  MaxPolls,    \* bound: calls of pollStatus
  Presses      \* bound: calls of initiateCardPayment under way at once

ASSUME MaxTriesAssumption == MaxTries \in Nat \ {0}
ASSUME MaxPendingAssumption == MaxPending \in Nat
ASSUME MaxPollsAssumption == MaxPolls \in Nat

Statuses == {"pending", "paid", "failed"}
Phases == {"loading", "ready", "redirecting", "polling", "paid", "failed", "error"}
Initiations == {"none", "asked", "started", "refused"}
Results == {"asked", "gone"} \cup Statuses
Off == 0    \* no interval; polls are numbered from 1

VARIABLES
  order,       \* payment_status of the order in the database
  place,       \* the tab: "here", "leaving" (here, with the form to the gateway submitted),
               \* "gateway" (this page is frozen behind the gateway's), "away"
  hint,        \* returnedFromCmi: the address has ?pay=success or ?pay=failure
  phase,       \* phase
  load,        \* the first status request: what it saw, or "none"
  timer,       \* pollTimer.current: the poll whose interval runs, or Off
  tries,       \* tries of every poll
  polls,       \* calls of pollStatus so far
  ticks,       \* status requests of the intervals under way
  initiations  \* how far each call of initiateCardPayment is

pageVars == <<place, hint, phase>>
pollVars == <<timer, tries, polls>>
vars == <<order, pageVars, load, pollVars, ticks, initiations>>

Tick == [id : 1..MaxPending, poll : 1..MaxPolls, saw : Results]

TypeOK ==
  /\ order \in Statuses
  /\ place \in {"here", "leaving", "gateway", "away"} /\ hint \in BOOLEAN
  /\ phase \in Phases
  /\ load \in {"none"} \cup Results
  /\ timer \in 0..MaxPolls /\ polls \in 0..MaxPolls
  /\ tries \in [1..MaxPolls -> 0..MaxTries]
  /\ ticks \subseteq Tick
  /\ initiations \in [Presses -> Initiations]

NoTries == [p \in 1..MaxPolls |-> 0]
NoInitiation == [i \in Presses |-> "none"]

Init ==
  /\ order = "pending"
  /\ place = "here" /\ hint \in BOOLEAN
  /\ phase = "loading" /\ load = "asked"
  /\ timer = Off /\ tries = NoTries /\ polls = 0
  /\ ticks = {} /\ initiations = NoInitiation

(* The scripts of the page run: it is not frozen, and not left.            *)
Shown == place \in {"here", "leaving"}

--------------------------------------------------------------------------------
(* The server: PaymentController and the gateway's callbacks *)

Server == INSTANCE CardPayment WITH status <- order

(* The callback settles a pending payment (OrderLifecycle!CallbackPaid,    *)
(* CallbackFailed).                                                        *)
GatewaySettles(result) ==
  /\ Server!Settle(result)
  /\ UNCHANGED <<pageVars, load, pollVars, ticks, initiations>>

(* A status request is handled; a wrong or stale link is answered 404. *)
HandleTick(t, result) ==
  /\ t \in ticks /\ t.saw = "asked"
  /\ result \in {order, "gone"}
  /\ ticks' = (ticks \ {t}) \cup {[t EXCEPT !.saw = result]}
  /\ UNCHANGED <<order, pageVars, load, pollVars, initiations>>

HandleLoad(result) ==
  /\ load = "asked"
  /\ result \in {order, "gone"}
  /\ load' = result
  /\ UNCHANGED <<order, pageVars, pollVars, ticks, initiations>>

(* POST /api/payments/initiate: a failed payment starts again, a paid one  *)
(* is refused, and so is any other when the gateway or the stock is short. *)
(* A payment that starts again stays "failed" (OrderLifecycle!Reacquire).  *)
HandleInitiation(i, result) ==
  /\ initiations[i] = "asked"
  /\ result = "started" => order # "paid"
  /\ initiations' = [initiations EXCEPT ![i] = result]
  /\ UNCHANGED <<order, pageVars, load, pollVars, ticks>>

--------------------------------------------------------------------------------
(* Polling *)

(* pollStatus: a new interval, with a count of its own. *)
PollStatus ==
  /\ polls < MaxPolls
  /\ polls' = polls + 1
  /\ timer' = polls'
  /\ phase' = "polling"
  /\ UNCHANGED tries

(* Every three seconds, whether or not the last request was answered. *)
IntervalFires ==
  /\ Shown /\ timer # Off
  /\ tries' = [tries EXCEPT ![timer] = IF @ < MaxTries THEN @ + 1 ELSE @]
  /\ \E id \in 1..MaxPending \ {t.id : t \in ticks} :
       ticks' = ticks \cup {[id |-> id, poll |-> timer, saw |-> "asked"]}
  /\ UNCHANGED <<order, pageVars, load, timer, polls, initiations>>

(* What the answer sets, and what it leaves.                               *)
TickShown(t) ==
  /\ Shown /\ t \in ticks /\ t.saw # "asked"
  /\ ticks' = ticks \ {t}
  /\ phase' = CASE t.saw = "paid" -> "paid"
                [] t.saw = "failed" -> "failed"
                [] t.saw = "gone" -> "error"
                [] OTHER -> phase
  /\ UNCHANGED <<order, place, hint, load, tries, polls, initiations>>

(* Mutants of TickAnswered: the interval outlives a failed payment; it     *)
(* never gives up.                                                         *)
TickAnswered_KeepsTimer(t) ==
  /\ TickShown(t)
  /\ timer' = IF \/ t.saw \in {"paid", "gone"}
                 \/ t.saw = "pending" /\ tries[t.poll] = MaxTries THEN Off ELSE timer
TickAnswered_NoLimit(t) ==
  /\ TickShown(t)
  /\ timer' = IF t.saw = "pending" THEN timer ELSE Off

(* The answer stops whatever interval runs, its own or a later one.  Tries *)
(* are those of its own poll, counted when it arrives: after MaxTries a    *)
(* pending answer makes the page give up, which still says polling.        *)
TickAnswered(t) ==
  /\ TickShown(t)
  /\ timer' = IF t.saw # "pending" \/ tries[t.poll] = MaxTries THEN Off ELSE timer

(* Any error but a 404 is ignored, even at the last try. *)
TickLost(t) ==
  /\ t \in ticks
  /\ ticks' = ticks \ {t}
  /\ UNCHANGED <<order, pageVars, load, pollVars, initiations>>

--------------------------------------------------------------------------------
(* The page *)

(* Mutant of LoadAnswered: the hint in the address is believed. *)
LoadAnswered_TrustsHint ==
  /\ Shown /\ load \in Statuses
  /\ load' = "none"
  /\ IF load = "pending" /\ hint
     THEN phase' = "paid" /\ UNCHANGED pollVars
     ELSE /\ phase' = IF load = "pending" THEN "ready" ELSE load
          /\ UNCHANGED pollVars
  /\ UNCHANGED <<order, place, hint, ticks, initiations>>

(* The first answer: an order that is not settled is polled at once when   *)
(* the customer comes back from the gateway.                               *)
LoadAnswered ==
  /\ Shown /\ load \in Statuses
  /\ load' = "none"
  /\ IF load = "pending" /\ hint
     THEN PollStatus
     ELSE /\ phase' = IF load = "pending" THEN "ready" ELSE load
          /\ UNCHANGED pollVars
  /\ UNCHANGED <<order, place, hint, ticks, initiations>>

LoadFailed ==
  /\ Shown /\ load # "none"
  /\ load' = "none"
  /\ phase' = "error"
  /\ UNCHANGED <<order, place, hint, pollVars, ticks, initiations>>

(* "I already paid - check status". *)
CheckStatus ==
  /\ Shown /\ phase = "ready"
  /\ PollStatus
  /\ UNCHANGED <<order, place, hint, load, ticks, initiations>>

(* "Pay securely by card" and "Retry card payment".  A stale answer can    *)
(* bring the button back while a first request is under way.               *)
HandlePayNow(i) ==
  /\ Shown /\ phase \in {"ready", "failed"}
  /\ initiations[i] = "none"
  /\ phase' = "redirecting"
  /\ initiations' = [initiations EXCEPT ![i] = "asked"]
  /\ UNCHANGED <<order, place, hint, load, pollVars, ticks>>

(* The interval is set for a customer who comes back with Back, and the    *)
(* form is submitted: until the gateway's page is there, this one goes on. *)
InitiationAnswered(i) ==
  /\ Shown /\ initiations[i] = "started"
  /\ PollStatus
  /\ initiations' = [initiations EXCEPT ![i] = "none"]
  /\ place' = "leaving"
  /\ UNCHANGED <<order, hint, load, ticks>>

(* Refused, or lost.                                                       *)
InitiationFailed(i) ==
  /\ Shown /\ initiations[i] # "none"
  /\ phase' = "error"
  /\ initiations' = [initiations EXCEPT ![i] = "none"]
  /\ UNCHANGED <<order, place, hint, load, pollVars, ticks>>

(* The gateway's page replaces this one, which is frozen as it is.         *)
GoToGateway ==
  /\ place = "leaving" /\ place' = "gateway"
  /\ UNCHANGED <<order, hint, phase, load, pollVars, ticks, initiations>>

(* Back: the browser restores the page it froze, interval included; what   *)
(* it had under way is answered now, or lost.                              *)
ReturnByBack ==
  /\ place = "gateway" /\ place' = "here"
  /\ UNCHANGED <<order, hint, phase, load, pollVars, ticks, initiations>>

(* The gateway's okUrl or failUrl, a reload or the confirmation page's     *)
(* link: a new page, loading.                                              *)
Open(back) ==
  /\ place' = "here" /\ hint' = back
  /\ phase' = "loading" /\ load' = "asked"
  /\ timer' = Off /\ tries' = NoTries
  /\ ticks' = {} /\ initiations' = NoInitiation
  /\ UNCHANGED <<order, polls>>

(* A link out of the page: the cleanup stops the interval, the answers     *)
(* still to come change nothing.                                           *)
Leave ==
  /\ Shown
  /\ place' = "away" /\ hint' = FALSE
  /\ phase' = "loading" /\ load' = "none"
  /\ timer' = Off /\ tries' = NoTries
  /\ ticks' = {} /\ initiations' = NoInitiation
  /\ UNCHANGED <<order, polls>>

TickProgress(t) == TickAnswered(t) \/ \E result \in Results : HandleTick(t, result)

Next ==
  \/ \E result \in {"paid", "failed"} : GatewaySettles(result)
  \/ \E t \in ticks : TickProgress(t) \/ TickLost(t)
  \/ \E result \in Results : HandleLoad(result)
  \/ \E i \in Presses :
       \/ \E result \in {"started", "refused"} : HandleInitiation(i, result)
       \/ HandlePayNow(i) \/ InitiationAnswered(i) \/ InitiationFailed(i)
  \/ IntervalFires
  \/ LoadAnswered \/ LoadFailed \/ CheckStatus
  \/ GoToGateway \/ ReturnByBack \/ Leave
  \/ \E back \in BOOLEAN : Open(back)

(* The interval fires while it runs, every request comes to an end, and    *)
(* they do not fail for ever: among those an exhausted poll keeps sending, *)
(* one is answered.                                                        *)
LastTry(t) == tries[t.poll] = MaxTries
Fairness ==
  /\ WF_vars(IntervalFires)
  /\ WF_vars(\E t \in ticks : TickProgress(t) \/ TickLost(t))
  /\ SF_vars(\E t \in ticks, result \in Results : LastTry(t) /\ HandleTick(t, result))
  /\ SF_vars(\E t \in ticks : LastTry(t) /\ TickAnswered(t))

Spec == Init /\ [][Next]_vars /\ Fairness

--------------------------------------------------------------------------------
(* Properties *)

(* The page says "Payment confirmed" only of an order that is paid,        *)
(* whatever the address claims and whichever answer came last ("the        *)
(* AUTHORITATIVE state always comes from polling").                        *)
PaidShownIsPaid == phase = "paid" => order = "paid"

(* Once the page shows an outcome, or a button that starts a payment, no   *)
(* interval runs on behind it to change that again, although answers of    *)
(* earlier polls, second payments and returns from the gateway overlap.    *)
(* Behind an error one may: of a second payment that failed to start.      *)
OutcomeEndsPolling == timer # Off => phase \in {"polling", "error"}

(* Polling comes to an end: the payment settles, the link turns out wrong, *)
(* the tries run out or the customer leaves ("~2 min of polling").         *)
PollingEnds == (Shown /\ timer # Off) ~> (timer = Off \/ ~Shown)

--------------------------------------------------------------------------------
(* The inductive invariant *)

(* An answer that says paid, arrived or not, is still true: nothing undoes *)
(* a payment.                                                              *)
SeenIsSo ==
  /\ \A t \in ticks : t.saw = "paid" => order = "paid"
  /\ load = "paid" => order = "paid"

(* Nothing else is under way before the first answer.                      *)
LoadComesFirst ==
  load # "none" =>
    phase = "loading" /\ timer = Off /\ ticks = {} /\ initiations = NoInitiation

IInv ==
  /\ TypeOK
  /\ PaidShownIsPaid
  /\ OutcomeEndsPolling
  /\ SeenIsSo
  /\ LoadComesFirst

================================================================================
