---------------------------- MODULE OrderLifecycle -----------------------------
(***************************************************************************)
(* Orders, their payment and the stock they reserve: OrderService and      *)
(* OrderRepository, called by the checkout, the customer's cancel button,  *)
(* staff, the payment gateway's callbacks and the expiry cron, all at      *)
(* once.                                                                   *)
(*                                                                         *)
(* A database transaction that starts with SELECT ... FOR UPDATE on the    *)
(* order row is one step: whoever else wants the order waits for its       *)
(* commit.  What a request reads before its transaction or does after the  *)
(* commit is a step of its own, and the request remembers in req what it   *)
(* read.  A request that changes nothing (404, 409, a replay) is not a     *)
(* step.                                                                   *)
(***************************************************************************)
EXTENDS Integers, FiniteSets

CONSTANTS
  Orders,              \* bound: the order ids the database will hand out
  Variants,            \* product_variants.id
  Methods,             \* payment methods staff left enabled
  Workers,             \* bound: PHP requests in flight
  Crons,               \* bound: overlapping runs of expire-card-pending.php
  AdminForms,          \* bodies staff send to PUT /api/admin/orders/{id}
  MaxQuantity,         \* MAX_QUANTITY_PER_LINE
  MaxLines,            \* MAX_LINES_PER_ORDER
  MaxStock             \* bound: largest stock_quantity staff enter

Statuses == {"pending", "processing", "shipped", "delivered", "cancelled"}
PaymentStatuses == {"pending", "paid", "failed"}
Cancellable == {"pending", "processing"}
Keep == "keep"  \* the field is absent from the request body

ASSUME OrdersAssumption == IsFiniteSet(Orders)
ASSUME MethodsAssumption == Methods \subseteq {"cod", "whatsapp", "card"}
ASSUME AdminFormsAssumption ==
  AdminForms \subseteq [status : Statuses \cup {Keep},
                        payment : PaymentStatuses \cup {Keep}]
ASSUME BoundsAssumption ==
  /\ MaxQuantity \in Nat
  /\ MaxLines \in Nat
  /\ MaxStock \in Nat

(* normalizeLines: 1..MaxLines lines, each variant once, 1..MaxQuantity    *)
(* units per line.                                                         *)
Lines(cart) == {v \in Variants : cart[v] > 0}
Carts == {cart \in [Variants -> 0..MaxQuantity] :
            Lines(cart) # {} /\ Cardinality(Lines(cart)) <= MaxLines}
NoUnits == [v \in Variants |-> 0]

(* A row of the orders table with its order_items.  released is            *)
(* inventory_released_at IS NOT NULL; aged says created_at is older than   *)
(* the expiry window.                                                      *)
Row == [status : Statuses, payment : PaymentStatuses, method : Methods,
        released : BOOLEAN, aged : BOOLEAN, items : Carts]
NoRow == [status |-> "absent", payment |-> "none", method |-> "none",
          released |-> FALSE, aged |-> FALSE, items |-> NoUnits]

Idle == [at |-> "idle"]
Requests ==
  {Idle}
  \cup [at : {"place"}, cart : Carts, method : Methods]
  \cup [at : {"cancel", "reread", "rewrite", "reacquire", "session"}, order : Orders]

VARIABLES
  stock,      \* stock[v]: product_variants.stock_quantity
  orders,     \* orders[o]: the row of order o, or NoRow
  req,        \* req[w]: what request w read and where it stands
  todo,       \* todo[c]: candidates cron run c selected and has not handled
  sessions,   \* orders with a hosted payment page the gateway has not settled
  callbacks,  \* <<order, result>> the gateway settled; deliverable any number
              \* of times, in any order, or never
  supply,     \* history: units of each variant the shop owns (see Reservation)
  byStaff     \* history: orders whose payment a form of staff has changed

vars == <<stock, orders, req, todo, sessions, callbacks, supply, byStaff>>

TypeOK ==
  /\ stock \in [Variants -> Nat]
  /\ orders \in [Orders -> Row \cup {NoRow}]
  /\ req \in [Workers -> Requests]
  /\ todo \in [Crons -> SUBSET Orders]
  /\ sessions \subseteq Orders
  /\ callbacks \subseteq Orders \X {"paid", "failed"}
  /\ supply \in [Variants -> Int]
  /\ byStaff \subseteq Orders

Placed(o) == orders[o] # NoRow

Init ==
  /\ stock \in [Variants -> 0..MaxStock]
  /\ orders = [o \in Orders |-> NoRow]
  /\ req = [w \in Workers |-> Idle]
  /\ todo = [c \in Crons |-> {}]
  /\ sessions = {}
  /\ callbacks = {}
  /\ supply = stock
  /\ byStaff = {}

--------------------------------------------------------------------------------
(* Statements of OrderRepository *)

(* Every line's "stock_quantity >= quantity" holds. *)
InStock(cart) == \A v \in Variants : cart[v] <= stock[v]

DecrementStock(cart) == stock' = [v \in Variants |-> stock[v] - cart[v]]

(* updateStatus: the two status columns, nothing else. *)
UpdateStatus(o, status, payment) ==
  /\ orders' = [orders EXCEPT ![o].status = status, ![o].payment = payment]
  /\ UNCHANGED stock

(* updateStatusAndRelease returning true, and the incrementStock of every  *)
(* line that its callers then run in the same transaction.                 *)
UpdateStatusAndRelease(o, status, payment) ==
  /\ ~orders[o].released
  /\ orders' = [orders EXCEPT ![o].status = status, ![o].payment = payment,
                              ![o].released = TRUE]
  /\ stock' = [v \in Variants |-> stock[v] + orders[o].items[v]]

--------------------------------------------------------------------------------
(* Checkout *)

(* POST /api/orders: every check before the transaction, on plain reads. *)
PlaceOrder(w, cart, method) ==
  /\ req[w] = Idle
  /\ InStock(cart)
  /\ req' = [req EXCEPT ![w] = [at |-> "place", cart |-> cart, method |-> method]]
  /\ UNCHANGED <<stock, orders, todo, sessions, callbacks, supply, byStaff>>

(* Mutant of PlaceOrderCommit: trusts the stock read before the transaction. *)
PlaceOrderCommit_Trusting(w) ==
  /\ req[w].at = "place"
  /\ DecrementStock(req[w].cart)
  /\ \E o \in Orders :
       /\ ~Placed(o)
       /\ orders' = [orders EXCEPT ![o] =
            [status |-> "pending", payment |-> "pending",
             method |-> req[w].method, released |-> FALSE,
             aged |-> FALSE, items |-> req[w].cart]]
  /\ req' = [req EXCEPT ![w] = Idle]
  /\ UNCHANGED <<todo, sessions, callbacks, supply, byStaff>>

(* placeOrder's transaction: the row, its lines, the guarded decrements.   *)
(* One line out of stock rolls all of it back.                             *)
PlaceOrderCommit(w) ==
  /\ req[w].at = "place"
  /\ \/ /\ InStock(req[w].cart)
        /\ DecrementStock(req[w].cart)
        /\ \E o \in Orders :
             /\ ~Placed(o)
             /\ orders' = [orders EXCEPT ![o] =
                  [status |-> "pending", payment |-> "pending",
                   method |-> req[w].method, released |-> FALSE,
                   aged |-> FALSE, items |-> req[w].cart]]
     \/ /\ ~InStock(req[w].cart)
        /\ UNCHANGED <<stock, orders>>
  /\ req' = [req EXCEPT ![w] = Idle]
  /\ UNCHANGED <<todo, sessions, callbacks, supply, byStaff>>

--------------------------------------------------------------------------------
(* Customer cancellation *)

(* cancelOrder's read before the lock. *)
CancelOrder(w, o) ==
  /\ req[w] = Idle
  /\ Placed(o)
  /\ orders[o].status \in Cancellable
  /\ orders[o].payment # "paid"
  /\ req' = [req EXCEPT ![w] = [at |-> "cancel", order |-> o]]
  /\ UNCHANGED <<stock, orders, todo, sessions, callbacks, supply, byStaff>>

(* Mutants of CancelOrderCommit: the paid check is only made before the    *)
(* lock; nothing is checked or claimed again under the lock.               *)
CancelOrderCommit_StalePaid(w) ==
  LET o == req[w].order IN
  /\ req[w].at = "cancel"
  /\ IF orders[o].status \in Cancellable /\ ~orders[o].released
       THEN UpdateStatusAndRelease(o, "cancelled", orders[o].payment)
       ELSE UNCHANGED <<stock, orders>>
  /\ req' = [req EXCEPT ![w] = Idle]
  /\ UNCHANGED <<todo, sessions, callbacks, supply, byStaff>>
CancelOrderCommit_Trusting(w) ==
  LET o == req[w].order IN
  /\ req[w].at = "cancel"
  /\ orders' = [orders EXCEPT ![o].status = "cancelled", ![o].released = TRUE]
  /\ stock' = [v \in Variants |-> stock[v] + orders[o].items[v]]
  /\ req' = [req EXCEPT ![w] = Idle]
  /\ UNCHANGED <<todo, sessions, callbacks, supply, byStaff>>

(* cancelOrder's transaction: the same checks under the lock, then the     *)
(* release claim.  A lost claim rolls back.                                *)
CancelOrderCommit(w) ==
  LET o == req[w].order IN
  /\ req[w].at = "cancel"
  /\ IF /\ orders[o].status \in Cancellable
        /\ orders[o].payment # "paid"
        /\ ~orders[o].released
       THEN UpdateStatusAndRelease(o, "cancelled", orders[o].payment)
       ELSE UNCHANGED <<stock, orders>>
  /\ req' = [req EXCEPT ![w] = Idle]
  /\ UNCHANGED <<todo, sessions, callbacks, supply, byStaff>>

--------------------------------------------------------------------------------
(* Staff: PUT /api/admin/orders/{id}, one transaction *)

TargetStatus(o, form) ==
  IF form.status = Keep THEN orders[o].status ELSE form.status
TargetPayment(o, form) ==
  IF form.payment = Keep THEN orders[o].payment ELSE form.payment

(* Mutant of AdminRules: Rule 2 looks at the status in the request only. *)
AdminRules_RequestOnly(o, form) ==
  /\ ~(form.status = "cancelled" /\ form.payment = "paid")
  /\ ~(/\ form.payment = "paid"
       /\ orders[o].payment # "paid"
       /\ form.status = "cancelled")

(* Rule 1 and Rule 2 of adminUpdate. *)
AdminRules(o, form) ==
  /\ ~(form.status = "cancelled" /\ form.payment = "paid")
  /\ ~(/\ form.payment = "paid"
       /\ orders[o].payment # "paid"
       /\ "cancelled" \in {orders[o].status, TargetStatus(o, form)})

(* Mutant of AdminCancels: an order in processing takes the plain write. *)
AdminCancels_PendingOnly(o, form) ==
  TargetStatus(o, form) = "cancelled" /\ orders[o].status = "pending"

AdminCancels(o, form) ==
  TargetStatus(o, form) = "cancelled" /\ orders[o].status # "cancelled"

(* The pending payment becomes failed while the order holds stock. *)
AdminFails(o, form) ==
  /\ TargetPayment(o, form) = "failed"
  /\ orders[o].payment = "pending"
  /\ ~orders[o].released

AdminCancel(o, form) ==
  /\ Placed(o)
  /\ AdminRules(o, form)
  /\ AdminCancels(o, form)
  /\ orders[o].status \in Cancellable
  /\ orders[o].payment # "paid"
  /\ UpdateStatusAndRelease(o, "cancelled", TargetPayment(o, form))
  /\ UNCHANGED <<req, todo, sessions, callbacks, supply>>

AdminFail(o, form) ==
  /\ Placed(o)
  /\ AdminRules(o, form)
  /\ ~AdminCancels(o, form)
  /\ AdminFails(o, form)
  /\ UpdateStatusAndRelease(o, TargetStatus(o, form), "failed")
  /\ UNCHANGED <<req, todo, sessions, callbacks, supply>>

AdminWrite(o, form) ==
  /\ Placed(o)
  /\ AdminRules(o, form)
  /\ ~AdminCancels(o, form)
  /\ ~AdminFails(o, form)
  /\ UpdateStatus(o, TargetStatus(o, form), TargetPayment(o, form))
  /\ UNCHANGED <<req, todo, sessions, callbacks, supply>>

AdminUpdate(o, form) ==
  /\ \/ AdminCancel(o, form)
     \/ AdminFail(o, form)
     \/ AdminWrite(o, form)
  /\ byStaff' = IF orders'[o].payment = orders[o].payment THEN byStaff
                                                          ELSE byStaff \cup {o}

(* PUT /api/admin/variants/{id} with a fresh count of the shelf. *)
UpdateVariant(v, n) ==
  /\ stock' = [stock EXCEPT ![v] = n]
  /\ supply' = [supply EXCEPT ![v] = @ + (n - stock[v])]
  /\ UNCHANGED <<orders, req, todo, sessions, callbacks, byStaff>>

--------------------------------------------------------------------------------
(* Card payment *)

(* POST /api/payments/initiate: the checks on the order it read; a failed  *)
(* payment goes through reacquireInventoryForRetry first.                  *)
Initiate(w, o) ==
  /\ req[w] = Idle
  /\ Placed(o)
  /\ orders[o].payment # "paid"
  /\ orders[o].method = "card"
  /\ orders[o].status # "cancelled"
  /\ req' = [req EXCEPT ![w] =
       [at |-> IF orders[o].payment = "failed" THEN "reacquire" ELSE "session",
        order |-> o]]
  /\ UNCHANGED <<stock, orders, todo, sessions, callbacks, supply, byStaff>>

(* Mutant of Reacquire: takes the stock and leaves the marker set. *)
Reacquire_KeepsMarker(w) ==
  LET o == req[w].order IN
  /\ req[w].at = "reacquire"
  /\ orders[o].status = "pending"
  /\ orders[o].payment = "failed"
  /\ orders[o].released
  /\ InStock(orders[o].items)
  /\ DecrementStock(orders[o].items)
  /\ req' = [req EXCEPT ![w].at = "session"]
  /\ UNCHANGED <<orders, todo, sessions, callbacks, supply, byStaff>>

(* reacquireInventoryForRetry's transaction.  It ends in a 409 (the order  *)
(* moved on, or a line sold out), finds nothing to re-reserve, or takes    *)
(* the stock and clears the marker; payment_status stays "failed".         *)
Reacquire(w) ==
  LET o == req[w].order
      nothingToReserve == orders[o].payment # "failed" \/ ~orders[o].released
      continue == req' = [req EXCEPT ![w].at = "session"]
  IN
  /\ req[w].at = "reacquire"
  /\ \/ /\ \/ orders[o].status # "pending"
           \/ orders[o].payment = "paid"
           \/ ~nothingToReserve /\ ~InStock(orders[o].items)
        /\ req' = [req EXCEPT ![w] = Idle]
        /\ UNCHANGED <<stock, orders>>
     \/ /\ orders[o].status = "pending"
        /\ orders[o].payment # "paid"
        /\ nothingToReserve
        /\ continue
        /\ UNCHANGED <<stock, orders>>
     \/ /\ orders[o].status = "pending"
        /\ orders[o].payment = "failed"
        /\ orders[o].released
        /\ InStock(orders[o].items)
        /\ DecrementStock(orders[o].items)
        /\ orders' = [orders EXCEPT ![o].released = FALSE]
        /\ continue
  /\ UNCHANGED <<todo, sessions, callbacks, supply, byStaff>>

(* initiatePayment: the hosted page of order o, unless the gateway is not  *)
(* configured (503, after the stock was taken).                            *)
StartSession(w) ==
  /\ req[w].at = "session"
  /\ \/ sessions' = sessions \cup {req[w].order}
     \/ UNCHANGED sessions
  /\ req' = [req EXCEPT ![w] = Idle]
  /\ UNCHANGED <<stock, orders, todo, callbacks, supply, byStaff>>

(* The gateway settles an open page of the order and will call back.  The  *)
(* shop never looks at which page a callback is about, only at the order   *)
(* id in it, so the open pages of an order are one.                        *)
GatewaySettles(o, result) ==
  /\ o \in sessions
  /\ sessions' = sessions \ {o}
  /\ callbacks' = callbacks \cup {<<o, result>>}
  /\ UNCHANGED <<stock, orders, req, todo, supply, byStaff>>

(* Mutant of CallbackPaid: no look at inventory_released_at. *)
CallbackPaid_Late(o) ==
  /\ <<o, "paid">> \in callbacks
  /\ orders[o].method = "card"
  /\ orders[o].payment = "pending"
  /\ orders[o].status # "cancelled"
  /\ UpdateStatus(o, orders[o].status, "paid")
  /\ UNCHANGED <<req, todo, sessions, callbacks, supply, byStaff>>

(* A delivered success: markCardPaymentPaid. *)
CallbackPaid(o) ==
  /\ <<o, "paid">> \in callbacks
  /\ orders[o].method = "card"
  /\ orders[o].payment = "pending"
  /\ ~orders[o].released
  /\ orders[o].status # "cancelled"
  /\ UpdateStatus(o, orders[o].status, "paid")
  /\ UNCHANGED <<req, todo, sessions, callbacks, supply, byStaff>>

(* A delivered failure: markCardPaymentFailed up to its commit.  When the  *)
(* stock was already released the claim fails and nothing is written.      *)
CallbackFailed(w, o) ==
  /\ req[w] = Idle
  /\ <<o, "failed">> \in callbacks
  /\ orders[o].method = "card"
  /\ orders[o].payment = "pending"
  /\ \/ UpdateStatusAndRelease(o, orders[o].status, "failed")
     \/ orders[o].released /\ UNCHANGED <<stock, orders>>
  /\ req' = [req EXCEPT ![w] = [at |-> "reread", order |-> o]]
  /\ UNCHANGED <<todo, sessions, callbacks, supply, byStaff>>

(* The read after the commit ... *)
CallbackReread(w) ==
  /\ req[w].at = "reread"
  /\ req' = [req EXCEPT ![w] =
       IF orders[req[w].order].payment = "failed"
         THEN Idle ELSE [@ EXCEPT !.at = "rewrite"]]
  /\ UNCHANGED <<stock, orders, todo, sessions, callbacks, supply, byStaff>>

(* ... and the write it decides, with no lock and no condition. *)
CallbackRewrite(w) ==
  LET o == req[w].order IN
  /\ req[w].at = "rewrite"
  /\ UpdateStatus(o, orders[o].status, "failed")
  /\ req' = [req EXCEPT ![w] = Idle]
  /\ UNCHANGED <<todo, sessions, callbacks, supply, byStaff>>

--------------------------------------------------------------------------------
(* Expiry cron *)

(* The conditions of the candidate query, checked again under the lock. *)
Stale(o) ==
  /\ orders[o].method = "card"
  /\ orders[o].payment = "pending"
  /\ orders[o].status = "pending"
  /\ ~orders[o].released
  /\ orders[o].aged

(* Mutant of StaleOrders: the candidate query asks for failed payments. *)
StaleOrders_Failed == {o \in Orders : Stale(o) /\ orders[o].payment = "failed"}
StaleOrders == {o \in Orders : Stale(o)}

CronSelect(c) ==
  /\ todo[c] = {}
  /\ StaleOrders # {}
  /\ todo' = [todo EXCEPT ![c] = StaleOrders]
  /\ UNCHANGED <<stock, orders, req, sessions, callbacks, supply, byStaff>>

(* Mutant of ExpireStaleCardOrder: trusts the candidate query. *)
ExpireStaleCardOrder_Trusting(c, o) ==
  /\ o \in todo[c]
  /\ IF orders[o].released
       THEN UNCHANGED <<stock, orders>>
       ELSE UpdateStatusAndRelease(o, "cancelled", "failed")
  /\ todo' = [todo EXCEPT ![c] = @ \ {o}]
  /\ UNCHANGED <<req, sessions, callbacks, supply, byStaff>>

(* expireStaleCardOrder, or its skip when the order moved on.  The ids are *)
(* handled in any order: no handling depends on another.                   *)
ExpireStaleCardOrder(c, o) ==
  /\ o \in todo[c]
  /\ IF Stale(o)
       THEN UpdateStatusAndRelease(o, "cancelled", "failed")
       ELSE UNCHANGED <<stock, orders>>
  /\ todo' = [todo EXCEPT ![c] = @ \ {o}]
  /\ UNCHANGED <<req, sessions, callbacks, supply, byStaff>>

(* The loop catches a database error and goes on with the next id. *)
ExpireError(c, o) ==
  /\ o \in todo[c]
  /\ todo' = [todo EXCEPT ![c] = @ \ {o}]
  /\ UNCHANGED <<stock, orders, req, sessions, callbacks, supply, byStaff>>

--------------------------------------------------------------------------------
(* Time and failures *)

(* The window passes since created_at; only card orders' age is ever read. *)
Age(o) ==
  /\ Placed(o)
  /\ orders[o].method = "card"
  /\ ~orders[o].aged
  /\ orders' = [orders EXCEPT ![o].aged = TRUE]
  /\ UNCHANGED <<stock, req, todo, sessions, callbacks, supply, byStaff>>

(* A PHP process dies or loses the database: the open transaction rolls    *)
(* back and what would have followed it never happens.                     *)
RequestDies(w) ==
  /\ req[w] # Idle
  /\ req' = [req EXCEPT ![w] = Idle]
  /\ UNCHANGED <<stock, orders, todo, sessions, callbacks, supply, byStaff>>

CronDies(c) ==
  /\ todo[c] # {}
  /\ todo' = [todo EXCEPT ![c] = {}]
  /\ UNCHANGED <<stock, orders, req, sessions, callbacks, supply, byStaff>>

--------------------------------------------------------------------------------
Next ==
  \/ \E w \in Workers, cart \in Carts, method \in Methods : PlaceOrder(w, cart, method)
  \/ \E w \in Workers : PlaceOrderCommit(w)
  \/ \E w \in Workers, o \in Orders : CancelOrder(w, o)
  \/ \E w \in Workers : CancelOrderCommit(w)
  \/ \E o \in Orders, form \in AdminForms : AdminUpdate(o, form)
  \/ \E v \in Variants, n \in 0..MaxStock : UpdateVariant(v, n)
  \/ \E w \in Workers, o \in Orders : Initiate(w, o)
  \/ \E w \in Workers : Reacquire(w)
  \/ \E w \in Workers : StartSession(w)
  \/ \E o \in Orders, result \in {"paid", "failed"} : GatewaySettles(o, result)
  \/ \E o \in Orders : CallbackPaid(o)
  \/ \E w \in Workers, o \in Orders : CallbackFailed(w, o)
  \/ \E w \in Workers : CallbackReread(w)
  \/ \E w \in Workers : CallbackRewrite(w)
  \/ \E c \in Crons : CronSelect(c)
  \/ \E c \in Crons, o \in Orders : ExpireStaleCardOrder(c, o)
  \/ \E c \in Crons, o \in Orders : ExpireError(c, o)
  \/ \E o \in Orders : Age(o)
  \/ \E w \in Workers : RequestDies(w)
  \/ \E c \in Crons : CronDies(c)

Spec == Init /\ [][Next]_vars

(* The crontab entry runs every 15 minutes and the loop reaches every id;  *)
(* a run may die and a database error may skip an order, but not every     *)
(* time it is tried.                                                       *)
CronFairness ==
  /\ \A c \in Crons : WF_vars(CronSelect(c))
  /\ \A o \in Orders : SF_vars(\E c \in Crons : ExpireStaleCardOrder(c, o))

CronSpec == Spec /\ CronFairness

(* The gateway repeats a settled success until the shop has processed it. *)
GatewaySpec == Spec /\ \A o \in Orders : SF_vars(CallbackPaid(o))

--------------------------------------------------------------------------------
(* Stock *)

(* The units order o holds off the shelf. *)
Held(o) == IF orders[o].released THEN NoUnits ELSE orders[o].items

(***************************************************************************)
(* Implements Reservation: whatever requests, callbacks, staff, cron and   *)
(* crashes do, stock leaves the shelf for a whole cart at once and comes   *)
(* back exactly once per reservation, in the step that sets the release    *)
(* marker (UPDATE ... WHERE inventory_released_at IS NULL).                *)
(***************************************************************************)
R == INSTANCE Reservation WITH held <- [o \in Orders |-> Held(o)]
ReservationSpec == R!Spec

(***************************************************************************)
(* The shelf and the unreleased orders account for every unit the shop     *)
(* owns: no interleaving of placing, cancelling, failing, expiring and     *)
(* retrying loses a unit or restores one twice.                            *)
(***************************************************************************)
StockConserved == R!StockConserved

(***************************************************************************)
(* The stock of a paid order is never given back: cancelOrder, the failed  *)
(* callback, adminUpdate and the cron each release only an order whose     *)
(* payment is not paid when the lock is held.                              *)
(***************************************************************************)
PaidNeverReleased ==
  [][\A o \in Orders :
       ~orders[o].released /\ orders'[o].released => orders[o].payment # "paid"]_vars

--------------------------------------------------------------------------------
(* Order and payment *)

(***************************************************************************)
(* An order is never cancelled and paid at once: Rules 1 and 2 of          *)
(* adminUpdate, cancelOrder's paid check under the lock and                *)
(* markCardPaymentPaid's cancelled check exclude each other's late writes. *)
(***************************************************************************)
NeverCancelledAndPaid ==
  \A o \in Orders : ~(orders[o].status = "cancelled" /\ orders[o].payment = "paid")

(***************************************************************************)
(* A cancelled order has given its stock back, and no retry takes it again *)
(* (reacquireInventoryForRetry re-checks the status under the lock).       *)
(***************************************************************************)
CancelledIsReleased ==
  \A o \in Orders : orders[o].status = "cancelled" => orders[o].released

(***************************************************************************)
(* A paid order holds its stock, unless staff confirmed the payment of one *)
(* that had given it back: a success that arrives after a failure, a       *)
(* cancellation or an expiry never makes a released order paid.            *)
(***************************************************************************)
PaidHoldsStock ==
  \A o \in Orders \ byStaff : orders[o].payment = "paid" => ~orders[o].released

(***************************************************************************)
(* Until staff change its payment, an order is paid only when the gateway  *)
(* approved a payment for it, and stays paid: no late or repeated failure, *)
(* no expiry and no rewrite of markCardPaymentFailed takes it back.        *)
(***************************************************************************)
PaidIsFinal ==
  [][\A o \in Orders \ byStaff' :
       /\ orders[o].payment = "paid" => orders'[o].payment = "paid"
       /\ orders'[o].payment = "paid" => <<o, "paid">> \in callbacks]_vars

(***************************************************************************)
(* Until staff change its payment, an order whose failure is being         *)
(* recorded cannot become paid between the commit of markCardPaymentFailed *)
(* and its unlocked rewrite: it is failed, or pending with its stock gone. *)
(***************************************************************************)
FailureStands ==
  \A w \in Workers :
    LET o == req[w].order IN
    req[w].at \in {"reread", "rewrite"} /\ o \notin byStaff =>
      \/ orders[o].payment = "failed"
      \/ orders[o].payment = "pending" /\ orders[o].released

(***************************************************************************)
(* Implements CardPayment, which the payment page counts on: until staff   *)
(* change the payment of an order, callbacks in any order, retries,        *)
(* expiries and unlocked rewrites settle it once, and what it was settled  *)
(* to is never changed.                                                    *)
(***************************************************************************)
PaymentOf(o) == IF Placed(o) THEN orders[o].payment ELSE "pending"
Payment(o) == INSTANCE CardPayment WITH status <- PaymentOf(o)
PaymentsSettleOnce ==
  /\ \A o \in Orders : Payment(o)!Init
  /\ [][\A o \in Orders \ byStaff' : [Payment(o)!Next]_(PaymentOf(o))]_vars

(***************************************************************************)
(* A card order nobody paid within the window does not stay a candidate of *)
(* the expiry cron: overlapping or dying runs, and errors on one order,    *)
(* only delay it.                                                          *)
(***************************************************************************)
StaleOrdersExpire == \A o \in Orders : Stale(o) ~> ~Stale(o)

(* A request that read an order still finds it: order rows are never       *)
(* deleted.                                                                *)
RequestsPlaced ==
  \A w \in Workers : req[w].at \notin {"idle", "place"} => Placed(req[w].order)

(***************************************************************************)
(* The inductive invariant behind the order and payment properties: with   *)
(* the types, what every cancellation, payment, retry and rewrite relies   *)
(* on when its transaction finds the order.                                *)
(***************************************************************************)
IInv ==
  /\ TypeOK
  /\ RequestsPlaced
  /\ CancelledIsReleased
  /\ NeverCancelledAndPaid

--------------------------------------------------------------------------------
(* What the documentation says and the code does not do *)

(***************************************************************************)
(* expire-card-pending.php: a card order never paid within the window is   *)
(* cancelled and its stock restored.  A retry (reacquireInventoryForRetry) *)
(* leaves payment_status "failed", which the cron never selects.           *)
(***************************************************************************)
UnpaidOrdersGiveStockBack ==
  \A o \in Orders :
    LET waits == /\ orders[o].method = "card"
                 /\ orders[o].status = "pending"
                 /\ orders[o].payment # "paid"
                 /\ ~orders[o].released
                 /\ orders[o].aged
    IN waits ~> ~waits

(***************************************************************************)
(* "atomic inventory release (020 marker, exactly once, never for paid)":  *)
(* a paid order holds its stock.  Rule 2 of adminUpdate looks at the       *)
(* status only: staff may confirm the payment of an order whose failed     *)
(* payment gave the stock back.                                            *)
(***************************************************************************)
PaidOrdersHoldStock ==
  \A o \in Orders : orders[o].payment = "paid" => ~orders[o].released

(***************************************************************************)
(* docs/README.md: callback, polling, retry.  The approved payment of an   *)
(* open order that holds its stock is recorded as paid.  After a retry the *)
(* stored payment is still "failed", so markCardPaymentPaid rejects it.    *)
(***************************************************************************)
ApprovedPaymentIsRecorded ==
  \A o \in Orders :
    LET approved == /\ <<o, "paid">> \in callbacks
                    /\ orders[o].status = "pending"
                    /\ orders[o].payment # "paid"
                    /\ ~orders[o].released
    IN approved ~> ~approved

(***************************************************************************)
(* "Unpaid COD, WhatsApp, and failed/pending card orders cancel normally": *)
(* cancelOrder rolls back, and answers 200, when the failed payment has    *)
(* already claimed the release.                                            *)
(***************************************************************************)
UnpaidOrdersCancel ==
  [][\A w \in Workers :
       LET o == req[w].order IN
       CancelOrderCommit(w) /\ orders[o].status \in Cancellable
                            /\ orders[o].payment # "paid"
         => orders'[o].status = "cancelled"]_vars

(***************************************************************************)
(* markCardPaymentFailed: "only a still-pending card payment may move to   *)
(* failed".  CallbackRewrite overwrites what staff confirmed in between.   *)
(***************************************************************************)
OnlyPendingFails ==
  [][\A o \in Orders :
       orders[o].payment # "failed" /\ orders'[o].payment = "failed"
         => orders[o].payment = "pending"]_vars

================================================================================
