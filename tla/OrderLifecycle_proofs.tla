------------------------- MODULE OrderLifecycle_proofs -------------------------
(***************************************************************************)
(* For any number of orders, variants, requests and cron runs, and any     *)
(* admin forms: the types, the order and payment invariants, and that      *)
(* OrderLifecycle implements Reservation.                                  *)
(***************************************************************************)
EXTENDS OrderLifecycle, TLAPS

Rows == Row \cup {NoRow}

(* The row of order o after a statement that set its status columns and    *)
(* its release marker and nothing else.                                    *)
RowBecomes(o, status, payment, released) ==
  /\ orders' \in [Orders -> Rows]
  /\ orders'[o] \in Row
  /\ orders'[o].status = status
  /\ orders'[o].payment = payment
  /\ orders'[o].released = released
  /\ orders'[o].items = orders[o].items
  /\ \A q \in Orders : q # o => orders'[q] = orders[q]

(* An absent row is no row of the table. *)
LEMMA AbsentRow ==
  /\ NoRow \notin Row
  /\ NoRow.status = "absent"
  /\ NoRow.payment = "none"
  /\ NoRow.method = "none"
  /\ NoRow.released = FALSE
  /\ NoRow.items = NoUnits
BY DEF NoRow, Row, Statuses

(* A placed order's row is a row of the table. *)
LEMMA PlacedRow ==
  ASSUME TypeOK, NEW o \in Orders, Placed(o)
  PROVE  /\ orders[o] \in Row
         /\ orders[o].status \in Statuses
         /\ orders[o].payment \in PaymentStatuses
         /\ orders[o].items \in Carts
BY DEF TypeOK, Placed, Row

(* updateStatus keeps the types and the reservation of every order. *)
LEMMA UpdateStatusRow ==
  ASSUME TypeOK, NEW o \in Orders, Placed(o),
         NEW status \in Statuses, NEW payment \in PaymentStatuses,
         UpdateStatus(o, status, payment)
  PROVE  RowBecomes(o, status, payment, orders[o].released) /\ stock' = stock
BY PlacedRow DEF TypeOK, UpdateStatus, Rows, Row, RowBecomes

(* updateStatusAndRelease keeps the types and sets the marker. *)
LEMMA ReleaseRow ==
  ASSUME TypeOK, NEW o \in Orders, Placed(o),
         NEW status \in Statuses, NEW payment \in PaymentStatuses,
         UpdateStatusAndRelease(o, status, payment)
  PROVE  /\ RowBecomes(o, status, payment, TRUE)
         /\ stock' \in [Variants -> Nat]
<1>1. orders[o] \in Row
  BY PlacedRow
<1>2. \A v \in Variants : stock[v] + orders[o].items[v] \in Nat
  BY <1>1, BoundsAssumption DEF TypeOK, Row, Carts
<1> QED BY <1>1, <1>2 DEF TypeOK, UpdateStatusAndRelease, Rows, Row, RowBecomes

(* The order a request works on, when it works on one. *)
LEMMA RequestOrder ==
  ASSUME TypeOK, RequestsPlaced, NEW w \in Workers,
         req[w].at \in {"cancel", "reread", "rewrite", "reacquire", "session"}
  PROVE  /\ req[w].order \in Orders
         /\ Placed(req[w].order)
<1>1. req[w] \in Requests
  BY DEF TypeOK
<1>2. req[w] \in [at : {"cancel", "reread", "rewrite", "reacquire", "session"},
                  order : Orders]
  BY <1>1 DEF Requests, Idle
<1>3. Placed(req[w].order)
  BY DEF RequestsPlaced
<1> QED BY <1>2, <1>3

(* What a request may become: one that works on no order, or on a placed   *)
(* one.                                                                    *)
GoodRequest(r) ==
  r \in Requests /\ (r.at \notin {"idle", "place"} => orders'[r.order] # NoRow)

(* Order rows are never deleted, so requests keep finding their order.     *)
LEMMA RequestsStayPlaced ==
  ASSUME IInv,
         \A q \in Orders : orders[q] # NoRow => orders'[q] # NoRow,
         \/ req' = req
         \/ \E w \in Workers, r \in Requests :
              GoodRequest(r) /\ req' = [req EXCEPT ![w] = r]
  PROVE  RequestsPlaced' /\ req' \in [Workers -> Requests]
<1>1. req' \in [Workers -> Requests]
  BY DEF IInv, TypeOK
<1>2. ASSUME NEW w \in Workers, req'[w].at \notin {"idle", "place"}
      PROVE  orders'[req'[w].order] # NoRow
  <2>1. CASE req'[w] = req[w]
    <3>1. req[w] \in Requests
      BY DEF IInv, TypeOK
    <3>2. req[w].at \in {"cancel", "reread", "rewrite", "reacquire", "session"}
      BY <1>2, <2>1, <3>1 DEF Requests, Idle
    <3>3. req[w].order \in Orders /\ orders[req[w].order] # NoRow
      BY <3>2, RequestOrder DEF IInv, Placed
    <3> QED BY <2>1, <3>3
  <2>2. CASE req'[w] # req[w]
    <3>1. PICK x \in Workers, r \in Requests :
            GoodRequest(r) /\ req' = [req EXCEPT ![x] = r]
      BY <2>2
    <3>2. req'[w] = r
      BY <2>2, <3>1 DEF IInv, TypeOK
    <3> QED BY <1>2, <3>1, <3>2 DEF GoodRequest
  <2> QED BY <2>1, <2>2
<1> QED BY <1>1, <1>2 DEF RequestsPlaced, Placed

(* A request that ends, or that works on the order it was given, is good.  *)
LEMMA IdleIsGood == GoodRequest(Idle)
BY DEF GoodRequest, Requests, Idle

LEMMA OrderRequestIsGood ==
  ASSUME NEW o \in Orders, orders'[o] # NoRow,
         NEW at \in {"cancel", "reread", "rewrite", "reacquire", "session"}
  PROVE  GoodRequest([at |-> at, order |-> o])
BY DEF GoodRequest, Requests

(* A step that leaves the orders alone keeps the invariant when it keeps   *)
(* its parts about requests, stock and the cron.                           *)
LEMMA RowsUnchanged ==
  ASSUME IInv, TypeOK', RequestsPlaced', orders' = orders
  PROVE  IInv'
BY DEF IInv, CancelledIsReleased, NeverCancelledAndPaid

(* A step that writes the row of one placed order keeps the invariant when *)
(* the new row is not cancelled, or is cancelled, released and not paid.   *)
LEMMA RowWritten ==
  ASSUME IInv, NEW o \in Orders, Placed(o),
         NEW status, NEW payment, NEW released,
         RowBecomes(o, status, payment, released),
         status = "cancelled" => released /\ payment # "paid",
         stock' \in [Variants -> Nat],
         UNCHANGED <<sessions, callbacks, supply>>,
         byStaff' \subseteq byStaff \cup {o},
         todo' \in [Crons -> SUBSET Orders],
         \/ req' = req
         \/ \E w \in Workers, r \in Requests :
              GoodRequest(r) /\ req' = [req EXCEPT ![w] = r]
  PROVE  IInv'
<1>1. \A q \in Orders : orders[q] # NoRow => orders'[q] # NoRow
  BY AbsentRow DEF RowBecomes
<1>2. RequestsPlaced' /\ req' \in [Workers -> Requests]
  BY <1>1, RequestsStayPlaced
<1>3. TypeOK'
  BY <1>2 DEF IInv, TypeOK, RowBecomes, Rows
<1>4. CancelledIsReleased' /\ NeverCancelledAndPaid'
  BY DEF RowBecomes, IInv, CancelledIsReleased, NeverCancelledAndPaid
<1> QED BY <1>2, <1>3, <1>4 DEF IInv

--------------------------------------------------------------------------------
(* The actions that write an order's row or the stock. *)

LEMMA PlaceOrderCommitInv ==
  ASSUME IInv, NEW w \in Workers, PlaceOrderCommit(w)
  PROVE  IInv'
<1> USE DEF IInv
<1>1. req[w] \in [at : {"place"}, cart : Carts, method : Methods]
  BY DEF PlaceOrderCommit, TypeOK, Requests, Idle
<1>2. req' = [req EXCEPT ![w] = Idle] /\ UNCHANGED <<todo, sessions, callbacks, supply, byStaff>>
  BY DEF PlaceOrderCommit
<1>3. CASE UNCHANGED <<stock, orders>>
  <2>1. RequestsPlaced' /\ req' \in [Workers -> Requests]
    BY <1>2, <1>3, IdleIsGood, RequestsStayPlaced DEF GoodRequest
  <2>2. TypeOK'
    BY <1>2, <1>3, <2>1 DEF TypeOK
  <2> QED BY <1>3, <2>1, <2>2, RowsUnchanged
<1>4. CASE ~UNCHANGED <<stock, orders>>
  <2>1. InStock(req[w].cart) /\ DecrementStock(req[w].cart)
    BY <1>4 DEF PlaceOrderCommit
  <2>2. PICK o \in Orders :
          /\ ~Placed(o)
          /\ orders' = [orders EXCEPT ![o] =
               [status |-> "pending", payment |-> "pending",
                method |-> req[w].method, released |-> FALSE,
                aged |-> FALSE, items |-> req[w].cart]]
    BY <1>4 DEF PlaceOrderCommit
  <2>3. orders'[o] \in Row /\ orders'[o].status = "pending"
    BY <1>1, <2>2 DEF TypeOK, Row, Statuses, PaymentStatuses
  <2>4. \A q \in Orders : q # o => orders'[q] = orders[q]
    BY <2>2 DEF TypeOK
  <2>5. orders' \in [Orders -> Rows]
    BY <2>2, <2>3 DEF TypeOK, Rows
  <2>6. stock' \in [Variants -> Nat]
    <3>1. \A v \in Variants : req[w].cart[v] \in Nat
      BY <1>1, BoundsAssumption DEF Carts
    <3> QED BY <2>1, <3>1 DEF InStock, DecrementStock, TypeOK
  <2>7. \A q \in Orders : orders[q] # NoRow => orders'[q] # NoRow
    BY <2>3, <2>4, AbsentRow
  <2>8. RequestsPlaced' /\ req' \in [Workers -> Requests]
    BY <1>2, <2>7, IdleIsGood, RequestsStayPlaced DEF GoodRequest
  <2>9. TypeOK'
    BY <1>2, <2>5, <2>6, <2>8 DEF TypeOK, Rows
  <2>10. CancelledIsReleased' /\ NeverCancelledAndPaid'
    BY <2>3, <2>4 DEF CancelledIsReleased, NeverCancelledAndPaid
  <2> QED BY <2>8, <2>9, <2>10
<1> QED BY <1>3, <1>4

(* A request ends without touching an order. *)
LEMMA RequestEnds ==
  ASSUME IInv, NEW w \in Workers, req' = [req EXCEPT ![w] = Idle],
         todo' \in [Crons -> SUBSET Orders],
         UNCHANGED <<stock, orders, sessions, callbacks, supply, byStaff>>
  PROVE  IInv'
<1> USE DEF IInv
<1>1. RequestsPlaced' /\ req' \in [Workers -> Requests]
  BY IdleIsGood, RequestsStayPlaced DEF GoodRequest
<1>2. TypeOK'
  BY <1>1 DEF TypeOK
<1> QED BY <1>1, <1>2, RowsUnchanged

LEMMA CancelOrderCommitInv ==
  ASSUME IInv, NEW w \in Workers, CancelOrderCommit(w)
  PROVE  IInv'
<1> DEFINE o == req[w].order
<1>1. o \in Orders /\ Placed(o)
  BY RequestOrder DEF IInv, CancelOrderCommit
<1>2. /\ req' = [req EXCEPT ![w] = Idle]
      /\ UNCHANGED <<todo, sessions, callbacks, supply, byStaff>>
  BY DEF CancelOrderCommit
<1>3. CASE UNCHANGED <<stock, orders>>
  BY <1>2, <1>3, RequestEnds DEF IInv, TypeOK
<1>4. CASE ~UNCHANGED <<stock, orders>>
  <2>1. /\ orders[o].payment # "paid"
        /\ UpdateStatusAndRelease(o, "cancelled", orders[o].payment)
    BY <1>4 DEF CancelOrderCommit
  <2>2. orders[o].payment \in PaymentStatuses /\ "cancelled" \in Statuses
    BY <1>1, PlacedRow DEF IInv, Statuses
  <2>3. /\ RowBecomes(o, "cancelled", orders[o].payment, TRUE)
        /\ stock' \in [Variants -> Nat]
    BY <1>1, <2>1, <2>2, ReleaseRow DEF IInv
  <2>4. todo' \in [Crons -> SUBSET Orders]
    BY <1>2 DEF IInv, TypeOK
  <2>5. Idle \in Requests
    BY DEF Requests
  <2> HIDE DEF o
  <2> QED BY <1>1, <1>2, <2>1, <2>3, <2>4, <2>5, IdleIsGood, RowWritten
<1> QED BY <1>3, <1>4

(* The target values of an admin form are values of the columns. *)
LEMMA AdminTargets ==
  ASSUME IInv, NEW o \in Orders, Placed(o), NEW form \in AdminForms
  PROVE  /\ TargetStatus(o, form) \in Statuses
         /\ TargetPayment(o, form) \in PaymentStatuses
BY PlacedRow, AdminFormsAssumption DEF IInv, TargetStatus, TargetPayment

LEMMA AdminUpdateInv ==
  ASSUME IInv, NEW o \in Orders, NEW form \in AdminForms, AdminUpdate(o, form)
  PROVE  IInv'
<1>1. /\ Placed(o) /\ AdminRules(o, form)
      /\ UNCHANGED <<req, todo, sessions, callbacks, supply>>
      /\ byStaff' \subseteq byStaff \cup {o}
  BY DEF AdminUpdate, AdminCancel, AdminFail, AdminWrite
<1>2. /\ TargetStatus(o, form) \in Statuses
      /\ TargetPayment(o, form) \in PaymentStatuses
      /\ "cancelled" \in Statuses
      /\ "failed" \in PaymentStatuses
  BY <1>1, AdminTargets DEF Statuses, PaymentStatuses
<1>3. stock \in [Variants -> Nat] /\ todo' \in [Crons -> SUBSET Orders]
  BY <1>1 DEF IInv, TypeOK
<1>4. CASE AdminCancel(o, form)
  <2>1. TargetPayment(o, form) # "paid"
    BY <1>4 DEF AdminCancel, AdminRules, AdminCancels, TargetStatus, TargetPayment
  <2>2. /\ RowBecomes(o, "cancelled", TargetPayment(o, form), TRUE)
        /\ stock' \in [Variants -> Nat]
    BY <1>1, <1>2, <1>4, ReleaseRow DEF IInv, AdminCancel
  <2> QED BY <1>1, <1>3, <2>1, <2>2, RowWritten
<1>5. CASE AdminFail(o, form)
  <2>1. /\ RowBecomes(o, TargetStatus(o, form), "failed", TRUE)
        /\ stock' \in [Variants -> Nat]
    BY <1>1, <1>2, <1>5, ReleaseRow DEF IInv, AdminFail
  <2> QED BY <1>1, <1>3, <2>1, RowWritten
<1>6. CASE AdminWrite(o, form)
  <2>1. TargetStatus(o, form) = "cancelled" => orders[o].status = "cancelled"
    BY <1>6 DEF AdminWrite, AdminCancels
  <2>2. TargetStatus(o, form) = "cancelled" => orders[o].released
    BY <2>1 DEF IInv, CancelledIsReleased
  <2>3. TargetStatus(o, form) = "cancelled" => TargetPayment(o, form) # "paid"
    BY <1>1, <2>1
       DEF IInv, NeverCancelledAndPaid, AdminRules, TargetPayment, Keep
  <2>4. /\ RowBecomes(o, TargetStatus(o, form), TargetPayment(o, form), orders[o].released)
        /\ stock' = stock
    BY <1>1, <1>2, <1>6, UpdateStatusRow DEF IInv, AdminWrite
  <2> QED BY <1>1, <1>3, <2>2, <2>3, <2>4, RowWritten
<1> QED BY <1>4, <1>5, <1>6 DEF AdminUpdate

LEMMA ReacquireInv ==
  ASSUME IInv, NEW w \in Workers, Reacquire(w)
  PROVE  IInv'
<1> DEFINE o == req[w].order
           continued == [req[w] EXCEPT !.at = "session"]
<1>1. o \in Orders /\ Placed(o) /\ orders[o] \in Row
  BY RequestOrder, PlacedRow DEF IInv, Reacquire
<1>2. UNCHANGED <<todo, sessions, callbacks, supply, byStaff>>
  BY DEF Reacquire
<1>3. continued = [at |-> "session", order |-> o]
  <2>1. req[w] \in Requests /\ req[w].at = "reacquire"
    BY DEF IInv, TypeOK, Reacquire
  <2>2. req[w] \in [at : {"cancel", "reread", "rewrite", "reacquire", "session"},
                    order : Orders]
    BY <2>1 DEF Requests, Idle
  <2> QED BY <2>2
<1>4. req' = [req EXCEPT ![w] = Idle] \/ req' = [req EXCEPT ![w] = continued]
  <2>1. req' = [req EXCEPT ![w].at = "session"] =>
           req' = [req EXCEPT ![w] = continued]
    BY DEF IInv, TypeOK
  <2> QED BY <2>1 DEF Reacquire
<1>5. stock \in [Variants -> Nat] /\ todo' \in [Crons -> SUBSET Orders]
  BY <1>2 DEF IInv, TypeOK
<1>6. CASE UNCHANGED <<stock, orders>>
  <2>1. orders'[o] # NoRow
    BY <1>1, <1>6 DEF Placed
  <2>2. GoodRequest(continued) /\ GoodRequest(Idle)
    BY <1>1, <1>3, <2>1, OrderRequestIsGood, IdleIsGood
  <2>3. \E r \in Requests : GoodRequest(r) /\ req' = [req EXCEPT ![w] = r]
    BY <1>4, <2>2 DEF GoodRequest
  <2>4. RequestsPlaced' /\ req' \in [Workers -> Requests]
    BY <1>6, <2>3, RequestsStayPlaced
  <2>5. TypeOK'
    BY <1>2, <1>6, <2>4 DEF IInv, TypeOK
  <2> QED BY <1>6, <2>4, <2>5, RowsUnchanged
<1>7. CASE ~UNCHANGED <<stock, orders>>
  <2>1. /\ orders[o].status = "pending"
        /\ InStock(orders[o].items)
        /\ DecrementStock(orders[o].items)
        /\ orders' = [orders EXCEPT ![o].released = FALSE]
        /\ req' = [req EXCEPT ![w].at = "session"]
    BY <1>7 DEF Reacquire
  <2>2. RowBecomes(o, "pending", orders[o].payment, FALSE)
    BY <1>1, <2>1 DEF IInv, TypeOK, RowBecomes, Rows, Row
  <2>3. stock' \in [Variants -> Nat]
    <3>1. \A v \in Variants : orders[o].items[v] \in Nat
      BY <1>1, BoundsAssumption DEF Row, Carts
    <3> QED BY <2>1, <3>1, <1>5 DEF InStock, DecrementStock
  <2>4. orders'[o] # NoRow
    BY <2>2, AbsentRow DEF RowBecomes
  <2>5. GoodRequest(continued) /\ req' = [req EXCEPT ![w] = continued]
    BY <1>1, <1>3, <2>1, <2>4, OrderRequestIsGood DEF IInv, TypeOK
  <2>6. \E x \in Workers, r \in Requests :
          GoodRequest(r) /\ req' = [req EXCEPT ![x] = r]
    BY <2>5 DEF GoodRequest
  <2> HIDE DEF o
  <2> QED BY <1>1, <1>2, <1>5, <2>2, <2>3, <2>6, RowWritten
<1> QED BY <1>6, <1>7

LEMMA CallbackPaidInv ==
  ASSUME IInv, NEW o \in Orders, CallbackPaid(o)
  PROVE  IInv'
<1>1. /\ Placed(o)
      /\ orders[o].status # "cancelled"
      /\ UNCHANGED <<req, todo, sessions, callbacks, supply, byStaff>>
  BY AbsentRow DEF CallbackPaid, Placed
<1>2. orders[o].status \in Statuses /\ "paid" \in PaymentStatuses
  BY <1>1, PlacedRow DEF IInv, PaymentStatuses
<1>3. /\ RowBecomes(o, orders[o].status, "paid", orders[o].released)
      /\ stock' = stock
  BY <1>1, <1>2, UpdateStatusRow DEF IInv, CallbackPaid
<1>4. stock \in [Variants -> Nat] /\ todo' \in [Crons -> SUBSET Orders]
  BY <1>1 DEF IInv, TypeOK
<1> QED BY <1>1, <1>3, <1>4, RowWritten

LEMMA CallbackFailedInv ==
  ASSUME IInv, NEW w \in Workers, NEW o \in Orders, CallbackFailed(w, o)
  PROVE  IInv'
<1> DEFINE r == [at |-> "reread", order |-> o]
<1>1. /\ Placed(o)
      /\ req' = [req EXCEPT ![w] = r]
      /\ UNCHANGED <<todo, sessions, callbacks, supply, byStaff>>
  BY AbsentRow DEF CallbackFailed, Placed
<1>2. orders[o].status \in Statuses /\ "failed" \in PaymentStatuses
  BY <1>1, PlacedRow DEF IInv, PaymentStatuses
<1>3. CASE UpdateStatusAndRelease(o, orders[o].status, "failed")
  <2>1. /\ RowBecomes(o, orders[o].status, "failed", TRUE)
        /\ stock' \in [Variants -> Nat]
    BY <1>1, <1>2, <1>3, ReleaseRow DEF IInv
  <2>2. GoodRequest(r)
    BY <2>1, AbsentRow, OrderRequestIsGood DEF RowBecomes
  <2>3. \E x \in Workers, s \in Requests :
          GoodRequest(s) /\ req' = [req EXCEPT ![x] = s]
    BY <1>1, <2>2 DEF GoodRequest
  <2>4. todo' \in [Crons -> SUBSET Orders]
    BY <1>1 DEF IInv, TypeOK
  <2> QED BY <1>1, <2>1, <2>3, <2>4, RowWritten
<1>4. CASE UNCHANGED <<stock, orders>>
  <2>1. GoodRequest(r)
    BY <1>1, <1>4, OrderRequestIsGood DEF Placed
  <2>2. RequestsPlaced' /\ req' \in [Workers -> Requests]
    BY <1>1, <1>4, <2>1, RequestsStayPlaced DEF GoodRequest
  <2>3. TypeOK'
    BY <1>1, <1>4, <2>2 DEF IInv, TypeOK
  <2> QED BY <1>4, <2>2, <2>3, RowsUnchanged
<1> QED BY <1>3, <1>4 DEF CallbackFailed

LEMMA CallbackRewriteInv ==
  ASSUME IInv, NEW w \in Workers, CallbackRewrite(w)
  PROVE  IInv'
<1> DEFINE o == req[w].order
<1>1. o \in Orders /\ Placed(o)
  BY RequestOrder DEF IInv, CallbackRewrite
<1>2. /\ req' = [req EXCEPT ![w] = Idle]
      /\ UNCHANGED <<todo, sessions, callbacks, supply, byStaff>>
  BY DEF CallbackRewrite
<1>3. orders[o].status \in Statuses /\ "failed" \in PaymentStatuses
  BY <1>1, PlacedRow DEF IInv, PaymentStatuses
<1>4. /\ RowBecomes(o, orders[o].status, "failed", orders[o].released)
      /\ stock' = stock
  BY <1>1, <1>3, UpdateStatusRow DEF IInv, CallbackRewrite
<1>5. orders[o].status = "cancelled" => orders[o].released
  BY <1>1 DEF IInv, CancelledIsReleased
<1>6. stock \in [Variants -> Nat] /\ todo' \in [Crons -> SUBSET Orders]
  BY <1>2 DEF IInv, TypeOK
<1>7. \E x \in Workers, r \in Requests :
        GoodRequest(r) /\ req' = [req EXCEPT ![x] = r]
  BY <1>2, IdleIsGood DEF GoodRequest
<1> HIDE DEF o
<1> QED BY <1>1, <1>2, <1>4, <1>5, <1>6, <1>7, RowWritten

LEMMA ExpireStaleCardOrderInv ==
  ASSUME IInv, NEW c \in Crons, NEW o \in Orders, ExpireStaleCardOrder(c, o)
  PROVE  IInv'
<1>1. /\ todo' = [todo EXCEPT ![c] = @ \ {o}]
      /\ UNCHANGED <<req, sessions, callbacks, supply, byStaff>>
  BY DEF ExpireStaleCardOrder
<1>2. todo' \in [Crons -> SUBSET Orders]
  BY <1>1 DEF IInv, TypeOK
<1>3. CASE Stale(o)
  <2>1. Placed(o)
    BY <1>3, AbsentRow DEF Stale, Placed
  <2>2. "cancelled" \in Statuses /\ "failed" \in PaymentStatuses
    BY DEF Statuses, PaymentStatuses
  <2>3. /\ RowBecomes(o, "cancelled", "failed", TRUE)
        /\ stock' \in [Variants -> Nat]
    BY <1>3, <2>1, <2>2, ReleaseRow DEF IInv, ExpireStaleCardOrder
  <2> QED BY <1>1, <1>2, <2>1, <2>3, RowWritten
<1>4. CASE ~Stale(o)
  <2>1. UNCHANGED <<stock, orders>>
    BY <1>4 DEF ExpireStaleCardOrder
  <2>2. TypeOK' /\ RequestsPlaced'
    BY <1>1, <1>2, <2>1 DEF IInv, TypeOK, RequestsPlaced, Placed
  <2> QED BY <2>1, <2>2, RowsUnchanged
<1> QED BY <1>3, <1>4

LEMMA AgeInv ==
  ASSUME IInv, NEW o \in Orders, Age(o)
  PROVE  IInv'
<1>1. /\ Placed(o)
      /\ UNCHANGED <<stock, req, todo, sessions, callbacks, supply, byStaff>>
  BY DEF Age
<1>2. orders[o] \in Row
  BY <1>1, PlacedRow DEF IInv
<1>3. RowBecomes(o, orders[o].status, orders[o].payment, orders[o].released)
  BY <1>2 DEF IInv, TypeOK, Age, RowBecomes, Rows, Row
<1>4. orders[o].status = "cancelled" => orders[o].released /\ orders[o].payment # "paid"
  BY DEF IInv, CancelledIsReleased, NeverCancelledAndPaid
<1>5. stock' \in [Variants -> Nat] /\ todo' \in [Crons -> SUBSET Orders]
  BY <1>1 DEF IInv, TypeOK
<1> QED BY <1>1, <1>3, <1>4, <1>5, RowWritten

(* A request starts, reads or ends, and leaves orders and stock alone. *)
LEMMA RequestMoves ==
  ASSUME IInv, NEW w \in Workers, NEW r \in Requests,
         r.at \notin {"idle", "place"} => Placed(r.order),
         req' = [req EXCEPT ![w] = r],
         sessions' \in SUBSET Orders,
         UNCHANGED <<stock, orders, todo, callbacks, supply, byStaff>>
  PROVE  IInv'
<1>1. GoodRequest(r)
  BY DEF GoodRequest, Placed
<1>2. RequestsPlaced' /\ req' \in [Workers -> Requests]
  BY <1>1, RequestsStayPlaced
<1>3. TypeOK'
  BY <1>2 DEF IInv, TypeOK
<1> QED BY <1>2, <1>3, RowsUnchanged

(* Only callbacks, stock counts, sessions or candidates change. *)
LEMMA SurroundingsMove ==
  ASSUME IInv, UNCHANGED <<orders, req, byStaff>>,
         stock' \in [Variants -> Nat],
         todo' \in [Crons -> SUBSET Orders],
         sessions' \in SUBSET Orders,
         callbacks' \in SUBSET (Orders \X {"paid", "failed"}),
         supply' \in [Variants -> Int]
  PROVE  IInv'
<1>1. TypeOK' /\ RequestsPlaced'
  BY DEF IInv, TypeOK, RequestsPlaced, Placed
<1> QED BY <1>1, RowsUnchanged

--------------------------------------------------------------------------------
LEMMA InvInit == Init => IInv
<1> SUFFICES ASSUME Init PROVE IInv
  OBVIOUS
<1>1. TypeOK
  BY BoundsAssumption DEF Init, TypeOK, Requests
<1>2. RequestsPlaced
  BY DEF Init, RequestsPlaced, Idle
<1>3. CancelledIsReleased /\ NeverCancelledAndPaid
  BY AbsentRow DEF Init, CancelledIsReleased, NeverCancelledAndPaid
<1> QED BY <1>1, <1>2, <1>3 DEF IInv

LEMMA InvStep == IInv /\ [Next]_vars => IInv'
<1> SUFFICES ASSUME IInv, [Next]_vars PROVE IInv'
  OBVIOUS
<1>0. /\ stock \in [Variants -> Nat]
      /\ todo \in [Crons -> SUBSET Orders]
      /\ sessions \in SUBSET Orders
      /\ callbacks \in SUBSET (Orders \X {"paid", "failed"})
      /\ supply \in [Variants -> Int]
  BY DEF IInv, TypeOK
<1>1. ASSUME NEW w \in Workers, NEW cart \in Carts, NEW method \in Methods,
             PlaceOrder(w, cart, method)
      PROVE  IInv'
  <2> DEFINE r == [at |-> "place", cart |-> cart, method |-> method]
  <2>1. r \in Requests /\ r.at = "place"
    BY DEF Requests
  <2> QED BY <1>0, <1>1, <2>1, RequestMoves DEF PlaceOrder
<1>2. ASSUME NEW w \in Workers, PlaceOrderCommit(w) PROVE IInv'
  BY <1>2, PlaceOrderCommitInv
<1>3. ASSUME NEW w \in Workers, NEW o \in Orders, CancelOrder(w, o) PROVE IInv'
  <2> DEFINE r == [at |-> "cancel", order |-> o]
  <2>1. r \in Requests /\ Placed(r.order)
    BY <1>3 DEF Requests, CancelOrder
  <2> QED BY <1>0, <1>3, <2>1, RequestMoves DEF CancelOrder
<1>4. ASSUME NEW w \in Workers, CancelOrderCommit(w) PROVE IInv'
  BY <1>4, CancelOrderCommitInv
<1>5. ASSUME NEW o \in Orders, NEW form \in AdminForms, AdminUpdate(o, form)
      PROVE  IInv'
  BY <1>5, AdminUpdateInv
<1>6. ASSUME NEW v \in Variants, NEW n \in 0..MaxStock, UpdateVariant(v, n)
      PROVE  IInv'
  <2>1. stock' \in [Variants -> Nat] /\ supply' \in [Variants -> Int]
    BY <1>0, <1>6, BoundsAssumption DEF UpdateVariant
  <2> QED BY <1>0, <1>6, <2>1, SurroundingsMove DEF UpdateVariant
<1>7. ASSUME NEW w \in Workers, NEW o \in Orders, Initiate(w, o) PROVE IInv'
  <2> DEFINE r == [at |-> IF orders[o].payment = "failed" THEN "reacquire"
                          ELSE "session",
                   order |-> o]
  <2>1. r \in Requests /\ Placed(r.order) /\ req' = [req EXCEPT ![w] = r]
    BY <1>7 DEF Requests, Initiate
  <2> HIDE DEF r
  <2> QED BY <1>0, <1>7, <2>1, RequestMoves DEF Initiate
<1>8. ASSUME NEW w \in Workers, Reacquire(w) PROVE IInv'
  BY <1>8, ReacquireInv
<1>9. ASSUME NEW w \in Workers, StartSession(w) PROVE IInv'
  <2>1. req[w].order \in Orders
    BY <1>9, RequestOrder DEF IInv, StartSession
  <2>2. Idle \in Requests /\ Idle.at = "idle" /\ sessions' \in SUBSET Orders
    BY <1>0, <1>9, <2>1 DEF Requests, Idle, StartSession
  <2> QED BY <1>9, <2>2, RequestMoves DEF StartSession
<1>10. ASSUME NEW o \in Orders, NEW result \in {"paid", "failed"},
              GatewaySettles(o, result)
       PROVE  IInv'
  BY <1>0, <1>10, SurroundingsMove DEF GatewaySettles
<1>11. ASSUME NEW o \in Orders, CallbackPaid(o) PROVE IInv'
  BY <1>11, CallbackPaidInv
<1>12. ASSUME NEW w \in Workers, NEW o \in Orders, CallbackFailed(w, o) PROVE IInv'
  BY <1>12, CallbackFailedInv
<1>13. ASSUME NEW w \in Workers, CallbackReread(w) PROVE IInv'
  <2>1. CASE orders[req[w].order].payment = "failed"
    <3>1. req' = [req EXCEPT ![w] = Idle]
      BY <1>13, <2>1 DEF CallbackReread, IInv, TypeOK
    <3> QED BY <1>0, <1>13, <3>1, RequestEnds DEF CallbackReread
  <2>2. CASE orders[req[w].order].payment # "failed"
    <3> DEFINE r == [req[w] EXCEPT !.at = "rewrite"]
    <3>1. req' = [req EXCEPT ![w] = r]
      BY <1>13, <2>2 DEF CallbackReread, IInv, TypeOK
    <3>2. req[w].order \in Orders /\ Placed(req[w].order)
      BY <1>13, RequestOrder DEF IInv, CallbackReread
    <3>3. r = [at |-> "rewrite", order |-> req[w].order]
      <4>1. req[w] \in Requests /\ req[w].at = "reread"
        BY <1>13 DEF IInv, TypeOK, CallbackReread
      <4>2. req[w] \in [at : {"cancel", "reread", "rewrite", "reacquire", "session"},
                        order : Orders]
        BY <4>1 DEF Requests, Idle
      <4> QED BY <4>2
    <3>4. r \in Requests /\ Placed(r.order)
      BY <3>2, <3>3 DEF Requests
    <3> HIDE DEF r
    <3> QED BY <1>0, <1>13, <3>1, <3>4, RequestMoves DEF CallbackReread
  <2> QED BY <2>1, <2>2
<1>14. ASSUME NEW w \in Workers, CallbackRewrite(w) PROVE IInv'
  BY <1>14, CallbackRewriteInv
<1>15. ASSUME NEW c \in Crons, CronSelect(c) PROVE IInv'
  <2>1. todo' \in [Crons -> SUBSET Orders]
    BY <1>0, <1>15 DEF CronSelect, StaleOrders
  <2> QED BY <1>0, <1>15, <2>1, SurroundingsMove DEF CronSelect
<1>16. ASSUME NEW c \in Crons, NEW o \in Orders, ExpireStaleCardOrder(c, o) PROVE IInv'
  BY <1>16, ExpireStaleCardOrderInv
<1>17. ASSUME NEW c \in Crons, NEW o \in Orders, ExpireError(c, o) PROVE IInv'
  <2>1. todo' \in [Crons -> SUBSET Orders]
    BY <1>0, <1>17 DEF ExpireError
  <2> QED BY <1>0, <1>17, <2>1, SurroundingsMove DEF ExpireError
<1>18. ASSUME NEW o \in Orders, Age(o) PROVE IInv'
  BY <1>18, AgeInv
<1>19. ASSUME NEW w \in Workers, RequestDies(w) PROVE IInv'
  BY <1>0, <1>19, RequestEnds DEF RequestDies
<1>20. ASSUME NEW c \in Crons, CronDies(c) PROVE IInv'
  <2>1. todo' \in [Crons -> SUBSET Orders]
    BY <1>0, <1>20 DEF CronDies
  <2> QED BY <1>0, <1>20, <2>1, SurroundingsMove DEF CronDies
<1>21. CASE UNCHANGED vars
  BY <1>0, <1>21, SurroundingsMove DEF vars
<1> QED BY <1>1, <1>2, <1>3, <1>4, <1>5, <1>6, <1>7, <1>8, <1>9, <1>10, <1>11, <1>12,
           <1>13, <1>14, <1>15, <1>16, <1>17, <1>18, <1>19, <1>20, <1>21 DEF Next

(***************************************************************************)
(* The inductive invariant holds: in particular an order is never          *)
(* cancelled and paid at once, and a cancelled order has given its stock   *)
(* back, however requests, staff, callbacks and cron interleave.           *)
(***************************************************************************)
THEOREM Invariance == Spec => []IInv
BY InvInit, InvStep, PTL DEF Spec

(* An order is never cancelled and paid at once. *)
THEOREM CancelledNeverPaid == Spec => []NeverCancelledAndPaid
<1>1. IInv => NeverCancelledAndPaid
  BY DEF IInv
<1> QED BY <1>1, Invariance, PTL

(* A cancelled order has given its stock back and never takes it again. *)
THEOREM CancelledReleased == Spec => []CancelledIsReleased
<1>1. IInv => CancelledIsReleased
  BY DEF IInv
<1> QED BY <1>1, Invariance, PTL

--------------------------------------------------------------------------------
(* Refinement: every step is a step of Reservation or leaves what orders   *)
(* hold, the shelf and the supply alone.                                   *)

held == [o \in Orders |-> Held(o)]

(* What an order holds depends on its marker and its items only. *)
LEMMA SameHoldings ==
  ASSUME \A o \in Orders : /\ orders'[o].released = orders[o].released
                           /\ orders'[o].items = orders[o].items
  PROVE  held' = held
BY DEF held, Held

(* A step that sets status columns and leaves the marker changes nothing   *)
(* that Reservation sees.                                                  *)
LEMMA UpdateStatusStutters ==
  ASSUME TypeOK, NEW o \in Orders, NEW status, NEW payment,
         Placed(o), UpdateStatus(o, status, payment)
  PROVE  held' = held /\ stock' = stock
<1>1. orders[o] \in Row
  BY PlacedRow
<1>2. \A q \in Orders : /\ orders'[q].released = orders[q].released
                        /\ orders'[q].items = orders[q].items
  BY <1>1 DEF TypeOK, UpdateStatus, Row
<1> QED BY <1>2, SameHoldings DEF UpdateStatus

(* Setting the marker with the stock increments is Reservation's Release. *)
LEMMA ReleaseRefines ==
  ASSUME TypeOK, NEW o \in Orders, NEW status, NEW payment,
         Placed(o), UpdateStatusAndRelease(o, status, payment),
         UNCHANGED supply
  PROVE  R!Release(o)
<1>1. orders[o] \in Row
  BY PlacedRow
<1>2. orders'[o].released = TRUE /\ orders'[o].items = orders[o].items
  BY <1>1 DEF TypeOK, UpdateStatusAndRelease, Row
<1>3. \A q \in Orders : q # o => orders'[q] = orders[q]
  BY DEF TypeOK, UpdateStatusAndRelease
<1>4. held' = [held EXCEPT ![o] = NoUnits]
  BY <1>2, <1>3 DEF held, Held
<1>5. stock' = [v \in Variants |-> stock[v] + held[o][v]]
  BY DEF UpdateStatusAndRelease, held, Held
<1> QED BY <1>4, <1>5 DEF R!Release, R!NoUnits, NoUnits, held

(* The stutters and the releases, put in the form the step needs. *)
LEMMA StutterStep ==
  ASSUME held' = held, UNCHANGED <<stock, supply>>
  PROVE  [R!Next]_R!vars
BY DEF R!vars, held

LEMMA UntouchedStep ==
  ASSUME UNCHANGED <<stock, orders, supply>>
  PROVE  [R!Next]_R!vars
<1>1. held' = held
  BY SameHoldings
<1> QED BY <1>1, StutterStep

LEMMA ReleaseStep ==
  ASSUME TypeOK, NEW o \in Orders, NEW status, NEW payment,
         Placed(o), UpdateStatusAndRelease(o, status, payment),
         UNCHANGED supply
  PROVE  [R!Next]_R!vars
BY ReleaseRefines DEF R!Next

LEMMA WriteStep ==
  ASSUME TypeOK, NEW o \in Orders, NEW status, NEW payment,
         Placed(o), UpdateStatus(o, status, payment),
         UNCHANGED supply
  PROVE  [R!Next]_R!vars
BY UpdateStatusStutters, StutterStep

LEMMA PlaceOrderCommitRefines ==
  ASSUME IInv, NEW w \in Workers, PlaceOrderCommit(w)
  PROVE  [R!Next]_R!vars
<1>1. CASE UNCHANGED <<stock, orders>>
  BY <1>1, UntouchedStep DEF PlaceOrderCommit
<1>2. CASE ~UNCHANGED <<stock, orders>>
  <2> DEFINE cart == req[w].cart
  <2>1. cart \in Carts
    BY DEF IInv, TypeOK, PlaceOrderCommit, Requests, Idle
  <2>2. PICK o \in Orders :
          /\ ~Placed(o)
          /\ orders' = [orders EXCEPT ![o] =
               [status |-> "pending", payment |-> "pending",
                method |-> req[w].method, released |-> FALSE,
                aged |-> FALSE, items |-> cart]]
    BY <1>2 DEF PlaceOrderCommit
  <2>3. InStock(cart) /\ DecrementStock(cart) /\ UNCHANGED supply
    BY <1>2 DEF PlaceOrderCommit
  <2> HIDE DEF cart
  <2>4. held[o] = NoUnits
    BY <2>2, AbsentRow DEF held, Held, Placed
  <2>5. held' = [held EXCEPT ![o] = cart]
    BY <2>2 DEF held, Held, IInv, TypeOK
  <2>6. R!Reserve(o, cart)
    BY <2>3, <2>4, <2>5
       DEF R!Reserve, R!NoUnits, NoUnits, held, InStock, DecrementStock
  <2> QED BY <2>1, <2>6 DEF R!Next
<1> QED BY <1>1, <1>2

LEMMA ReacquireRefines ==
  ASSUME IInv, NEW w \in Workers, Reacquire(w)
  PROVE  [R!Next]_R!vars
<1>1. CASE UNCHANGED <<stock, orders>>
  BY <1>1, UntouchedStep DEF Reacquire
<1>2. CASE ~UNCHANGED <<stock, orders>>
  <2> DEFINE o == req[w].order
             cart == orders[o].items
  <2>1. o \in Orders /\ Placed(o)
    BY RequestOrder DEF IInv, Reacquire
  <2>2. cart \in Carts /\ orders[o] \in Row
    BY <2>1, PlacedRow DEF IInv
  <2>3. /\ orders[o].released
        /\ InStock(cart)
        /\ DecrementStock(cart)
        /\ orders' = [orders EXCEPT ![o].released = FALSE]
        /\ UNCHANGED supply
    BY <1>2 DEF Reacquire
  <2>4. held[o] = NoUnits
    BY <2>1, <2>3 DEF held, Held
  <2>5. orders'[o].released = FALSE /\ orders'[o].items = cart
    BY <2>1, <2>2, <2>3 DEF IInv, TypeOK, Row
  <2>6. \A q \in Orders : q # o => orders'[q] = orders[q]
    BY <2>3 DEF IInv, TypeOK
  <2> HIDE DEF o, cart
  <2>7. held' = [held EXCEPT ![o] = cart]
    BY <2>1, <2>5, <2>6 DEF held, Held
  <2>8. R!Reserve(o, cart)
    BY <2>3, <2>4, <2>7
       DEF R!Reserve, R!NoUnits, NoUnits, held, InStock, DecrementStock
  <2> QED BY <2>1, <2>2, <2>8 DEF R!Next
<1> QED BY <1>1, <1>2

LEMMA RefineInit == Init => R!Init
<1> SUFFICES ASSUME Init PROVE R!Init
  OBVIOUS
<1>1. held = [o \in Orders |-> NoUnits]
  BY AbsentRow DEF Init, held, Held
<1> QED BY <1>1 DEF Init, R!Init, R!NoUnits, NoUnits, held

LEMMA RefineStep == IInv /\ [Next]_vars => [R!Next]_R!vars
<1> SUFFICES ASSUME IInv, [Next]_vars PROVE [R!Next]_R!vars
  OBVIOUS
<1>0. TypeOK
  BY DEF IInv
<1>1. ASSUME NEW w \in Workers, PlaceOrderCommit(w) PROVE [R!Next]_R!vars
  BY <1>1, PlaceOrderCommitRefines
<1>2. ASSUME NEW w \in Workers, CancelOrderCommit(w) PROVE [R!Next]_R!vars
  <2>1. req[w].order \in Orders /\ Placed(req[w].order)
    BY <1>2, RequestOrder DEF IInv, CancelOrderCommit
  <2> QED BY <1>0, <1>2, <2>1, ReleaseStep, UntouchedStep DEF CancelOrderCommit
<1>3. ASSUME NEW o \in Orders, NEW form \in AdminForms, AdminUpdate(o, form)
      PROVE  [R!Next]_R!vars
  <2>1. Placed(o) /\ UNCHANGED supply
    BY <1>3 DEF AdminUpdate, AdminCancel, AdminFail, AdminWrite
  <2>2. CASE AdminCancel(o, form)
    BY <1>0, <2>1, <2>2, ReleaseStep DEF AdminCancel
  <2>3. CASE AdminFail(o, form)
    BY <1>0, <2>1, <2>3, ReleaseStep DEF AdminFail
  <2>4. CASE AdminWrite(o, form)
    BY <1>0, <2>1, <2>4, WriteStep DEF AdminWrite
  <2> QED BY <1>3, <2>2, <2>3, <2>4 DEF AdminUpdate
<1>4. ASSUME NEW v \in Variants, NEW n \in 0..MaxStock, UpdateVariant(v, n)
      PROVE  [R!Next]_R!vars
  <2>1. held' = held
    BY <1>4, SameHoldings DEF UpdateVariant
  <2>2. R!Recount(v, n)
    BY <1>4, <2>1 DEF UpdateVariant, R!Recount, held
  <2> QED BY <2>2 DEF R!Next
<1>5. ASSUME NEW w \in Workers, Reacquire(w) PROVE [R!Next]_R!vars
  BY <1>5, ReacquireRefines
<1>6. ASSUME NEW o \in Orders, CallbackPaid(o) PROVE [R!Next]_R!vars
  <2>1. Placed(o)
    BY <1>6, AbsentRow DEF CallbackPaid, Placed
  <2> QED BY <1>0, <1>6, <2>1, WriteStep DEF CallbackPaid
<1>7. ASSUME NEW w \in Workers, NEW o \in Orders, CallbackFailed(w, o)
      PROVE  [R!Next]_R!vars
  <2>1. Placed(o)
    BY <1>7, AbsentRow DEF CallbackFailed, Placed
  <2> QED BY <1>0, <1>7, <2>1, ReleaseStep, UntouchedStep DEF CallbackFailed
<1>8. ASSUME NEW w \in Workers, CallbackRewrite(w) PROVE [R!Next]_R!vars
  <2>1. req[w].order \in Orders /\ Placed(req[w].order)
    BY <1>8, RequestOrder DEF IInv, CallbackRewrite
  <2> QED BY <1>0, <1>8, <2>1, WriteStep DEF CallbackRewrite
<1>9. ASSUME NEW c \in Crons, NEW o \in Orders, ExpireStaleCardOrder(c, o)
      PROVE  [R!Next]_R!vars
  <2>1. CASE Stale(o)
    <3>1. Placed(o)
      BY <2>1, AbsentRow DEF Stale, Placed
    <3> QED BY <1>0, <1>9, <2>1, <3>1, ReleaseStep DEF ExpireStaleCardOrder
  <2>2. CASE ~Stale(o)
    BY <1>9, <2>2, UntouchedStep DEF ExpireStaleCardOrder
  <2> QED BY <2>1, <2>2
<1>10. ASSUME NEW o \in Orders, Age(o) PROVE [R!Next]_R!vars
  <2>1. orders[o] \in Row
    BY <1>0, <1>10, PlacedRow DEF Age
  <2>2. held' = held
    BY <1>10, <2>1, SameHoldings DEF IInv, TypeOK, Age, Row
  <2> QED BY <1>10, <2>2, StutterStep DEF Age
<1>11. CASE UNCHANGED <<stock, orders, supply>>
  BY <1>11, UntouchedStep
<1> QED BY <1>1, <1>2, <1>3, <1>4, <1>5, <1>6, <1>7, <1>8, <1>9, <1>10, <1>11
        DEF Next, vars, PlaceOrder, CancelOrder, Initiate, StartSession, GatewaySettles,
            CallbackReread, CronSelect, ExpireError, RequestDies, CronDies

(***************************************************************************)
(* The order subsystem implements the reservation promise, for every       *)
(* interleaving and any number of orders.                                  *)
(***************************************************************************)
THEOREM Refinement == Spec => ReservationSpec
BY RefineInit, RefineStep, Invariance, PTL DEF Spec, ReservationSpec, R!Spec

(* Reservation's theorems, for the mapping above. *)
RP == INSTANCE Reservation_proofs

(***************************************************************************)
(* The shelf and the unreleased orders account for every unit: no          *)
(* interleaving loses a unit of stock or restores one twice.               *)
(***************************************************************************)
THEOREM Conservation == Spec => []StockConserved
<1>1. RP!Spec => []RP!StockConserved
  <2>1. RP!IsFiniteSet(Orders)
    BY OrdersAssumption DEF IsFiniteSet, RP!IsFiniteSet
  <2>2. MaxQuantity \in Nat /\ MaxStock \in Nat
    BY BoundsAssumption
  <2>3. Carts \subseteq [Variants -> 0..MaxQuantity]
    BY DEF Carts
  <2> QED BY <2>1, <2>2, <2>3, RP!Conserved, PTL
<1>2. R!Init <=> RP!Init
  BY DEF R!Init, RP!Init, R!NoUnits, RP!NoUnits, held
<1>3. [R!Next]_R!vars <=> [RP!Next]_RP!vars
  BY DEF R!Next, RP!Next, R!vars, RP!vars, R!Reserve, RP!Reserve, R!Release, RP!Release,
         R!Recount, RP!Recount, R!NoUnits, RP!NoUnits, held
<1>4. RP!StockConserved <=> StockConserved
  BY DEF StockConserved, R!StockConserved, RP!StockConserved,
         R!HeldUnits, RP!HeldUnits, held, R!Cardinality, RP!Cardinality
<1> QED BY <1>1, <1>2, <1>3, <1>4, Refinement, PTL DEF ReservationSpec, R!Spec, RP!Spec

--------------------------------------------------------------------------------
(* Paid orders. *)

(* What a step may do to the payment and the marker of order o. *)
RowKept(o) ==
  orders'[o].payment = orders[o].payment /\ orders'[o].released = orders[o].released
RowInserted(o) ==
  orders'[o].payment = "pending" /\ ~orders'[o].released
RowGivenBack(o) ==
  /\ Placed(o)
  /\ orders[o].payment # "paid" /\ ~orders[o].released
  /\ orders'[o].payment # "paid" /\ orders'[o].released
  /\ \/ orders'[o].payment \in {orders[o].payment, "failed"}
     \/ o \in byStaff'
RowRetaken(o) ==
  /\ orders[o].payment = "failed" /\ orders[o].released
  /\ orders'[o].payment = "failed" /\ ~orders'[o].released
RowApproved(o) ==
  /\ <<o, "paid">> \in callbacks
  /\ orders[o].payment = "pending" /\ ~orders[o].released
  /\ orders'[o].payment = "paid" /\ ~orders'[o].released
RowRewritten(o) ==
  /\ \E w \in Workers : req[w].at = "rewrite" /\ req[w].order = o
  /\ orders'[o].payment = "failed" /\ orders'[o].released = orders[o].released
RowSetByStaff(o) ==
  o \in byStaff' /\ orders'[o].released = orders[o].released

RowStep(o) ==
  \/ RowKept(o)
  \/ orders[o] = NoRow /\ RowInserted(o)
  \/ RowGivenBack(o)
  \/ RowRetaken(o)
  \/ RowApproved(o)
  \/ RowRewritten(o)
  \/ RowSetByStaff(o)

LEMMA RowStepOfWrite ==
  ASSUME NEW o \in Orders, NEW status, NEW payment, NEW released,
         RowBecomes(o, status, payment, released), RowStep(o)
  PROVE  \A q \in Orders : RowStep(q)
BY DEF RowBecomes, RowStep, RowKept

(* Every step does one of these to every order. *)
LEMMA RowSteps == IInv /\ [Next]_vars => \A o \in Orders : RowStep(o)
<1> SUFFICES ASSUME IInv, [Next]_vars PROVE \A o \in Orders : RowStep(o)
  OBVIOUS
<1>0. TypeOK /\ "cancelled" \in Statuses /\ {"paid", "failed"} \subseteq PaymentStatuses
  BY DEF IInv, Statuses, PaymentStatuses
<1>1. ASSUME NEW w \in Workers, PlaceOrderCommit(w)
      PROVE  \A o \in Orders : RowStep(o)
  BY <1>0, <1>1 DEF PlaceOrderCommit, TypeOK, Placed, RowStep, RowKept, RowInserted
<1>2. ASSUME NEW w \in Workers, CancelOrderCommit(w)
      PROVE  \A o \in Orders : RowStep(o)
  <2> DEFINE o == req[w].order
  <2>1. o \in Orders /\ Placed(o)
    BY <1>2, RequestOrder DEF IInv, CancelOrderCommit
  <2>2. orders[o].payment \in PaymentStatuses
    BY <1>0, <2>1, PlacedRow
  <2> HIDE DEF o
  <2>3. CASE UNCHANGED orders
    BY <2>3 DEF RowStep, RowKept
  <2>4. CASE ~UNCHANGED orders
    <3>1. /\ orders[o].payment # "paid"
          /\ UpdateStatusAndRelease(o, "cancelled", orders[o].payment)
      BY <1>2, <2>4 DEF CancelOrderCommit, o
    <3>2. RowBecomes(o, "cancelled", orders[o].payment, TRUE)
      BY <1>0, <2>1, <2>2, <3>1, ReleaseRow
    <3>3. RowGivenBack(o)
      BY <2>1, <3>1, <3>2 DEF RowGivenBack, RowBecomes, UpdateStatusAndRelease
    <3> QED BY <2>1, <3>2, <3>3, RowStepOfWrite DEF RowStep
  <2> QED BY <2>3, <2>4
<1>3. ASSUME NEW o \in Orders, NEW form \in AdminForms, AdminUpdate(o, form)
      PROVE  \A q \in Orders : RowStep(q)
  <2> DEFINE payment == TargetPayment(o, form)
  <2>1. Placed(o)
    BY <1>3 DEF AdminUpdate, AdminCancel, AdminFail, AdminWrite
  <2>2. TargetStatus(o, form) \in Statuses /\ payment \in PaymentStatuses
    BY <2>1, AdminTargets
  <2>3. orders'[o].payment = orders[o].payment \/ o \in byStaff'
    BY <1>3 DEF AdminUpdate
  <2>4. CASE AdminCancel(o, form)
    <3>1. payment # "paid" /\ orders[o].payment # "paid" /\ ~orders[o].released
      BY <2>4 DEF AdminCancel, AdminRules, AdminCancels, TargetStatus, TargetPayment,
                  UpdateStatusAndRelease
    <3>2. RowBecomes(o, "cancelled", payment, TRUE)
      BY <1>0, <2>1, <2>2, <2>4, ReleaseRow DEF AdminCancel
    <3> HIDE DEF payment
    <3>3. RowGivenBack(o)
      BY <2>1, <2>3, <3>1, <3>2 DEF RowGivenBack, RowBecomes
    <3> QED BY <3>2, <3>3, RowStepOfWrite DEF RowStep
  <2>5. CASE AdminFail(o, form)
    <3>1. RowBecomes(o, TargetStatus(o, form), "failed", TRUE)
      BY <1>0, <2>1, <2>2, <2>5, ReleaseRow DEF AdminFail
    <3>2. RowGivenBack(o)
      BY <2>1, <2>5, <3>1 DEF RowGivenBack, RowBecomes, AdminFail, AdminFails
    <3> QED BY <3>1, <3>2, RowStepOfWrite DEF RowStep
  <2>6. CASE AdminWrite(o, form)
    <3>1. RowBecomes(o, TargetStatus(o, form), payment, orders[o].released)
      BY <1>0, <2>1, <2>2, <2>6, UpdateStatusRow DEF AdminWrite
    <3> HIDE DEF payment
    <3>2. RowKept(o) \/ RowSetByStaff(o)
      BY <2>3, <3>1 DEF RowKept, RowSetByStaff, RowBecomes
    <3> QED BY <3>1, <3>2, RowStepOfWrite DEF RowStep
  <2> QED BY <1>3, <2>4, <2>5, <2>6 DEF AdminUpdate
<1>4. ASSUME NEW w \in Workers, Reacquire(w)
      PROVE  \A o \in Orders : RowStep(o)
  <2> DEFINE o == req[w].order
  <2>1. o \in Orders /\ Placed(o) /\ orders[o] \in Row
    BY <1>0, <1>4, RequestOrder, PlacedRow DEF IInv, Reacquire
  <2>2. CASE UNCHANGED orders
    BY <2>2 DEF RowStep, RowKept
  <2>3. CASE ~UNCHANGED orders
    <3>1. /\ orders[o].payment = "failed"
          /\ orders[o].released
          /\ orders' = [orders EXCEPT ![o].released = FALSE]
      BY <1>4, <2>3 DEF Reacquire
    <3> HIDE DEF o
    <3>2. RowRetaken(o)
      BY <1>0, <2>1, <3>1 DEF RowRetaken, TypeOK, Row
    <3>3. \A q \in Orders : q # o => orders'[q] = orders[q]
      BY <1>0, <3>1 DEF TypeOK
    <3> QED BY <3>2, <3>3 DEF RowStep, RowKept
  <2> QED BY <2>2, <2>3
<1>5. ASSUME NEW o \in Orders, CallbackPaid(o)
      PROVE  \A q \in Orders : RowStep(q)
  <2>1. Placed(o)
    BY <1>5, AbsentRow DEF CallbackPaid, Placed
  <2>2. RowBecomes(o, orders[o].status, "paid", orders[o].released)
    BY <1>0, <1>5, <2>1, PlacedRow, UpdateStatusRow DEF CallbackPaid
  <2>3. RowApproved(o)
    BY <1>5, <2>2 DEF RowApproved, RowBecomes, CallbackPaid
  <2> QED BY <2>2, <2>3, RowStepOfWrite DEF RowStep
<1>6. ASSUME NEW w \in Workers, NEW o \in Orders, CallbackFailed(w, o)
      PROVE  \A q \in Orders : RowStep(q)
  <2>1. Placed(o)
    BY <1>6, AbsentRow DEF CallbackFailed, Placed
  <2>2. CASE UNCHANGED orders
    BY <2>2 DEF RowStep, RowKept
  <2>3. CASE UpdateStatusAndRelease(o, orders[o].status, "failed")
    <3>1. RowBecomes(o, orders[o].status, "failed", TRUE)
      BY <1>0, <2>1, <2>3, PlacedRow, ReleaseRow
    <3>2. RowGivenBack(o)
      BY <1>6, <2>1, <2>3, <3>1
         DEF RowGivenBack, RowBecomes, CallbackFailed, UpdateStatusAndRelease
    <3> QED BY <3>1, <3>2, RowStepOfWrite DEF RowStep
  <2> QED BY <1>6, <2>2, <2>3 DEF CallbackFailed
<1>7. ASSUME NEW w \in Workers, CallbackRewrite(w)
      PROVE  \A q \in Orders : RowStep(q)
  <2> DEFINE o == req[w].order
  <2>1. o \in Orders /\ Placed(o)
    BY <1>7, RequestOrder DEF IInv, CallbackRewrite
  <2>2. RowBecomes(o, orders[o].status, "failed", orders[o].released)
    BY <1>0, <1>7, <2>1, PlacedRow, UpdateStatusRow DEF CallbackRewrite
  <2>3. RowRewritten(o)
    BY <1>7, <2>2 DEF RowRewritten, RowBecomes, CallbackRewrite
  <2> HIDE DEF o
  <2> QED BY <2>1, <2>2, <2>3, RowStepOfWrite DEF RowStep
<1>8. ASSUME NEW c \in Crons, NEW o \in Orders, ExpireStaleCardOrder(c, o)
      PROVE  \A q \in Orders : RowStep(q)
  <2>1. CASE Stale(o)
    <3>1. Placed(o)
      BY <2>1, AbsentRow DEF Stale, Placed
    <3>2. RowBecomes(o, "cancelled", "failed", TRUE)
      BY <1>0, <1>8, <2>1, <3>1, ReleaseRow DEF ExpireStaleCardOrder
    <3>3. RowGivenBack(o)
      BY <2>1, <3>1, <3>2 DEF RowGivenBack, RowBecomes, Stale
    <3> QED BY <3>2, <3>3, RowStepOfWrite DEF RowStep
  <2>2. CASE ~Stale(o)
    BY <1>8, <2>2 DEF ExpireStaleCardOrder, RowStep, RowKept
  <2> QED BY <2>1, <2>2
<1>9. ASSUME NEW o \in Orders, Age(o)
      PROVE  \A q \in Orders : RowStep(q)
  <2>1. orders[o] \in Row
    BY <1>0, <1>9, PlacedRow DEF Age
  <2> QED BY <1>0, <1>9, <2>1 DEF Age, TypeOK, Row, RowStep, RowKept
<1>10. CASE UNCHANGED orders
  BY <1>10 DEF RowStep, RowKept
<1> QED BY <1>1, <1>2, <1>3, <1>4, <1>5, <1>6, <1>7, <1>8, <1>9, <1>10
        DEF Next, vars, PlaceOrder, CancelOrder, UpdateVariant, Initiate, StartSession,
            GatewaySettles, CallbackReread, CronSelect, ExpireError, RequestDies, CronDies

(***************************************************************************)
(* The stock of a paid order is never given back, whatever staff send.     *)
(***************************************************************************)
THEOREM PaidStockStays == Spec => PaidNeverReleased
<1> DEFINE Kept == \A o \in Orders :
             ~orders[o].released /\ orders'[o].released => orders[o].payment # "paid"
<1>1. IInv /\ [Next]_vars => Kept
  <2> SUFFICES ASSUME IInv, [Next]_vars, NEW o \in Orders,
                      ~orders[o].released, orders'[o].released
               PROVE  orders[o].payment # "paid"
    OBVIOUS
  <2>1. RowStep(o)
    BY RowSteps
  <2> QED BY <2>1 DEF RowStep, RowKept, RowInserted, RowGivenBack, RowRetaken,
                      RowApproved, RowRewritten, RowSetByStaff
<1> QED BY <1>1, Invariance, PTL DEF Spec, PaidNeverReleased

--------------------------------------------------------------------------------
(* Orders whose payment staff have not changed. *)

(* A paid order was approved by the gateway. *)
PaidWasApproved ==
  \A o \in Orders \ byStaff : orders[o].payment = "paid" => <<o, "paid">> \in callbacks

PaidInv == PaidHoldsStock /\ PaidWasApproved /\ FailureStands

(* What staff changed once stays recorded. *)
LEMMA ByStaffGrows ==
  ASSUME IInv, [Next]_vars
  PROVE  byStaff \subseteq byStaff'
BY DEF Next, vars, PlaceOrder, PlaceOrderCommit, CancelOrder, CancelOrderCommit,
       AdminUpdate, UpdateVariant, Initiate,
       Reacquire, StartSession, GatewaySettles, CallbackPaid, CallbackFailed,
       CallbackReread, CallbackRewrite, CronSelect, ExpireStaleCardOrder, ExpireError,
       Age, RequestDies, CronDies

(* No step but a staff form takes a settled failure back. *)
LEMMA FailureStays ==
  ASSUME IInv, [Next]_vars, NEW o \in Orders, o \notin byStaff', orders[o] # NoRow,
         \/ orders[o].payment = "failed"
         \/ orders[o].payment = "pending" /\ orders[o].released
  PROVE  \/ orders'[o].payment = "failed"
         \/ orders'[o].payment = "pending" /\ orders'[o].released
<1>1. RowStep(o)
  BY RowSteps
<1> QED BY <1>1 DEF RowStep, RowKept, RowInserted, RowGivenBack, RowRetaken,
                    RowApproved, RowRewritten, RowSetByStaff

LEMMA CallbacksGrow ==
  ASSUME IInv, [Next]_vars
  PROVE  callbacks \subseteq callbacks'
BY DEF Next, vars, PlaceOrder, PlaceOrderCommit, CancelOrder, CancelOrderCommit,
       AdminUpdate, AdminCancel, AdminFail, AdminWrite, UpdateVariant, Initiate,
       Reacquire, StartSession, GatewaySettles, CallbackPaid, CallbackFailed,
       CallbackReread, CallbackRewrite, CronSelect, ExpireStaleCardOrder, ExpireError,
       Age, RequestDies, CronDies

(* A request that is given another role is none that records a failure. *)
LEMMA GivenOtherRole ==
  ASSUME TypeOK, NEW x \in Workers, NEW r, r.at \notin {"reread", "rewrite"},
         req' = [req EXCEPT ![x] = r],
         NEW w \in Workers, req'[w].at \in {"reread", "rewrite"}
  PROVE  req'[w] = req[w]
BY DEF TypeOK

(* A request comes to reread an order only in CallbackFailed, and to       *)
(* rewrite it only from there.                                             *)
LEMMA RecordsFailure ==
  ASSUME IInv, [Next]_vars, NEW w \in Workers,
         req'[w].at \in {"reread", "rewrite"}
  PROVE  \/ req[w].at \in {"reread", "rewrite"} /\ req'[w].order = req[w].order
         \/ \E o \in Orders :
              /\ CallbackFailed(w, o)
              /\ req' = [req EXCEPT ![w] = [at |-> "reread", order |-> o]]
<1> DEFINE Same == req'[w] = req[w]
<1> USE DEF Idle
<1>0. TypeOK
  BY DEF IInv
<1>1. ASSUME NEW x \in Workers, NEW cart \in Carts, NEW method \in Methods,
             PlaceOrder(x, cart, method)
      PROVE  Same
  BY <1>0, <1>1, GivenOtherRole DEF PlaceOrder
<1>2. ASSUME NEW x \in Workers, req' = [req EXCEPT ![x] = Idle]
      PROVE  Same
  BY <1>0, <1>2, GivenOtherRole
<1>3. ASSUME NEW x \in Workers, NEW o \in Orders, CancelOrder(x, o)
      PROVE  Same
  BY <1>0, <1>3, GivenOtherRole DEF CancelOrder
<1>4. ASSUME NEW x \in Workers, NEW o \in Orders, Initiate(x, o)
      PROVE  Same
  <2> DEFINE role == IF orders[o].payment = "failed" THEN "reacquire" ELSE "session"
  <2>1. req' = [req EXCEPT ![x] = [at |-> role, order |-> o]]
    BY <1>4 DEF Initiate
  <2>2. [at |-> role, order |-> o].at \notin {"reread", "rewrite"}
    OBVIOUS
  <2> HIDE DEF role
  <2> QED BY <1>0, <2>1, <2>2, GivenOtherRole
<1>5. ASSUME NEW x \in Workers, Reacquire(x)
      PROVE  Same
  <2>1. req[x] \in Requests /\ req[x].at = "reacquire"
    BY <1>0, <1>5 DEF TypeOK, Reacquire
  <2>2. req[x] \in [at : {"cancel", "reread", "rewrite", "reacquire", "session"},
                    order : Orders]
    BY <2>1 DEF Requests
  <2>3. [req[x] EXCEPT !.at = "session"].at \notin {"reread", "rewrite"}
    BY <2>2
  <2>4. CASE req' = [req EXCEPT ![x] = [req[x] EXCEPT !.at = "session"]]
    BY <1>0, <2>3, <2>4, GivenOtherRole
  <2>5. req' = [req EXCEPT ![x] = Idle]
        \/ req' = [req EXCEPT ![x] = [req[x] EXCEPT !.at = "session"]]
    BY <1>0, <1>5 DEF Reacquire, TypeOK
  <2> QED BY <1>2, <2>4, <2>5
<1>6. ASSUME NEW x \in Workers, CallbackReread(x)
      PROVE  Same \/ (req[w].at \in {"reread", "rewrite"} /\ req'[w].order = req[w].order)
  <2>1. CASE x = w
    <3>1. req[w] \in Requests /\ req[w].at = "reread"
      BY <1>0, <1>6, <2>1 DEF TypeOK, CallbackReread
    <3>2. req[w] \in [at : {"cancel", "reread", "rewrite", "reacquire", "session"},
                      order : Orders]
      BY <3>1 DEF Requests
    <3>3. req'[w] \in {Idle, [req[w] EXCEPT !.at = "rewrite"]}
      BY <1>0, <1>6, <2>1 DEF CallbackReread, TypeOK
    <3>4. req'[w] = [req[w] EXCEPT !.at = "rewrite"]
      BY <3>3
    <3> QED BY <3>1, <3>2, <3>4
  <2>2. CASE x # w
    BY <1>0, <1>6, <2>2 DEF CallbackReread, TypeOK
  <2> QED BY <2>1, <2>2
<1>7. ASSUME NEW x \in Workers, NEW o \in Orders, CallbackFailed(x, o)
      PROVE  Same \/ (x = w /\ req' = [req EXCEPT ![w] = [at |-> "reread", order |-> o]])
  BY <1>0, <1>7 DEF CallbackFailed, TypeOK
<1>8. CASE UNCHANGED req
  BY <1>8
<1>9. \/ UNCHANGED req
      \/ \E x \in Workers : req' = [req EXCEPT ![x] = Idle] \/ Reacquire(x) \/ CallbackReread(x)
      \/ \E x \in Workers, cart \in Carts, method \in Methods : PlaceOrder(x, cart, method)
      \/ \E x \in Workers, o \in Orders :
            CancelOrder(x, o) \/ Initiate(x, o) \/ CallbackFailed(x, o)
  BY DEF Next, vars, PlaceOrderCommit, CancelOrderCommit, AdminUpdate, AdminCancel,
         AdminFail, AdminWrite, UpdateVariant, StartSession, GatewaySettles,
         CallbackPaid, CallbackRewrite, CronSelect, ExpireStaleCardOrder, ExpireError,
         Age, RequestDies, CronDies
<1> QED BY <1>1, <1>2, <1>3, <1>4, <1>5, <1>6, <1>7, <1>8, <1>9

(* The order that a request found failed, or without its stock, stays so   *)
(* until the request has rewritten it.                                     *)
LEMMA FailureStandsStep ==
  ASSUME IInv, PaidInv, [Next]_vars
  PROVE  FailureStands'
<1> SUFFICES ASSUME NEW w \in Workers, req'[w].at \in {"reread", "rewrite"},
                    req'[w].order \notin byStaff'
             PROVE  LET o == req'[w].order IN
                      \/ orders'[o].payment = "failed"
                      \/ orders'[o].payment = "pending" /\ orders'[o].released
  BY DEF FailureStands
<1>0. req \in [Workers -> Requests] /\ TypeOK /\ RequestsPlaced
  BY DEF IInv, TypeOK
<1>1. CASE /\ req[w].at \in {"reread", "rewrite"}
           /\ req'[w].order = req[w].order
  <2>1. req[w].order \in Orders /\ orders[req[w].order] # NoRow
    BY <1>0, <1>1, RequestOrder DEF Placed
  <2>2. req[w].order \notin byStaff
    BY <1>1, ByStaffGrows
  <2>3. \/ orders[req[w].order].payment = "failed"
        \/ orders[req[w].order].payment = "pending" /\ orders[req[w].order].released
    BY <1>1, <2>2 DEF PaidInv, FailureStands
  <2> QED BY <1>1, <2>1, <2>3, FailureStays
<1>2. ASSUME NEW o \in Orders, CallbackFailed(w, o),
             req' = [req EXCEPT ![w] = [at |-> "reread", order |-> o]]
      PROVE  LET q == req'[w].order IN
               \/ orders'[q].payment = "failed"
               \/ orders'[q].payment = "pending" /\ orders'[q].released
  <2>1. req'[w].order = o /\ Placed(o)
    BY <1>0, <1>2, AbsentRow DEF CallbackFailed, Placed
  <2>2. CASE UpdateStatusAndRelease(o, orders[o].status, "failed")
    BY <1>0, <2>1, <2>2, PlacedRow, ReleaseRow DEF RowBecomes, PaymentStatuses
  <2>3. CASE orders[o].released /\ UNCHANGED <<stock, orders>>
    BY <1>2, <2>1, <2>3 DEF CallbackFailed
  <2> QED BY <1>2, <2>2, <2>3 DEF CallbackFailed
<1>3. \/ req[w].at \in {"reread", "rewrite"} /\ req'[w].order = req[w].order
      \/ \E o \in Orders : /\ CallbackFailed(w, o)
                           /\ req' = [req EXCEPT ![w] = [at |-> "reread", order |-> o]]
  BY RecordsFailure
<1> QED BY <1>1, <1>2, <1>3

LEMMA PaidStep ==
  ASSUME IInv, PaidInv, [Next]_vars, NEW o \in Orders, o \notin byStaff'
  PROVE  /\ orders'[o].payment = "paid" => ~orders'[o].released
         /\ orders'[o].payment = "paid" => <<o, "paid">> \in callbacks
         /\ orders[o].payment = "paid" => orders'[o].payment = "paid"
<1>1. RowStep(o) /\ o \notin byStaff
  BY RowSteps, ByStaffGrows
<1>2. ASSUME NEW w \in Workers, req[w].at = "rewrite", req[w].order = o
      PROVE  orders[o].payment # "paid"
  BY <1>1, <1>2 DEF PaidInv, FailureStands
<1>3. NoRow.payment # "paid"
  BY AbsentRow
<1> QED BY <1>1, <1>2, <1>3
        DEF RowStep, RowKept, RowInserted, RowGivenBack, RowRetaken, RowApproved,
            RowRewritten, RowSetByStaff, PaidInv, PaidHoldsStock, PaidWasApproved

LEMMA PaidInvariance == Spec => []PaidInv
<1>1. Init => PaidInv
  BY AbsentRow DEF Init, PaidInv, PaidHoldsStock, PaidWasApproved, FailureStands, Idle
<1>2. IInv /\ PaidInv /\ [Next]_vars => PaidInv'
  <2> SUFFICES ASSUME IInv, PaidInv, [Next]_vars PROVE PaidInv'
    OBVIOUS
  <2>1. PaidHoldsStock' /\ PaidWasApproved'
    BY PaidStep, CallbacksGrow DEF PaidHoldsStock, PaidWasApproved
  <2> QED BY <2>1, FailureStandsStep DEF PaidInv
<1> QED BY <1>1, <1>2, Invariance, PTL DEF Spec

(***************************************************************************)
(* Whatever staff send: a paid order holds its stock unless staff changed  *)
(* its payment.  No late success makes a released order paid.              *)
(***************************************************************************)
THEOREM PaidHolds == Spec => []PaidHoldsStock
<1>1. PaidInv => PaidHoldsStock
  BY DEF PaidInv
<1> QED BY <1>1, PaidInvariance, PTL

(***************************************************************************)
(* Whatever staff send to other orders: what the unlocked rewrite of a     *)
(* failed payment found is still so when it writes, unless staff changed   *)
(* that very payment.                                                      *)
(***************************************************************************)
THEOREM FailureKept == Spec => []FailureStands
<1>1. PaidInv => FailureStands
  BY DEF PaidInv
<1> QED BY <1>1, PaidInvariance, PTL

(***************************************************************************)
(* An order whose payment staff never changed is paid only on the          *)
(* gateway's word and then stays paid.                                     *)
(***************************************************************************)
THEOREM PaidStays == Spec => PaidIsFinal
<1> DEFINE Final ==
      \A o \in Orders \ byStaff' :
        /\ orders[o].payment = "paid" => orders'[o].payment = "paid"
        /\ orders'[o].payment = "paid" => <<o, "paid">> \in callbacks
<1>1. IInv /\ PaidInv /\ [Next]_vars => Final
  BY PaidStep
<1> QED BY <1>1, PaidInvariance, Invariance, PTL DEF Spec, PaidIsFinal

(* A step of an order's row is a step of its payment, or none. *)
LEMMA PaymentStep ==
  ASSUME IInv, PaidInv, [Next]_vars, NEW o \in Orders, o \notin byStaff'
  PROVE  [Payment(o)!Next]_(PaymentOf(o))
<1>1. RowStep(o) /\ o \notin byStaff
  BY RowSteps, ByStaffGrows
<1>2. ASSUME NEW w \in Workers, req[w].at = "rewrite", req[w].order = o
      PROVE  orders[o].payment \in {"pending", "failed"}
  BY <1>1, <1>2 DEF PaidInv, FailureStands
<1>3. Placed(o) => orders[o].payment \in {"pending", "paid", "failed"}
  BY PlacedRow DEF IInv, PaymentStatuses
<1>4. Placed(o)' => orders'[o].payment \in {"pending", "paid", "failed"}
  <2>1. TypeOK'
    BY InvStep DEF IInv
  <2> QED BY <2>1, AbsentRow DEF TypeOK, Placed, Row, PaymentStatuses
<1>5. \/ PaymentOf(o)' = PaymentOf(o)
      \/ PaymentOf(o) = "pending" /\ PaymentOf(o)' \in {"paid", "failed"}
  BY <1>1, <1>2, <1>3, <1>4, AbsentRow
     DEF RowStep, RowKept, RowInserted, RowGivenBack, RowRetaken, RowApproved,
         RowRewritten, RowSetByStaff, PaymentOf, Placed
<1> QED BY <1>5 DEF Payment!Next, Payment!Settle, Payment!Results

(***************************************************************************)
(* The payment of every order implements CardPayment, the server           *)
(* PaymentPage counts on, until staff change it.                           *)
(***************************************************************************)
THEOREM SettledOnce == Spec => PaymentsSettleOnce
<1>1. Init => \A o \in Orders : Payment(o)!Init
  BY DEF Init, PaymentOf, Placed, Payment!Init
<1>2. IInv /\ PaidInv /\ [Next]_vars
        => \A o \in Orders \ byStaff' : [Payment(o)!Next]_(PaymentOf(o))
  BY PaymentStep
<1> QED BY <1>1, <1>2, PaidInvariance, Invariance, PTL DEF Spec, PaymentsSettleOnce

================================================================================
