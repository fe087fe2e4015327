------------------------------ MODULE OrdersPage -------------------------------
(***************************************************************************)
(* The orders page of the back office (orders/orders-client.tsx): a list   *)
(* by page and status filter, the status of a row, and one order in a      *)
(* dialog with its payment status.                                         *)
(*                                                                         *)
(* What an order says is left out; a list is the query it answers and the  *)
(* number of pages, a detail is the order it is about.                     *)
(***************************************************************************)
EXTENDS AdminSession

CONSTANTS
  Orders,     \* bound: orders of a list
  LastPage,   \* bound: pages of a list
  Filters     \* the values of the status filter; "" is all of them

ASSUME FiltersAssumption == "" \in Filters

VARIABLES
  query,          \* page and statusFilter
  orderLoad,      \* the list request of the effect that is not cancelled, or Nothing
  orderList,      \* orders and meta, or Nothing
  orderLoading,   \* loading
  selected,       \* selectedOrder, or Nothing
  modal,          \* isModalOpen
  detail,         \* the order of detail, or Nothing
  detailLoading,
  detailFailed,   \* detailError # null
  updating        \* updatingId, or Nothing

dialogVars == <<selected, modal, detail, detailLoading, detailFailed>>
ordersVars == <<query, orderLoad, orderList, orderLoading, dialogVars, updating>>

FirstQuery == [page |-> 1, filter |-> ""]

--------------------------------------------------------------------------------
(* The list *)

OrderRequest(q) ==
  IF stored = Nothing THEN Nothing
  ELSE [token |-> stored, query |-> q]

LoadOrders_OneAtATime(q) ==
  /\ orderLoad' = IF orderLoad # Nothing THEN orderLoad ELSE OrderRequest(q)
  /\ IF stored = Nothing THEN RedirectToLogin ELSE UNCHANGED <<stored, cookie, going>>

(* The load effect: its cleanup cancels the load before it; without a      *)
(* session it signs out and sends nothing.                                 *)
LoadOrders(q) ==
  /\ orderLoad' = OrderRequest(q)
  /\ IF stored = Nothing THEN RedirectToLogin ELSE UNCHANGED <<stored, cookie, going>>

(* changePage, changeFilter: loading is set before the effect runs; the    *)
(* effect runs when page or statusFilter really changed.                   *)
ChangeQuery(q) ==
  /\ orderLoading' = TRUE
  /\ query' = q
  /\ IF q # query THEN LoadOrders(q) ELSE UNCHANGED <<orderLoad, stored, cookie, going>>
  /\ UNCHANGED <<orderList, dialogVars, updating, live, shown, check, calls>>

(* Rows and pagination are drawn when the list is there and not empty.     *)
RowsShown ==
  /\ shown = "orders" /\ ~orderLoading
  /\ orderList # Nothing /\ orderList.query.page <= orderList.pages

(* The buttons count from the page of the list shown, meta.page.           *)
ChangePage ==
  /\ RowsShown /\ ~modal /\ orderList.pages > 1
  /\ \E next \in {orderList.query.page - 1, orderList.query.page + 1} \cap 1..orderList.pages :
       ChangeQuery([query EXCEPT !.page = next])

(* The select above the list, and "Show all orders" of an empty one.       *)
ChangeFilter ==
  /\ shown = "orders" /\ ~modal
  /\ \E filter \in Filters \ {query.filter} : ChangeQuery([page |-> 1, filter |-> filter])

(* A failed load keeps the list of the query before.                       *)
OrdersAnswered ==
  /\ orderLoad # Nothing
  /\ orderLoad' = Nothing /\ orderLoading' = FALSE
  /\ \E reply \in Answers(orderLoad.token), pages \in 0..LastPage :
       /\ SignOutOn(reply)
       /\ IF reply = "ok"
          THEN orderList' = [query |-> orderLoad.query, pages |-> pages] /\ detail' = Nothing
          ELSE UNCHANGED <<orderList, detail>>
  /\ UNCHANGED <<query, selected, modal, detailLoading, detailFailed, updating,
                 live, shown, check, calls>>

--------------------------------------------------------------------------------
(* Status and payment of an order *)

(* The select of a row, while updatingId is another order's.               *)
StatusSelect(o) == RowsShown /\ ~modal /\ updating # o

(* A change of that select.  A cancellation that is not confirmed only         *)
(* resets updatingId, whatever order it names.                             *)
HandleStatusChange(o) ==
  /\ StatusSelect(o)
  /\ \/ Send("status", o, Nothing)
        /\ updating' = IF stored = Nothing THEN updating ELSE o
     \/ stored # Nothing /\ updating' = Nothing /\ UNCHANGED <<stored, cookie, going, calls>>
  /\ UNCHANGED <<query, orderLoad, orderList, orderLoading, dialogVars, live, shown, check>>

StatusAnswered_KeepsOnExpiry ==
  \E c \in Asked("status"), reply \in Replies :
    /\ reply \in Answers(c.token) /\ Deliver(c, reply)
    /\ updating' = IF c.here /\ reply # "401" THEN Nothing ELSE updating
    /\ UNCHANGED <<query, orderLoad, orderList, orderLoading, dialogVars, live, shown, check>>

(* Every answer ends the one updatingId there is.                          *)
StatusAnswered ==
  \E c \in Asked("status"), reply \in Replies :
    /\ reply \in Answers(c.token) /\ Deliver(c, reply)
    /\ updating' = IF c.here THEN Nothing ELSE updating
    /\ UNCHANGED <<query, orderLoad, orderList, orderLoading, dialogVars, live, shown, check>>

(* The dialog: an order, unless it says loading or what went wrong.        *)
DetailShown ==
  shown = "orders" /\ modal /\ ~detailLoading /\ ~detailFailed /\ detail # Nothing

(* Its select of the payment status: without a session nothing happens.    *)
HandlePaymentChange ==
  /\ DetailShown /\ updating # detail
  /\ stored # Nothing
  /\ AdminRequest("payment", detail, Nothing)
  /\ updating' = detail
  /\ UNCHANGED <<query, orderLoad, orderList, orderLoading, dialogVars, sessionVars, shellVars>>

(* The answer puts the captured detail back, whatever is open by now; a    *)
(* refused token is one more error message here.                           *)
PaymentAnswered ==
  \E c \in Asked("payment"), reply \in Replies :
    /\ reply \in Answers(c.token) /\ calls' = calls \ {c}
    /\ updating' = IF c.here THEN Nothing ELSE updating
    /\ detail' = IF c.here /\ reply = "ok" THEN c.arg ELSE detail
    /\ UNCHANGED <<query, orderLoad, orderList, orderLoading, selected, modal, detailLoading,
                   detailFailed, sessionVars, shellVars>>

--------------------------------------------------------------------------------
(* The dialog *)

OpenOrderDetail(o) ==
  /\ RowsShown /\ ~modal
  /\ selected' = o /\ modal' = TRUE
  /\ detail' = Nothing /\ detailFailed' = FALSE
  /\ Send("detail", o, Nothing)
  /\ detailLoading' = (stored # Nothing)
  /\ UNCHANGED <<query, orderLoad, orderList, orderLoading, updating, live, shown, check>>

(* No answer is cancelled: the last one to arrive is the detail shown.     *)
DetailAnswered ==
  \E c \in Asked("detail"), reply \in Replies :
    /\ reply \in Answers(c.token) /\ Deliver(c, reply)
    /\ IF c.here
       THEN /\ detail' = IF reply = "ok" THEN c.arg ELSE detail
            /\ detailFailed' = (detailFailed \/ reply \in {"refused", "lost"})
            /\ detailLoading' = FALSE
       ELSE UNCHANGED <<detail, detailFailed, detailLoading>>
    /\ UNCHANGED <<query, orderLoad, orderList, orderLoading, selected, modal, updating,
                   live, shown, check>>

(* The buttons and Escape.                                                 *)
CloseModal ==
  /\ shown = "orders" /\ modal
  /\ modal' = FALSE /\ detail' = Nothing /\ detailFailed' = FALSE
  /\ UNCHANGED <<query, orderLoad, orderList, orderLoading, selected, detailLoading, updating,
                 adminVars>>

--------------------------------------------------------------------------------

(* The state of the page while it is not mounted, and at its mount.        *)
OrdersFresh(load) ==
  /\ query' = FirstQuery /\ orderLoad' = load /\ orderList' = Nothing
  /\ orderLoading' = TRUE
  /\ selected' = Nothing /\ modal' = FALSE /\ detail' = Nothing
  /\ detailLoading' = FALSE /\ detailFailed' = FALSE /\ updating' = Nothing

OrdersOpened == OrdersFresh(OrderRequest(FirstQuery))
OrdersClosed == OrdersFresh(Nothing)

OrdersInit ==
  /\ query = FirstQuery /\ orderLoad = Nothing /\ orderList = Nothing /\ orderLoading = TRUE
  /\ selected = Nothing /\ modal = FALSE /\ detail = Nothing
  /\ detailLoading = FALSE /\ detailFailed = FALSE /\ updating = Nothing

OrdersAnswers == OrdersAnswered \/ StatusAnswered \/ PaymentAnswered \/ DetailAnswered

OrdersNext ==
  \/ ChangePage \/ ChangeFilter \/ HandlePaymentChange \/ CloseModal
  \/ \E o \in Orders : HandleStatusChange(o) \/ OpenOrderDetail(o)
  \/ OrdersAnswers
================================================================================
