----------------------------- MODULE ProductsPage ------------------------------
(***************************************************************************)
(* The product list of the back office (products/products-client.tsx):     *)
(* pages of products, switches and deletions that make the list reload,    *)
(* and one product in a dialog.                                            *)
(*                                                                         *)
(* productWrites counts the changes the API made since the page was        *)
(* opened; a list carries the count it was read at.  The load effect tests *)
(* cancelled before it reads the body of an answer and not after: a load   *)
(* that is replaced in between goes on as one of lateProducts.             *)
(***************************************************************************)
EXTENDS AdminSession

CONSTANTS
  Products,          \* bound: products of a list
  LastProductPage,   \* bound: pages of the list
  MaxProductWrites   \* bound: changes made

VARIABLES
  page,
  productLoad,      \* the list request of the effect that is not cancelled, or Nothing
  lateProducts,     \* page and read of cancelled ones whose body is being read
  productList,      \* products and meta, or Nothing
  productLoading,   \* loading
  productFailed,    \* error # null: the page shows nothing else
  viewing,          \* viewProduct, or Nothing
  viewDetail,       \* the product of viewDetail, or Nothing
  viewLoading,
  productWrites,    \* changes in the database since the page was opened
  productAcked      \* those made before the last answer that asked for a reload

viewVars == <<viewing, viewDetail, viewLoading>>
productsVars == <<page, productLoad, lateProducts, productList, productLoading, productFailed, viewVars,
                  productWrites, productAcked>>

--------------------------------------------------------------------------------

ProductRequest(p) ==
  IF stored = Nothing THEN Nothing
  ELSE [token |-> stored, page |-> p, done |-> FALSE, read |-> 0]

LoadProducts_OneAtATime(p) ==
  /\ productLoad' = IF productLoad # Nothing THEN productLoad ELSE ProductRequest(p)
  /\ UNCHANGED lateProducts

(* The load effect: the load before it is cancelled, of which an answer    *)
(* that has begun to arrive takes no notice; without a session nothing is  *)
(* sent and nothing is said.                                               *)
LoadProducts(p) ==
  /\ productLoad' = ProductRequest(p)
  /\ \/ UNCHANGED lateProducts
     \/ /\ productLoad # Nothing /\ productLoad.done /\ Cardinality(lateProducts) < MaxLate
        /\ lateProducts' = lateProducts \cup {[page |-> productLoad.page,
                                             read |-> productLoad.read]}

(* The API reads the list.                                                 *)
ServeProducts ==
  /\ productLoad # Nothing /\ ~productLoad.done /\ productLoad.token \in live
  /\ productLoad' = [productLoad EXCEPT !.done = TRUE, !.read = productWrites]
  /\ UNCHANGED <<page, lateProducts, productList, productLoading, productFailed, viewVars,
                 productWrites, productAcked, adminVars>>

ProductsAnswered ==
  /\ productLoad # Nothing
  /\ productLoad' = Nothing /\ productLoading' = FALSE
  /\ \E reply \in Outcomes(productLoad), pages \in 0..LastProductPage :
       /\ SignOutOn(reply)
       /\ productFailed' = (reply # "ok")
       /\ productList' = IF reply = "ok"
                         THEN [page |-> productLoad.page, pages |-> pages,
                               read |-> productLoad.read]
                         ELSE productList
  /\ UNCHANGED <<page, lateProducts, viewVars, productWrites, productAcked, live, shown, check,
                 calls>>

(* The body of a cancelled load: setProducts, setMeta, setError(null); only *)
(* catch and finally look at cancelled again.                              *)
LateProductsAnswered ==
  \E l \in lateProducts, pages \in 0..LastProductPage :
    /\ lateProducts' = lateProducts \ {l}
    /\ \/ /\ productList' = [page |-> l.page, pages |-> pages, read |-> l.read]
          /\ productFailed' = FALSE
       \/ UNCHANGED <<productList, productFailed>>    \* the body is lost
    /\ UNCHANGED <<page, productLoad, productLoading, viewVars, productWrites, productAcked,
                   adminVars>>

RowsOfProducts ==
  /\ shown = "products" /\ ~productLoading /\ ~productFailed /\ viewing = Nothing
  /\ productList # Nothing /\ productList.page <= productList.pages

(* Previous and Next count from the page asked for, not the page shown.    *)
TurnPage ==
  /\ RowsOfProducts /\ productList.pages > 1
  /\ \/ page > 1 /\ page' = page - 1
     \/ page < productList.pages /\ page' = page + 1
     \/ page > productList.pages /\ page' = productList.pages
  /\ LoadProducts(page')
  /\ UNCHANGED <<productList, productLoading, productFailed, viewVars, productWrites,
                 productAcked, adminVars>>

(* toggleActive (it sends the opposite of the row) and deleteProduct once  *)
(* confirmed; no button is disabled meanwhile.                             *)
ChangeProduct(p) ==
  /\ RowsOfProducts
  /\ Send("product", p, Nothing)
  /\ UNCHANGED <<productsVars, live, shown, check>>

(* The API makes the change; a product that was ordered is not deleted     *)
(* (409, one of the refusals).                                             *)
ServeProductChange ==
  \E c \in Asked("product") :
    /\ ~c.done /\ c.token \in live
    /\ productWrites < MaxProductWrites /\ productWrites' = productWrites + 1
    /\ calls' = (calls \ {c}) \cup {[c EXCEPT !.done = TRUE]}
    /\ UNCHANGED <<page, productLoad, lateProducts, productList, productLoading, productFailed,
                   viewVars, productAcked, sessionVars, shellVars>>

(* setReloadKey: the answer to a change makes the effect run again.        *)
ProductChanged ==
  \E c \in Asked("product"), reply \in Replies :
    /\ reply \in Outcomes(c) /\ Deliver(c, reply)
    /\ IF c.here /\ reply = "ok"
       THEN productAcked' = productWrites /\ LoadProducts(page)
       ELSE UNCHANGED <<productAcked, productLoad, lateProducts>>
    /\ UNCHANGED <<page, productList, productLoading, productFailed, viewVars, productWrites,
                   live, shown, check>>

--------------------------------------------------------------------------------
(* The dialog *)

OpenView(p) ==
  /\ RowsOfProducts
  /\ viewing' = p /\ viewDetail' = Nothing
  /\ Send("view", p, Nothing)
  /\ viewLoading' = (stored # Nothing)
  /\ productFailed' = (stored = Nothing)    \* sessionExpired sets error
  /\ UNCHANGED <<page, productLoad, lateProducts, productList, productLoading, productWrites,
                 productAcked, live, shown, check>>

(* Not cancelled: the answer about a product closed meanwhile is kept.     *)
ViewAnswered ==
  \E c \in Asked("view"), reply \in Replies :
    /\ reply \in Answers(c.token) /\ Deliver(c, reply)
    /\ IF c.here
       THEN /\ viewDetail' = IF reply = "ok" THEN c.arg ELSE viewDetail
            /\ productFailed' = (productFailed \/ reply = "401")
            /\ viewLoading' = FALSE
       ELSE UNCHANGED <<viewDetail, productFailed, viewLoading>>
    /\ UNCHANGED <<page, productLoad, lateProducts, productList, productLoading, viewing,
                   productWrites, productAcked, live, shown, check>>

CloseView ==
  /\ shown = "products" /\ viewing # Nothing
  /\ viewing' = Nothing /\ viewDetail' = Nothing
  /\ UNCHANGED <<page, productLoad, lateProducts, productList, productLoading, productFailed,
                 viewLoading, productWrites, productAcked, adminVars>>

--------------------------------------------------------------------------------

(* The state of the page while it is not mounted, and at its mount.        *)
ProductsFresh(load) ==
  /\ page' = 1 /\ productLoad' = load /\ lateProducts' = {} /\ productList' = Nothing
  /\ productLoading' = TRUE /\ productFailed' = FALSE
  /\ viewing' = Nothing /\ viewDetail' = Nothing /\ viewLoading' = FALSE
  /\ productWrites' = 0 /\ productAcked' = 0

ProductsOpened == ProductsFresh(ProductRequest(1))
ProductsClosed == ProductsFresh(Nothing)

ProductsInit ==
  /\ page = 1 /\ productLoad = Nothing /\ lateProducts = {} /\ productList = Nothing
  /\ productLoading = TRUE /\ productFailed = FALSE
  /\ viewing = Nothing /\ viewDetail = Nothing /\ viewLoading = FALSE
  /\ productWrites = 0 /\ productAcked = 0

ProductsAnswers == ServeProducts \/ ProductsAnswered \/ LateProductsAnswered
                   \/ ServeProductChange \/ ProductChanged \/ ViewAnswered

ProductsNext ==
  \/ TurnPage \/ CloseView
  \/ \E p \in Products : ChangeProduct(p) \/ OpenView(p)
  \/ ProductsAnswers
================================================================================
