------------------------------ MODULE BackOffice -------------------------------
(***************************************************************************)
(* The back office in one tab: the proxy, the shell, the sign-in page and  *)
(* the pages of OrdersPage, ProductsPage, ProductForm, CouponsPage and     *)
(* InboxPage, one of which is mounted at a time, over the session of       *)
(* AdminSession.                                                           *)
(***************************************************************************)
EXTENDS OrdersPage, ProductsPage, CouponsPage, ProductForm, InboxPage

CONSTANT Sections   \* bound: the pages staff go to

ASSUME SectionsAssumption == Sections \subseteq Pages

pagesVars == <<ordersVars, productsVars, couponsVars, formVars, inboxVars>>
vars == <<adminVars, pagesVars>>

TypeOK ==
  /\ stored \in Tokens \cup {Nothing} /\ cookie \in BOOLEAN /\ live \subseteq Tokens
  /\ shown \in Pages /\ going \in Pages \cup {Nothing}
  /\ check \in Tokens \cup {Nothing}

Init ==
  /\ stored = Nothing /\ cookie = FALSE /\ live = {}
  /\ shown = "login" /\ going = Nothing /\ check = Nothing /\ calls = {}
  /\ OrdersInit /\ ProductsInit /\ CouponsInit /\ FormInit /\ InboxInit

--------------------------------------------------------------------------------
(* From page to page *)

(* proxy.ts: without the cookie every address leads to the sign-in page.   *)
Proxy(target) == IF target = "login" \/ cookie THEN target ELSE "login"

(* A page is mounted: its effects and, when it is new, those of the shell. *)
(* What the page before had under way is left to itself.                   *)
Mount(target, left, newShell, cookieNow) ==
  /\ shown' = target
  /\ IF stored = Nothing /\ ((newShell /\ target # "login") \/ target \in {"orders", "edit"})
     THEN RedirectToLogin
     ELSE /\ stored' = stored /\ cookie' = cookieNow
          /\ going' = IF target = "login" THEN SignInOpened ELSE Nothing
  /\ check' = IF target = "login" THEN Nothing ELSE IF newShell THEN stored ELSE check
  /\ IF target = "edit" /\ stored # Nothing
     THEN \E id \in Calls \ {c.id : c \in left} :
            calls' = left \cup {[id |-> id, op |-> "fetch", arg |-> Nothing, context |-> Nothing,
                                 token |-> stored, here |-> TRUE, done |-> FALSE]}
     ELSE calls' = left
  /\ IF target = "orders" THEN OrdersOpened ELSE OrdersClosed
  /\ IF target = "products" THEN ProductsOpened ELSE ProductsClosed
  /\ IF target = "coupons" THEN CouponsOpened ELSE CouponsClosed
  /\ IF target \in {"reviews", "messages"} THEN InboxOpened ELSE InboxClosed
  /\ FormClosed
  /\ UNCHANGED live

(* The router gets there through the proxy, or with a page it prefetched.  *)
(* A page that is mounted stays as it is.                                  *)
Route(target) ==
  \E place \in {target, Proxy(target)} :
    IF place = shown
    THEN going' = Nothing /\ UNCHANGED <<sessionVars, shown, check, calls, pagesVars>>
    ELSE Mount(place, Orphaned, shown = "login", cookie)

Arrive == going # Nothing /\ Route(going)

(* A section of the navigation, or a link of a page.                       *)
Follow(target) == shown # "login" /\ target # shown /\ Route(target)

(* An address is typed or the page reloaded: a new document.               *)
Visit(target) == Mount(Proxy(target), {}, TRUE, cookie)

(* The browser is closed and opened again: localStorage stays, the cookie, *)
(* which has no Max-Age, does not.                                         *)
Restart == Mount("login", {}, TRUE, FALSE)

Session ==
  /\ \/ SubmitSignIn \/ SignInAnswered \/ ShellVerified \/ Logout
     \/ OtherTab \/ TokenEnds
  /\ UNCHANGED pagesVars

Next ==
  \/ Session
  \/ Arrive \/ Restart
  \/ \E target \in Sections : Follow(target) \/ Visit(target)
  \/ OrdersNext /\ UNCHANGED <<productsVars, couponsVars, formVars, inboxVars>>
  \/ ProductsNext /\ UNCHANGED <<ordersVars, couponsVars, formVars, inboxVars>>
  \/ CouponsNext /\ UNCHANGED <<ordersVars, productsVars, formVars, inboxVars>>
  \/ FormNext /\ UNCHANGED <<ordersVars, productsVars, couponsVars, inboxVars>>
  \/ InboxNext /\ UNCHANGED <<ordersVars, productsVars, couponsVars, formVars>>

Spec == Init /\ [][Next]_vars

--------------------------------------------------------------------------------
(* Properties *)

(* The cookie that opens the proxy's gate never outlives the session in    *)
(* localStorage, in whatever order tabs, restarts and refused requests set *)
(* and clear the two: the proxy lets nobody in whom the shell would send   *)
(* back at once.                                                           *)
CookieFollowsStore == cookie => stored # Nothing

(* However late the loads of earlier pages and filters are answered, the   *)
(* rows of the orders page are only ever replaced by those of the page and *)
(* filter shown above them.                                                *)
OrderListAnswersQuery ==
  [][orderList' \in {Nothing, orderList} \/ orderList'.query = query']_vars

UnderWay(op) == {c \in calls : c.op = op /\ c.here}

(* A disabled select of an order, or a dialog that says "loading", has a   *)
(* request of this page under way whose answer ends it: whatever becomes   *)
(* of the session, of the list and of other orders changed meanwhile, none *)
(* is left disabled for good.                                              *)
SelectsWaitForAnswers ==
  /\ updating # Nothing =>
       \E c \in UnderWay("status") \cup UnderWay("payment") : c.arg = updating
  /\ detailLoading => UnderWay("detail") # {}

(* Loading is switched on by hand when the page or the filter changes; it  *)
(* is meant to be on while a request is under way that switches it off.    *)
LoadingIsUnderWay ==
  (shown = "orders" /\ orderLoading) => (orderLoad # Nothing \/ going # Nothing)

(* The rows of the product list are only ever replaced by those of the    *)
(* page that is asked for, read after every change the list was reloaded   *)
(* for: a switched or deleted product does not show its old state again.   *)
(* The exception is a load that was replaced while its body was being      *)
(* read, which the page does not stop: nothing else that is late is shown. *)
ProductListIsCurrent ==
  [][\/ productList' \in {Nothing, productList}
     \/ productList'.page = page' /\ productList'.read >= productAcked'
     \/ \E l \in lateProducts :
          /\ lateProducts' = lateProducts \ {l}
          /\ productList'.page = l.page /\ productList'.read = l.read]_vars

(* The same of the coupons: a saved or deleted coupon does not come back   *)
(* with the late answer to an earlier load.                                *)
CouponListIsCurrent ==
  [][couponList' \in {Nothing, couponList} \/ couponList' >= couponAcked']_vars

(* The rows of reviews and of messages are only ever replaced by those of  *)
(* the page and filter asked for, read after every approval, rejection,    *)
(* marking or deletion the list was reloaded for, or by the body of a load *)
(* that was replaced while it was being read.                              *)
InboxListIsCurrent ==
  [][\/ inboxList' \in {Nothing, inboxList}
     \/ inboxList'.query = inboxQuery' /\ inboxList'.read >= inboxAcked'
     \/ \E l \in lateInbox :
          /\ lateInbox' = lateInbox \ {l}
          /\ inboxList'.query = l.query /\ inboxList'.read = l.read]_vars

(* Without that exception: what the page of the coupons keeps and those of *)
(* products, reviews and messages do not.                                  *)
NoListFromThePast ==
  [][/\ \/ productList' \in {Nothing, productList}
        \/ productList'.page = page' /\ productList'.read >= productAcked'
     /\ \/ inboxList' \in {Nothing, inboxList}
        \/ inboxList'.query = inboxQuery' /\ inboxList'.read >= inboxAcked']_vars

(* The image that will be uploaded as the main one is the file it was      *)
(* chosen for, whichever files are removed, added or uploaded since.       *)
MainImageIsChosen ==
  mainIndex # 0 => mainIndex <= Len(selectedFiles) /\ selectedFiles[mainIndex] = mainChosen

(* So do the buttons that say "Saving", "Deleting" or "Uploading", and the *)
(* dialog of a product.                                                    *)
ButtonsWaitForAnswers ==
  /\ submitting => UnderWay("save") # {}
  /\ deleting # Nothing => \E c \in UnderWay("delete") : c.arg = deleting
  /\ saving => UnderWay("store") # {}
  /\ uploading => UnderWay("upload") # {}
  /\ viewLoading => UnderWay("view") # {}

--------------------------------------------------------------------------------
(* The inductive invariant *)

CallsSound ==
  \A c \in calls :
    c \in [id : Calls, op : {c.op}, arg : {c.arg}, context : {c.context}, token : {c.token},
           here : BOOLEAN, done : BOOLEAN]

ImagesSound ==
  /\ selectedFiles \in Seq(Files) /\ mainIndex \in Nat
  /\ MainImageIsChosen

(* The load that is not cancelled asks for what the page shows, and if the *)
(* API has read the list, it read what the page was told to reload.        *)
OrderLoadSound == orderLoad # Nothing => orderLoad.query = query

ProductLoadSound ==
  /\ productWrites \in Nat /\ productAcked \in 0..productWrites
  /\ productLoad # Nothing =>
       /\ productLoad \in [token : Tokens, page : {page}, done : BOOLEAN, read : Nat]
       /\ productLoad.done => productLoad.read >= productAcked

CouponLoadSound ==
  /\ couponWrites \in Nat /\ couponAcked \in 0..couponWrites
  /\ couponLoad # Nothing =>
       /\ couponLoad \in [token : Tokens, done : BOOLEAN, read : Nat]
       /\ couponLoad.done => couponLoad.read >= couponAcked

InboxLoadSound ==
  /\ inboxWrites \in Nat /\ inboxAcked \in 0..inboxWrites
  /\ inboxLoad # Nothing =>
       /\ inboxLoad \in [token : Tokens, query : {inboxQuery}, done : BOOLEAN, read : Nat]
       /\ inboxLoad.done => inboxLoad.read >= inboxAcked

IInv ==
  /\ TypeOK
  /\ CookieFollowsStore
  /\ CallsSound
  /\ SelectsWaitForAnswers
  /\ ButtonsWaitForAnswers
  /\ ImagesSound
  /\ OrderLoadSound /\ ProductLoadSound /\ CouponLoadSound /\ InboxLoadSound
================================================================================
