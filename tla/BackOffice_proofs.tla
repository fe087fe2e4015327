--------------------------- MODULE BackOffice_proofs ---------------------------
(* Proofs about BackOffice, for any numbers of tokens, requests under way, *)
(* rows, files and pages of a list.                                        *)
EXTENDS BackOffice, TLAPS

(* The fields of a request. *)
IsCall(c) ==
  c \in [id : Calls, op : {c.op}, arg : {c.arg}, context : {c.context}, token : {c.token},
         here : BOOLEAN, done : BOOLEAN]

LEMMA CallsAre == CallsSound <=> \A c \in calls : IsCall(c)
  BY DEF CallsSound, IsCall

LEMMA CallsArePrimed == CallsSound' <=> \A c \in calls' : IsCall(c)
  BY DEF CallsSound, IsCall

(* A request that is sent is one more, and its page is there.              *)
LEMMA Requested ==
  ASSUME NEW op, NEW arg, NEW context, AdminRequest(op, arg, context)
  PROVE  \E new : /\ IsCall(new) /\ new.op = op /\ new.arg = arg /\ new.here
                  /\ calls' = calls \cup {new}
  BY DEF AdminRequest, IsCall

LEMMA Sent ==
  ASSUME NEW op, NEW arg, NEW context, Send(op, arg, context)
  PROVE  \/ stored = Nothing /\ calls' = calls /\ RedirectToLogin
         \/ /\ stored # Nothing /\ UNCHANGED <<stored, cookie, going>>
            /\ \E new : /\ IsCall(new) /\ new.op = op /\ new.arg = arg /\ new.here
                        /\ calls' = calls \cup {new}
  <1>1. CASE stored = Nothing
    BY <1>1 DEF Send
  <1>2. CASE stored # Nothing
    <2>1. AdminRequest(op, arg, context) /\ UNCHANGED <<stored, cookie, going>>
      BY <1>2 DEF Send
    <2>2. PICK new : /\ IsCall(new) /\ new.op = op /\ new.arg = arg /\ new.here
                     /\ calls' = calls \cup {new}
      BY <2>1, Requested
    <2> QED
      BY <1>2, <2>1, <2>2
  <1> QED
    BY <1>1, <1>2

(* The API handles a request: it is the same request afterwards.           *)
LEMMA Served ==
  ASSUME NEW c, IsCall(c)
  PROVE  /\ IsCall([c EXCEPT !.done = TRUE])
         /\ [c EXCEPT !.done = TRUE].op = c.op
         /\ [c EXCEPT !.done = TRUE].arg = c.arg
         /\ [c EXCEPT !.done = TRUE].here = c.here
  <1> DEFINE d == [c EXCEPT !.done = TRUE]
  <1>1. d \in [id : Calls, op : {c.op}, arg : {c.arg}, context : {c.context},
               token : {c.token}, here : BOOLEAN, done : BOOLEAN]
    BY DEF IsCall
  <1>2. d.op = c.op /\ d.arg = c.arg /\ d.context = c.context /\ d.token = c.token
        /\ d.here = c.here
    BY DEF IsCall
  <1> HIDE DEF d
  <1>3. IsCall(d)
    BY <1>1, <1>2 DEF IsCall
  <1> QED
    BY <1>2, <1>3 DEF d

--------------------------------------------------------------------------------
(* The session *)

(* What a step may do to the session and to where the tab goes.            *)
SessionKept ==
  /\ UNCHANGED <<shown, check, live>>
  /\ \/ UNCHANGED <<stored, cookie>> /\ going' \in Pages \cup {going}
     \/ RedirectToLogin

LEMMA SessionKeptSound ==
  ASSUME TypeOK, CookieFollowsStore, SessionKept
  PROVE  TypeOK' /\ CookieFollowsStore'
  <1>1. CASE RedirectToLogin
    <2>1. stored' = Nothing /\ cookie' = FALSE /\ going' = "login"
      BY <1>1 DEF RedirectToLogin, ClearAdminSession
    <2> QED
      BY <2>1 DEF SessionKept, TypeOK, CookieFollowsStore, Pages
  <1>2. CASE UNCHANGED <<stored, cookie>> /\ going' \in Pages \cup {going}
    BY <1>2 DEF SessionKept, TypeOK, CookieFollowsStore
  <1> QED
    BY <1>1, <1>2 DEF SessionKept

LEMMA Delivered ==
  ASSUME NEW c \in calls, NEW reply, Deliver(c, reply)
  PROVE  /\ calls' = calls \ {c}
         /\ UNCHANGED <<stored, cookie, going>> \/ RedirectToLogin
  BY DEF Deliver, SignOutOn

LEMMA OrdersKeepSession == OrdersNext => SessionKept
  <1> SUFFICES ASSUME OrdersNext PROVE SessionKept
    OBVIOUS
  <1> USE DEF SessionKept, Pages
  <1>1. CASE ChangePage \/ ChangeFilter
    BY <1>1 DEF ChangePage, ChangeFilter, ChangeQuery, LoadOrders
  <1>2. CASE HandlePaymentChange \/ CloseModal
    BY <1>2 DEF HandlePaymentChange, CloseModal, adminVars, sessionVars, shellVars
  <1>3. ASSUME NEW o \in Orders, HandleStatusChange(o) PROVE SessionKept
    BY <1>3, Sent DEF HandleStatusChange
  <1>4. ASSUME NEW o \in Orders, OpenOrderDetail(o) PROVE SessionKept
    BY <1>4, Sent DEF OpenOrderDetail
  <1>5. CASE OrdersAnswered
    BY <1>5 DEF OrdersAnswered, SignOutOn
  <1>6. CASE StatusAnswered
    BY <1>6, Delivered DEF StatusAnswered, Asked
  <1>7. CASE PaymentAnswered
    BY <1>7 DEF PaymentAnswered, sessionVars, shellVars
  <1>8. CASE DetailAnswered
    BY <1>8, Delivered DEF DetailAnswered, Asked
  <1> QED
    BY <1>1, <1>2, <1>3, <1>4, <1>5, <1>6, <1>7, <1>8 DEF OrdersNext, OrdersAnswers

LEMMA ProductsKeepSession == ProductsNext => SessionKept
  <1> SUFFICES ASSUME ProductsNext PROVE SessionKept
    OBVIOUS
  <1> USE DEF SessionKept, Pages
  <1>1. CASE TurnPage \/ CloseView
    BY <1>1 DEF TurnPage, CloseView, adminVars, sessionVars, shellVars
  <1>2. ASSUME NEW p \in Products, ChangeProduct(p) PROVE SessionKept
    BY <1>2, Sent DEF ChangeProduct
  <1>3. ASSUME NEW p \in Products, OpenView(p) PROVE SessionKept
    BY <1>3, Sent DEF OpenView
  <1>4. CASE ServeProducts \/ ServeProductChange
    BY <1>4 DEF ServeProducts, ServeProductChange, adminVars, sessionVars, shellVars
  <1>5. CASE ProductsAnswered
    BY <1>5 DEF ProductsAnswered, SignOutOn
  <1>8. CASE LateProductsAnswered
    BY <1>8 DEF LateProductsAnswered, adminVars, sessionVars, shellVars
  <1>6. CASE ProductChanged
    BY <1>6, Delivered DEF ProductChanged, Asked
  <1>7. CASE ViewAnswered
    BY <1>7, Delivered DEF ViewAnswered, Asked
  <1> QED
    BY <1>1, <1>2, <1>3, <1>4, <1>5, <1>6, <1>7, <1>8 DEF ProductsNext, ProductsAnswers

LEMMA CouponsKeepSession == CouponsNext => SessionKept
  <1> SUFFICES ASSUME CouponsNext PROVE SessionKept
    OBVIOUS
  <1> USE DEF SessionKept, Pages
  <1>1. ASSUME NEW k \in Coupons, StartEdit(k) PROVE SessionKept
    BY <1>1 DEF StartEdit, adminVars, sessionVars, shellVars
  <1>2. CASE ResetForm \/ ServeCoupons \/ ServeCouponCall
    BY <1>2 DEF ResetForm, ServeCoupons, ServeCouponCall, adminVars, sessionVars, shellVars
  <1>3. CASE HandleSubmit
    BY <1>3, Sent DEF HandleSubmit
  <1>4. ASSUME NEW k \in Coupons, HandleDelete(k) PROVE SessionKept
    BY <1>4, Sent DEF HandleDelete
  <1>5. CASE CouponsAnswered
    BY <1>5 DEF CouponsAnswered, SignOutOn
  <1>6. CASE SaveAnswered
    BY <1>6, Delivered DEF SaveAnswered, Asked
  <1>7. CASE DeleteAnswered
    BY <1>7, Delivered DEF DeleteAnswered, Asked
  <1> QED
    BY <1>1, <1>2, <1>3, <1>4, <1>5, <1>6, <1>7 DEF CouponsNext, CouponsAnswers

LEMMA FormKeepsSession == FormNext => SessionKept
  <1> SUFFICES ASSUME FormNext PROVE SessionKept
    OBVIOUS
  <1> USE DEF SessionKept, Pages
  <1>1. CASE EditFields \/ RemoveVariant \/ CancelNewVariantForm \/ FilesSelected \/ ClearSelection
    BY <1>1 DEF EditFields, RemoveVariant, CancelNewVariantForm, FilesSelected, ClearSelection,
                adminVars, sessionVars, shellVars
  <1>2. ASSUME NEW i, ChooseMain(i) \/ RemoveSelectedFile(i) PROVE SessionKept
    BY <1>2 DEF ChooseMain, RemoveSelectedFile, adminVars, sessionVars, shellVars
  <1>3. CASE SaveProduct
    BY <1>3, Sent DEF SaveProduct
  <1>4. CASE AddVariant
    BY <1>4, Sent DEF AddVariant
  <1>5. ASSUME NEW v \in Variants, UpdateVariant(v) PROVE SessionKept
    BY <1>5, Sent DEF UpdateVariant
  <1>6. ASSUME NEW v \in Variants, DeleteVariant(v) PROVE SessionKept
    BY <1>6, Sent DEF DeleteVariant
  <1>7. CASE HandleImageUpload
    BY <1>7, Sent DEF HandleImageUpload
  <1>8. CASE ServeVariant \/ FallbackFetched
    BY <1>8 DEF ServeVariant, FallbackFetched, sessionVars, shellVars
  <1>9. CASE ProductFetched
    BY <1>9, Delivered DEF ProductFetched, Asked
  <1>10. CASE ProductSaved
    BY <1>10, Delivered DEF ProductSaved, Asked
  <1>11. CASE VariantCreated
    BY <1>11, Delivered DEF VariantCreated, Asked
  <1>12. CASE VariantUpdated
    BY <1>12, Delivered DEF VariantUpdated, Asked
  <1>13. CASE VariantRemoved
    BY <1>13, Delivered DEF VariantRemoved, Asked
  <1>14. CASE ImagesUploaded
    BY <1>14, Delivered DEF ImagesUploaded, Asked
  <1> QED
    BY <1>1, <1>2, <1>3, <1>4, <1>5, <1>6, <1>7, <1>8, <1>9, <1>10, <1>11, <1>12, <1>13, <1>14
    DEF FormNext, FormAnswers

LEMMA InboxKeepsSession == InboxNext => SessionKept
  <1> SUFFICES ASSUME InboxNext PROVE SessionKept
    OBVIOUS
  <1> USE DEF SessionKept, Pages
  <1>1. CASE FilterInbox \/ TurnInbox \/ CloseEntry
    BY <1>1 DEF FilterInbox, TurnInbox, AskInbox, CloseEntry, adminVars, sessionVars, shellVars
  <1>2. ASSUME NEW e \in Entries, ReadEntry(e) PROVE SessionKept
    BY <1>2 DEF ReadEntry, adminVars, sessionVars, shellVars
  <1>3. ASSUME NEW e \in Entries, ModerateReview(e) \/ ChangeMessage(e) PROVE SessionKept
    BY <1>3, Sent DEF ModerateReview, ChangeMessage
  <1>4. CASE ServeInbox \/ ServeEntryChange
    BY <1>4 DEF ServeInbox, ServeEntryChange, adminVars, sessionVars, shellVars
  <1>5. CASE InboxAnswered
    BY <1>5 DEF InboxAnswered, SignOutOn
  <1>7. CASE LateInboxAnswered
    BY <1>7 DEF LateInboxAnswered, adminVars, sessionVars, shellVars
  <1>6. CASE EntryChanged
    BY <1>6, Delivered DEF EntryChanged, Asked
  <1> QED
    BY <1>1, <1>2, <1>3, <1>4, <1>5, <1>6, <1>7 DEF InboxNext, InboxAnswers

--------------------------------------------------------------------------------
(* Requests under way *)

(* Every request that is not one of ops goes on.                           *)
Keeps(ops) == \A c \in calls : c.op \notin ops => c \in calls'

OrderOps == {"status", "payment", "detail"}
ProductOps == {"product", "view"}
CouponOps == {"save", "delete"}
FormOps == {"fetch", "fallback", "store", "create", "update", "remove", "upload"}
InboxOps == {"entry"}

(* What waits on each page; ButtonsWaitForAnswers is about the last three. *)
ViewWaits == viewLoading => UnderWay("view") # {}
CouponsWait ==
  /\ submitting => UnderWay("save") # {}
  /\ deleting # Nothing => \E c \in UnderWay("delete") : c.arg = deleting
FormWaits ==
  /\ saving => UnderWay("store") # {}
  /\ uploading => UnderWay("upload") # {}

LEMMA ButtonsAre == ButtonsWaitForAnswers <=> ViewWaits /\ CouponsWait /\ FormWaits
  BY DEF ButtonsWaitForAnswers, ViewWaits, CouponsWait, FormWaits

LEMMA ButtonsArePrimed == ButtonsWaitForAnswers' <=> ViewWaits' /\ CouponsWait' /\ FormWaits'
  BY DEF ButtonsWaitForAnswers, ViewWaits, CouponsWait, FormWaits

LEMMA Added ==
  ASSUME CallsSound, NEW new, IsCall(new), calls' = calls \cup {new}
  PROVE  CallsSound' /\ Keeps({})
  BY CallsAre, CallsArePrimed DEF Keeps

LEMMA SentKeeps ==
  ASSUME CallsSound, NEW op, NEW arg, NEW context, Send(op, arg, context)
  PROVE  CallsSound' /\ Keeps({})
  BY Sent, Added, CallsAre, CallsArePrimed DEF Keeps

LEMMA Removed ==
  ASSUME CallsSound, NEW c \in calls, calls' = calls \ {c}
  PROVE  CallsSound' /\ Keeps({c.op}) /\ \A d \in calls : d # c => d \in calls'
  BY CallsAre, CallsArePrimed DEF Keeps

LEMMA Handled ==
  ASSUME CallsSound, NEW c \in calls, calls' = (calls \ {c}) \cup {[c EXCEPT !.done = TRUE]}
  PROVE  /\ CallsSound' /\ Keeps({c.op})
         /\ \A op : \A d \in UnderWay(op) : \E e \in UnderWay(op)' : e.arg = d.arg
  <1>1. IsCall(c)
    BY CallsAre
  <1>2. CallsSound' /\ Keeps({c.op})
    BY <1>1, CallsAre, CallsArePrimed, Served DEF Keeps
  <1>3. ASSUME NEW op, NEW d \in UnderWay(op)
        PROVE  \E e \in UnderWay(op)' : e.arg = d.arg
    <2>1. CASE d = c
      BY <1>1, <1>3, <2>1, Served DEF UnderWay
    <2>2. CASE d # c
      BY <1>3, <2>2 DEF UnderWay
    <2> QED
      BY <2>1, <2>2
  <1> QED
    BY <1>2, <1>3

LEMMA Unchanged ==
  ASSUME CallsSound, calls' = calls
  PROVE  CallsSound' /\ Keeps({})
  BY DEF CallsSound, Keeps

(* The pages that are not mounted wait for nothing of this one's.          *)
LEMMA OthersWait ==
  ASSUME SelectsWaitForAnswers, ViewWaits, CouponsWait, FormWaits, NEW ops, Keeps(ops)
  PROVE  /\ ops \cap OrderOps = {} /\ UNCHANGED ordersVars => SelectsWaitForAnswers'
         /\ ops \cap ProductOps = {} /\ UNCHANGED productsVars => ViewWaits'
         /\ ops \cap CouponOps = {} /\ UNCHANGED couponsVars => CouponsWait'
         /\ ops \cap FormOps = {} /\ UNCHANGED formVars => FormWaits'
  <1>1. ASSUME NEW op, op \notin ops PROVE UnderWay(op) \subseteq UnderWay(op)'
    BY <1>1 DEF UnderWay, Keeps
  <1>2. ops \cap OrderOps = {} /\ UNCHANGED ordersVars => SelectsWaitForAnswers'
    <2> SUFFICES ASSUME ops \cap OrderOps = {}, UNCHANGED ordersVars PROVE SelectsWaitForAnswers'
      OBVIOUS
    <2>1. /\ UnderWay("status") \subseteq UnderWay("status")'
          /\ UnderWay("payment") \subseteq UnderWay("payment")'
          /\ UnderWay("detail") \subseteq UnderWay("detail")'
      BY <1>1 DEF OrderOps
    <2>2. updating' = updating /\ detailLoading' = detailLoading
      BY DEF ordersVars, dialogVars
    <2> QED
      BY <2>1, <2>2 DEF SelectsWaitForAnswers
  <1>3. ops \cap ProductOps = {} /\ UNCHANGED productsVars => ViewWaits'
    <2> SUFFICES ASSUME ops \cap ProductOps = {}, UNCHANGED productsVars PROVE ViewWaits'
      OBVIOUS
    <2>1. UnderWay("view") \subseteq UnderWay("view")' /\ viewLoading' = viewLoading
      BY <1>1 DEF ProductOps, productsVars, viewVars
    <2> QED
      BY <2>1 DEF ViewWaits
  <1>4. ops \cap CouponOps = {} /\ UNCHANGED couponsVars => CouponsWait'
    <2> SUFFICES ASSUME ops \cap CouponOps = {}, UNCHANGED couponsVars PROVE CouponsWait'
      OBVIOUS
    <2>1. /\ UnderWay("save") \subseteq UnderWay("save")'
          /\ UnderWay("delete") \subseteq UnderWay("delete")'
      BY <1>1 DEF CouponOps
    <2>2. submitting' = submitting /\ deleting' = deleting
      BY DEF couponsVars
    <2> QED
      BY <2>1, <2>2 DEF CouponsWait
  <1>5. ops \cap FormOps = {} /\ UNCHANGED formVars => FormWaits'
    <2> SUFFICES ASSUME ops \cap FormOps = {}, UNCHANGED formVars PROVE FormWaits'
      OBVIOUS
    <2>1. /\ UnderWay("store") \subseteq UnderWay("store")'
          /\ UnderWay("upload") \subseteq UnderWay("upload")'
      BY <1>1 DEF FormOps
    <2>2. saving' = saving /\ uploading' = uploading
      BY DEF formVars, imageVars
    <2> QED
      BY <2>1, <2>2 DEF FormWaits
  <1> QED
    BY <1>2, <1>3, <1>4, <1>5

--------------------------------------------------------------------------------
(* Each page waits for requests of its own *)

LEMMA OrdersWait ==
  ASSUME CallsSound, SelectsWaitForAnswers, OrdersNext
  PROVE  CallsSound' /\ Keeps(OrderOps) /\ SelectsWaitForAnswers'
  <1> DEFINE Goal == CallsSound' /\ Keeps(OrderOps) /\ SelectsWaitForAnswers'
  <1>1. ASSUME UNCHANGED <<calls, updating, detailLoading>> PROVE Goal
    BY <1>1, Unchanged DEF Keeps, SelectsWaitForAnswers, UnderWay
  <1>2. CASE ChangePage \/ ChangeFilter
    BY <1>1, <1>2 DEF ChangePage, ChangeFilter, ChangeQuery, dialogVars
  <1>3. CASE CloseModal
    BY <1>1, <1>3 DEF CloseModal, adminVars
  <1>4. CASE OrdersAnswered
    BY <1>1, <1>4 DEF OrdersAnswered
  <1>5. CASE HandlePaymentChange
    <2>1. updating' = detail /\ detailLoading' = detailLoading
          /\ AdminRequest("payment", detail, Nothing)
      BY <1>5 DEF HandlePaymentChange, dialogVars
    <2>2. PICK new : /\ IsCall(new) /\ new.op = "payment" /\ new.arg = detail /\ new.here
                     /\ calls' = calls \cup {new}
      BY <2>1, Requested
    <2>3. CallsSound' /\ Keeps({})
      BY <2>2, Added
    <2> QED
      BY <2>1, <2>2, <2>3 DEF Keeps, SelectsWaitForAnswers, UnderWay
  <1>6. ASSUME NEW o \in Orders, HandleStatusChange(o) PROVE Goal
    <2>1. detailLoading' = detailLoading
      BY <1>6 DEF HandleStatusChange, dialogVars
    <2>2. CASE updating' = Nothing /\ calls' = calls
      BY <2>1, <2>2, Unchanged DEF Keeps, SelectsWaitForAnswers, UnderWay
    <2>3. CASE Send("status", o, Nothing) /\ updating' = IF stored = Nothing THEN updating ELSE o
      <3>1. CASE stored = Nothing
        BY <2>1, <2>3, <3>1, <1>1, Sent
      <3>2. CASE stored # Nothing
        <4>1. PICK new : /\ IsCall(new) /\ new.op = "status" /\ new.arg = o /\ new.here
                         /\ calls' = calls \cup {new}
          BY <2>3, <3>2, Sent
        <4>2. CallsSound' /\ Keeps({})
          BY <4>1, Added
        <4> QED
          BY <2>1, <2>3, <3>2, <4>1, <4>2 DEF Keeps, SelectsWaitForAnswers, UnderWay
      <3> QED
        BY <3>1, <3>2
    <2> QED
      BY <1>6, <2>2, <2>3 DEF HandleStatusChange
  <1>7. ASSUME NEW o \in Orders, OpenOrderDetail(o) PROVE Goal
    <2>1. /\ Send("detail", o, Nothing) /\ detailLoading' = (stored # Nothing)
          /\ updating' = updating
      BY <1>7 DEF OpenOrderDetail
    <2>2. CASE stored = Nothing
      BY <2>1, <2>2, Sent, Unchanged DEF Keeps, SelectsWaitForAnswers, UnderWay
    <2>3. CASE stored # Nothing
      <3>1. PICK new : /\ IsCall(new) /\ new.op = "detail" /\ new.arg = o /\ new.here
                       /\ calls' = calls \cup {new}
        BY <2>1, <2>3, Sent
      <3>2. CallsSound' /\ Keeps({})
        BY <3>1, Added
      <3> QED
        BY <2>1, <3>1, <3>2 DEF Keeps, SelectsWaitForAnswers, UnderWay
    <2> QED
      BY <2>2, <2>3
  <1>8. CASE StatusAnswered
    <2>1. PICK c \in calls : /\ c.op = "status" /\ calls' = calls \ {c}
                             /\ updating' = IF c.here THEN Nothing ELSE updating
      BY <1>8, Delivered DEF StatusAnswered, Asked
    <2>2. detailLoading' = detailLoading
      BY <1>8 DEF StatusAnswered, dialogVars
    <2>3. CallsSound' /\ Keeps({"status"}) /\ \A d \in calls : d # c => d \in calls'
      BY <2>1, Removed
    <2> QED
      BY <2>1, <2>2, <2>3 DEF Keeps, OrderOps, SelectsWaitForAnswers, UnderWay
  <1>9. CASE PaymentAnswered
    <2>1. PICK c \in calls : /\ c.op = "payment" /\ calls' = calls \ {c}
                             /\ updating' = IF c.here THEN Nothing ELSE updating
      BY <1>9 DEF PaymentAnswered, Asked
    <2>2. detailLoading' = detailLoading
      BY <1>9 DEF PaymentAnswered
    <2>3. CallsSound' /\ Keeps({"payment"}) /\ \A d \in calls : d # c => d \in calls'
      BY <2>1, Removed
    <2> QED
      BY <2>1, <2>2, <2>3 DEF Keeps, OrderOps, SelectsWaitForAnswers, UnderWay
  <1>10. CASE DetailAnswered
    <2>1. PICK c \in calls : /\ c.op = "detail" /\ calls' = calls \ {c}
                             /\ detailLoading' = IF c.here THEN FALSE ELSE detailLoading
      BY <1>10, Delivered DEF DetailAnswered, Asked
    <2>2. updating' = updating
      BY <1>10 DEF DetailAnswered
    <2>3. CallsSound' /\ Keeps({"detail"}) /\ \A d \in calls : d # c => d \in calls'
      BY <2>1, Removed
    <2> QED
      BY <2>1, <2>2, <2>3 DEF Keeps, OrderOps, SelectsWaitForAnswers, UnderWay
  <1> QED
    BY <1>2, <1>3, <1>4, <1>5, <1>6, <1>7, <1>8, <1>9, <1>10 DEF OrdersNext, OrdersAnswers

LEMMA ProductsWait ==
  ASSUME CallsSound, ViewWaits, ProductsNext
  PROVE  CallsSound' /\ Keeps(ProductOps) /\ ViewWaits'
  <1> DEFINE Goal == CallsSound' /\ Keeps(ProductOps) /\ ViewWaits'
  <1>1. ASSUME UNCHANGED <<calls, viewLoading>> PROVE Goal
    BY <1>1, Unchanged DEF Keeps, ViewWaits, UnderWay
  <1>2. CASE TurnPage \/ CloseView \/ ServeProducts
    BY <1>1, <1>2 DEF TurnPage, CloseView, ServeProducts, adminVars, viewVars
  <1>3. CASE ProductsAnswered
    BY <1>1, <1>3 DEF ProductsAnswered, viewVars
  <1>9. CASE LateProductsAnswered
    BY <1>1, <1>9 DEF LateProductsAnswered, adminVars, viewVars
  <1>4. ASSUME NEW p \in Products, ChangeProduct(p) PROVE Goal
    <2>1. Send("product", p, Nothing) /\ viewLoading' = viewLoading
      BY <1>4 DEF ChangeProduct, productsVars, viewVars
    <2>2. CallsSound' /\ Keeps({})
      BY <2>1, SentKeeps
    <2> QED
      BY <2>1, <2>2 DEF Keeps, ViewWaits, UnderWay
  <1>5. ASSUME NEW p \in Products, OpenView(p) PROVE Goal
    <2>1. Send("view", p, Nothing) /\ viewLoading' = (stored # Nothing)
      BY <1>5 DEF OpenView
    <2>2. CallsSound' /\ Keeps({})
      BY <2>1, SentKeeps
    <2>3. CASE stored = Nothing
      BY <2>1, <2>2, <2>3 DEF Keeps, ViewWaits
    <2>4. CASE stored # Nothing
      <3>1. PICK new : /\ IsCall(new) /\ new.op = "view" /\ new.arg = p /\ new.here
                       /\ calls' = calls \cup {new}
        BY <2>1, <2>4, Sent
      <3> QED
        BY <2>2, <3>1 DEF Keeps, ViewWaits, UnderWay
    <2> QED
      BY <2>3, <2>4
  <1>6. CASE ServeProductChange
    <2>1. PICK c \in calls : /\ c.op = "product"
                             /\ calls' = (calls \ {c}) \cup {[c EXCEPT !.done = TRUE]}
      BY <1>6 DEF ServeProductChange, Asked
    <2>2. viewLoading' = viewLoading
      BY <1>6 DEF ServeProductChange, viewVars
    <2>3. /\ CallsSound' /\ Keeps({"product"})
          /\ \A d \in UnderWay("view") : \E e \in UnderWay("view")' : e.arg = d.arg
      BY <2>1, Handled
    <2> QED
      BY <2>2, <2>3 DEF Keeps, ProductOps, ViewWaits
  <1>7. CASE ProductChanged
    <2>1. PICK c \in calls : c.op = "product" /\ calls' = calls \ {c}
      BY <1>7, Delivered DEF ProductChanged, Asked
    <2>2. viewLoading' = viewLoading
      BY <1>7 DEF ProductChanged, viewVars
    <2>3. CallsSound' /\ Keeps({"product"}) /\ \A d \in calls : d # c => d \in calls'
      BY <2>1, Removed
    <2> QED
      BY <2>1, <2>2, <2>3 DEF Keeps, ProductOps, ViewWaits, UnderWay
  <1>8. CASE ViewAnswered
    <2>1. PICK c \in calls : /\ c.op = "view" /\ calls' = calls \ {c}
                             /\ viewLoading' = IF c.here THEN FALSE ELSE viewLoading
      BY <1>8, Delivered DEF ViewAnswered, Asked
    <2>2. CallsSound' /\ Keeps({"view"}) /\ \A d \in calls : d # c => d \in calls'
      BY <2>1, Removed
    <2> QED
      BY <2>1, <2>2 DEF Keeps, ProductOps, ViewWaits, UnderWay
  <1> QED
    BY <1>2, <1>3, <1>4, <1>5, <1>6, <1>7, <1>8, <1>9 DEF ProductsNext, ProductsAnswers

LEMMA CouponsWaitStep ==
  ASSUME CallsSound, CouponsWait, CouponsNext
  PROVE  CallsSound' /\ Keeps(CouponOps) /\ CouponsWait'
  <1> DEFINE Goal == CallsSound' /\ Keeps(CouponOps) /\ CouponsWait'
  <1>1. ASSUME UNCHANGED <<calls, submitting, deleting>> PROVE Goal
    BY <1>1, Unchanged DEF Keeps, CouponsWait, UnderWay
  <1>2. CASE ResetForm \/ ServeCoupons
    BY <1>1, <1>2 DEF ResetForm, ServeCoupons, adminVars
  <1>3. CASE CouponsAnswered
    BY <1>1, <1>3 DEF CouponsAnswered
  <1>4. ASSUME NEW k \in Coupons, StartEdit(k) PROVE Goal
    BY <1>1, <1>4 DEF StartEdit, adminVars
  <1>5. CASE HandleSubmit
    <2>1. /\ Send("save", editing, Nothing) /\ submitting' = (stored # Nothing)
          /\ ~submitting /\ deleting' = deleting
      BY <1>5 DEF HandleSubmit, CouponForm
    <2>2. CallsSound' /\ Keeps({})
      BY <2>1, SentKeeps
    <2>3. CASE stored = Nothing
      BY <2>1, <2>2, <2>3 DEF Keeps, CouponsWait, UnderWay
    <2>4. CASE stored # Nothing
      <3>1. PICK new : /\ IsCall(new) /\ new.op = "save" /\ new.arg = editing /\ new.here
                       /\ calls' = calls \cup {new}
        BY <2>1, <2>4, Sent
      <3> QED
        BY <2>1, <2>2, <3>1 DEF Keeps, CouponsWait, UnderWay
    <2> QED
      BY <2>3, <2>4
  <1>6. ASSUME NEW k \in Coupons, HandleDelete(k) PROVE Goal
    <2>1. /\ Send("delete", k, editing) /\ submitting' = submitting
          /\ deleting' = IF stored = Nothing THEN deleting ELSE k
      BY <1>6 DEF HandleDelete
    <2>2. CallsSound' /\ Keeps({})
      BY <2>1, SentKeeps
    <2>3. CASE stored = Nothing
      BY <2>1, <2>2, <2>3 DEF Keeps, CouponsWait, UnderWay
    <2>4. CASE stored # Nothing
      <3>1. PICK new : /\ IsCall(new) /\ new.op = "delete" /\ new.arg = k /\ new.here
                       /\ calls' = calls \cup {new}
        BY <2>1, <2>4, Sent
      <3> QED
        BY <2>1, <2>2, <2>4, <3>1 DEF Keeps, CouponsWait, UnderWay
    <2> QED
      BY <2>3, <2>4
  <1>7. CASE ServeCouponCall
    <2>1. PICK c \in calls : /\ c.op \in CouponOps
                             /\ calls' = (calls \ {c}) \cup {[c EXCEPT !.done = TRUE]}
      BY <1>7 DEF ServeCouponCall, Asked, CouponOps
    <2>2. submitting' = submitting /\ deleting' = deleting
      BY <1>7 DEF ServeCouponCall
    <2>3. /\ CallsSound' /\ Keeps({c.op})
          /\ \A d \in UnderWay("save") : \E e \in UnderWay("save")' : e.arg = d.arg
          /\ \A d \in UnderWay("delete") : \E e \in UnderWay("delete")' : e.arg = d.arg
      BY <2>1, Handled
    <2> QED
      BY <2>1, <2>2, <2>3 DEF Keeps, CouponsWait
  <1>8. CASE SaveAnswered
    <2>1. PICK c \in calls : /\ c.op = "save" /\ calls' = calls \ {c}
                             /\ submitting' = (submitting /\ ~c.here)
      BY <1>8, Delivered DEF SaveAnswered, Asked
    <2>2. deleting' = deleting
      BY <1>8 DEF SaveAnswered
    <2>3. CallsSound' /\ Keeps({"save"}) /\ \A d \in calls : d # c => d \in calls'
      BY <2>1, Removed
    <2> QED
      BY <2>1, <2>2, <2>3 DEF Keeps, CouponOps, CouponsWait, UnderWay
  <1>9. CASE DeleteAnswered
    <2>1. PICK c \in calls : /\ c.op = "delete" /\ calls' = calls \ {c}
                             /\ deleting' = IF c.here THEN Nothing ELSE deleting
      BY <1>9, Delivered DEF DeleteAnswered, Asked
    <2>2. submitting' = submitting
      BY <1>9 DEF DeleteAnswered
    <2>3. CallsSound' /\ Keeps({"delete"}) /\ \A d \in calls : d # c => d \in calls'
      BY <2>1, Removed
    <2> QED
      BY <2>1, <2>2, <2>3 DEF Keeps, CouponOps, CouponsWait, UnderWay
  <1> QED
    BY <1>2, <1>3, <1>4, <1>5, <1>6, <1>7, <1>8, <1>9 DEF CouponsNext, CouponsAnswers

(* A refused load of the product goes on as a load of the list.            *)
LEMMA FallenBack ==
  ASSUME NEW c, IsCall(c)
  PROVE  IsCall([c EXCEPT !.op = "fallback"])
  <1> DEFINE d == [c EXCEPT !.op = "fallback"]
  <1>1. d \in [id : Calls, op : {"fallback"}, arg : {c.arg}, context : {c.context},
               token : {c.token}, here : BOOLEAN, done : BOOLEAN]
    BY DEF IsCall
  <1>2. d.op = "fallback" /\ d.arg = c.arg /\ d.context = c.context /\ d.token = c.token
    BY DEF IsCall
  <1> HIDE DEF d
  <1>3. IsCall(d)
    BY <1>1, <1>2 DEF IsCall
  <1> QED
    BY <1>3 DEF d

LEMMA FormWaitStep ==
  ASSUME CallsSound, FormWaits, FormNext
  PROVE  CallsSound' /\ Keeps(FormOps) /\ FormWaits'
  <1> DEFINE Goal == CallsSound' /\ Keeps(FormOps) /\ FormWaits'
  <1>1. ASSUME UNCHANGED <<calls, saving, uploading>> PROVE Goal
    BY <1>1, Unchanged DEF Keeps, FormWaits, UnderWay
  <1>2. CASE EditFields \/ RemoveVariant \/ CancelNewVariantForm \/ FilesSelected \/ ClearSelection
    BY <1>1, <1>2 DEF EditFields, RemoveVariant, CancelNewVariantForm, FilesSelected,
                      ClearSelection, adminVars, imageVars
  <1>3. ASSUME NEW i, ChooseMain(i) \/ RemoveSelectedFile(i) PROVE Goal
    BY <1>1, <1>3 DEF ChooseMain, RemoveSelectedFile, adminVars, imageVars
  <1>4. ASSUME NEW op, NEW arg, NEW context, Send(op, arg, context), UNCHANGED <<saving, uploading>>
        PROVE  Goal
    <2>1. CallsSound' /\ Keeps({})
      BY <1>4, SentKeeps
    <2> QED
      BY <1>4, <2>1 DEF Keeps, FormWaits, UnderWay
  <1>5. CASE AddVariant
    <2>1. UNCHANGED <<saving, uploading>>
      BY <1>5 DEF AddVariant, imageVars
    <2>2. CASE calls' = calls
      BY <1>1, <2>1, <2>2
    <2>3. ASSUME NEW v \in Variants, Send("create", v, existing) PROVE Goal
      BY <1>4, <2>1, <2>3
    <2> QED
      BY <1>5, <2>2, <2>3 DEF AddVariant
  <1>6. ASSUME NEW v \in Variants, UpdateVariant(v) \/ DeleteVariant(v) PROVE Goal
    <2>1. UNCHANGED <<saving, uploading>>
      BY <1>6 DEF UpdateVariant, DeleteVariant, formVars, imageVars
    <2>2. Send("update", v, Nothing) \/ Send("remove", v, existing)
      BY <1>6 DEF UpdateVariant, DeleteVariant
    <2> QED
      BY <1>4, <2>1, <2>2
  <1>7. CASE SaveProduct
    <2>1. /\ Send("store", shown, Nothing) /\ saving' = (stored # Nothing)
          /\ ~saving /\ uploading' = uploading
      BY <1>7 DEF SaveProduct, SaveEnabled, imageVars
    <2>2. CallsSound' /\ Keeps({})
      BY <2>1, SentKeeps
    <2>3. CASE stored = Nothing
      BY <2>1, <2>2, <2>3 DEF Keeps, FormWaits, UnderWay
    <2>4. CASE stored # Nothing
      <3>1. PICK new : /\ IsCall(new) /\ new.op = "store" /\ new.arg = shown /\ new.here
                       /\ calls' = calls \cup {new}
        BY <2>1, <2>4, Sent
      <3> QED
        BY <2>1, <2>2, <3>1 DEF Keeps, FormWaits, UnderWay
    <2> QED
      BY <2>3, <2>4
  <1>8. CASE HandleImageUpload
    <2>1. /\ Send("upload", Nothing, Nothing) /\ uploading' = (stored # Nothing)
          /\ ~uploading /\ saving' = saving
      BY <1>8 DEF HandleImageUpload
    <2>2. CallsSound' /\ Keeps({})
      BY <2>1, SentKeeps
    <2>3. CASE stored = Nothing
      BY <2>1, <2>2, <2>3 DEF Keeps, FormWaits, UnderWay
    <2>4. CASE stored # Nothing
      <3>1. PICK new : /\ IsCall(new) /\ new.op = "upload" /\ new.arg = Nothing /\ new.here
                       /\ calls' = calls \cup {new}
        BY <2>1, <2>4, Sent
      <3> QED
        BY <2>1, <2>2, <3>1 DEF Keeps, FormWaits, UnderWay
    <2> QED
      BY <2>3, <2>4
  <1>9. ASSUME NEW c \in calls, c.op \in FormOps \ {"store", "upload"}, calls' = calls \ {c},
               UNCHANGED <<saving, uploading>>
        PROVE  Goal
    <2>1. CallsSound' /\ Keeps({c.op}) /\ \A d \in calls : d # c => d \in calls'
      BY <1>9, Removed
    <2> QED
      BY <1>9, <2>1 DEF Keeps, FormOps, FormWaits, UnderWay
  <1>10. CASE ServeVariant
    <2>1. PICK c \in calls : /\ c.op \in {"create", "remove"}
                             /\ calls' = (calls \ {c}) \cup {[c EXCEPT !.done = TRUE]}
      BY <1>10 DEF ServeVariant, Asked
    <2>2. saving' = saving /\ uploading' = uploading
      BY <1>10 DEF ServeVariant, imageVars
    <2>3. /\ CallsSound' /\ Keeps({c.op})
          /\ \A d \in UnderWay("store") : \E e \in UnderWay("store")' : e.arg = d.arg
          /\ \A d \in UnderWay("upload") : \E e \in UnderWay("upload")' : e.arg = d.arg
      BY <2>1, Handled
    <2> QED
      BY <2>1, <2>2, <2>3 DEF Keeps, FormOps, FormWaits
  <1>11. CASE FallbackFetched
    <2>1. PICK c \in calls : c.op = "fallback" /\ calls' = calls \ {c}
      BY <1>11 DEF FallbackFetched, Asked
    <2>2. UNCHANGED <<saving, uploading>>
      BY <1>11 DEF FallbackFetched, imageVars
    <2> QED
      BY <1>9, <2>1, <2>2 DEF FormOps
  <1>12. CASE ProductFetched
    <2>1. UNCHANGED <<saving, uploading>>
      BY <1>12 DEF ProductFetched, imageVars
    <2>2. PICK c \in calls, reply \in Replies :
                 /\ c.op = "fetch"
                 /\ IF reply = "refused"
                    THEN calls' = (calls \ {c}) \cup {[c EXCEPT !.op = "fallback"]}
                    ELSE Deliver(c, reply)
      BY <1>12 DEF ProductFetched, Asked
    <2>3. CASE reply = "refused"
      <3> DEFINE d == [c EXCEPT !.op = "fallback"]
      <3>1. calls' = (calls \ {c}) \cup {d}
        BY <2>2, <2>3
      <3>2. IsCall(d)
        BY CallsAre, FallenBack
      <3> HIDE DEF d
      <3>3. CallsSound'
        BY <3>1, <3>2, CallsAre, CallsArePrimed
      <3>4. \A e \in calls : e # c => e \in calls'
        BY <3>1
      <3> QED
        BY <2>1, <2>2, <3>3, <3>4 DEF Keeps, FormOps, FormWaits, UnderWay
    <2>4. CASE reply # "refused"
      BY <1>9, <2>1, <2>2, <2>4, Delivered DEF FormOps
    <2> QED
      BY <2>3, <2>4
  <1>13. CASE ProductSaved
    <2>1. PICK c \in calls : /\ c.op = "store" /\ calls' = calls \ {c}
                             /\ saving' = (saving /\ ~c.here)
      BY <1>13, Delivered DEF ProductSaved, Asked
    <2>2. uploading' = uploading
      BY <1>13 DEF ProductSaved, imageVars
    <2>3. CallsSound' /\ Keeps({"store"}) /\ \A d \in calls : d # c => d \in calls'
      BY <2>1, Removed
    <2> QED
      BY <2>1, <2>2, <2>3 DEF Keeps, FormOps, FormWaits, UnderWay
  <1>14. CASE VariantCreated
    <2>1. PICK c \in calls : c.op = "create" /\ calls' = calls \ {c}
      BY <1>14, Delivered DEF VariantCreated, Asked
    <2>2. UNCHANGED <<saving, uploading>>
      BY <1>14 DEF VariantCreated, imageVars
    <2> QED
      BY <1>9, <2>1, <2>2 DEF FormOps
  <1>15. CASE VariantUpdated
    <2>1. PICK c \in calls : c.op = "update" /\ calls' = calls \ {c}
      BY <1>15, Delivered DEF VariantUpdated, Asked
    <2>2. UNCHANGED <<saving, uploading>>
      BY <1>15 DEF VariantUpdated, formVars, imageVars
    <2> QED
      BY <1>9, <2>1, <2>2 DEF FormOps
  <1>16. CASE VariantRemoved
    <2>1. PICK c \in calls : c.op = "remove" /\ calls' = calls \ {c}
      BY <1>16, Delivered DEF VariantRemoved, Asked
    <2>2. UNCHANGED <<saving, uploading>>
      BY <1>16 DEF VariantRemoved, imageVars
    <2> QED
      BY <1>9, <2>1, <2>2 DEF FormOps
  <1>17. CASE ImagesUploaded
    <2>1. PICK c \in calls : /\ c.op = "upload" /\ calls' = calls \ {c}
                             /\ uploading' = (uploading /\ ~c.here)
      BY <1>17, Delivered DEF ImagesUploaded, Asked
    <2>2. saving' = saving
      BY <1>17 DEF ImagesUploaded
    <2>3. CallsSound' /\ Keeps({"upload"}) /\ \A d \in calls : d # c => d \in calls'
      BY <2>1, Removed
    <2> QED
      BY <2>1, <2>2, <2>3 DEF Keeps, FormOps, FormWaits, UnderWay
  <1> QED
    BY <1>2, <1>3, <1>5, <1>6, <1>7, <1>8, <1>10, <1>11, <1>12, <1>13, <1>14, <1>15, <1>16, <1>17
    DEF FormNext, FormAnswers

(* The reviews and messages wait for nothing.                              *)
LEMMA InboxCalls ==
  ASSUME CallsSound, InboxNext
  PROVE  CallsSound' /\ Keeps(InboxOps)
  <1> DEFINE Goal == CallsSound' /\ Keeps(InboxOps)
  <1>1. ASSUME calls' = calls PROVE Goal
    BY <1>1, Unchanged DEF Keeps
  <1>2. CASE \/ FilterInbox \/ TurnInbox \/ CloseEntry
             \/ ServeInbox \/ InboxAnswered \/ LateInboxAnswered
    BY <1>1, <1>2 DEF FilterInbox, TurnInbox, AskInbox, CloseEntry, ServeInbox, InboxAnswered,
                      LateInboxAnswered, adminVars
  <1>3. ASSUME NEW e \in Entries, ReadEntry(e) PROVE Goal
    BY <1>1, <1>3 DEF ReadEntry, adminVars
  <1>4. ASSUME NEW e \in Entries, ModerateReview(e) \/ ChangeMessage(e) PROVE Goal
    <2>1. Send("entry", e, Nothing)
      BY <1>4 DEF ModerateReview, ChangeMessage
    <2> QED
      BY <2>1, SentKeeps DEF Keeps
  <1>5. CASE ServeEntryChange
    <2>1. PICK c \in calls : /\ c.op = "entry"
                             /\ calls' = (calls \ {c}) \cup {[c EXCEPT !.done = TRUE]}
      BY <1>5 DEF ServeEntryChange, Asked
    <2> QED
      BY <2>1, Handled DEF InboxOps
  <1>6. CASE EntryChanged
    <2>1. PICK c \in calls : c.op = "entry" /\ calls' = calls \ {c}
      BY <1>6, Delivered DEF EntryChanged, Asked
    <2> QED
      BY <2>1, Removed DEF InboxOps
  <1> QED
    BY <1>2, <1>3, <1>4, <1>5, <1>6 DEF InboxNext, InboxAnswers

--------------------------------------------------------------------------------
(* Loads of lists *)

OrderRows == orderList' \in {Nothing, orderList} \/ orderList'.query = query'
ProductRows ==
  \/ productList' \in {Nothing, productList}
  \/ productList'.page = page' /\ productList'.read >= productAcked'
  \/ \E l \in lateProducts :
       /\ lateProducts' = lateProducts \ {l}
       /\ productList'.page = l.page /\ productList'.read = l.read
CouponRows == couponList' \in {Nothing, couponList} \/ couponList' >= couponAcked'
InboxRows ==
  \/ inboxList' \in {Nothing, inboxList}
  \/ inboxList'.query = inboxQuery' /\ inboxList'.read >= inboxAcked'
  \/ \E l \in lateInbox :
       /\ lateInbox' = lateInbox \ {l}
       /\ inboxList'.query = l.query /\ inboxList'.read = l.read

LEMMA OrderLoads ==
  ASSUME OrderLoadSound, OrdersNext
  PROVE  OrderLoadSound' /\ OrderRows
  <1> DEFINE Goal == OrderLoadSound' /\ OrderRows
  <1>1. ASSUME UNCHANGED <<query, orderLoad, orderList>> PROVE Goal
    BY <1>1 DEF OrderLoadSound, OrderRows
  <1>2. ASSUME NEW q, ChangeQuery(q) PROVE Goal
    <2>1. query' = q /\ orderList' = orderList
      BY <1>2 DEF ChangeQuery
    <2>2. CASE q = query
      BY <1>1, <1>2, <2>1, <2>2 DEF ChangeQuery
    <2>3. CASE q # query
      <3>1. orderLoad' = IF stored = Nothing THEN Nothing ELSE [token |-> stored, query |-> q]
        BY <1>2, <2>3 DEF ChangeQuery, LoadOrders, OrderRequest
      <3> QED
        BY <2>1, <3>1 DEF OrderLoadSound, OrderRows
    <2> QED
      BY <2>2, <2>3
  <1>3. CASE ChangePage
    BY <1>2, <1>3 DEF ChangePage
  <1>4. CASE ChangeFilter
    BY <1>2, <1>4 DEF ChangeFilter
  <1>5. CASE HandlePaymentChange \/ CloseModal
    BY <1>1, <1>5 DEF HandlePaymentChange, CloseModal
  <1>6. ASSUME NEW o \in Orders, HandleStatusChange(o) \/ OpenOrderDetail(o) PROVE Goal
    BY <1>1, <1>6 DEF HandleStatusChange, OpenOrderDetail
  <1>7. CASE StatusAnswered \/ PaymentAnswered \/ DetailAnswered
    BY <1>1, <1>7 DEF StatusAnswered, PaymentAnswered, DetailAnswered
  <1>8. CASE OrdersAnswered
    <2>1. orderLoad # Nothing /\ orderLoad' = Nothing /\ query' = query
      BY <1>8 DEF OrdersAnswered
    <2>2. orderList' = orderList \/ \E pages : orderList' = [query |-> orderLoad.query, pages |-> pages]
      BY <1>8 DEF OrdersAnswered
    <2> QED
      BY <2>1, <2>2 DEF OrderLoadSound, OrderRows
  <1> QED
    BY <1>3, <1>4, <1>5, <1>6, <1>7, <1>8 DEF OrdersNext, OrdersAnswers

(* A list the API has not read yet. *)
LEMMA ProductRequested ==
  ASSUME TypeOK, NEW p, ProductRequest(p) # Nothing
  PROVE  /\ ProductRequest(p) \in [token : Tokens, page : {p}, done : BOOLEAN, read : Nat]
         /\ ~ProductRequest(p).done
  BY DEF TypeOK, ProductRequest

LEMMA ProductLoads ==
  ASSUME TypeOK, ProductLoadSound, ProductsNext
  PROVE  ProductLoadSound' /\ ProductRows
  <1> DEFINE Goal == ProductLoadSound' /\ ProductRows
  <1>1. ASSUME UNCHANGED <<page, productLoad, productList, productWrites, productAcked>> PROVE Goal
    BY <1>1 DEF ProductLoadSound, ProductRows
  <1>2. CASE CloseView
    BY <1>1, <1>2 DEF CloseView
  <1>3. ASSUME NEW p \in Products, ChangeProduct(p) \/ OpenView(p) PROVE Goal
    BY <1>1, <1>3 DEF ChangeProduct, OpenView, productsVars
  <1>4. CASE ViewAnswered
    BY <1>1, <1>4 DEF ViewAnswered
  <1>5. CASE TurnPage
    <2>1. /\ productLoad' = ProductRequest(page')
          /\ UNCHANGED <<productList, productWrites, productAcked>>
      BY <1>5 DEF TurnPage, LoadProducts
    <2>2. productLoad' # Nothing =>
            /\ productLoad' \in [token : Tokens, page : {page'}, done : BOOLEAN, read : Nat]
            /\ ~productLoad'.done
      BY <2>1, ProductRequested
    <2> QED
      BY <2>1, <2>2 DEF ProductLoadSound, ProductRows
  <1>6. CASE ServeProducts
    <2> DEFINE served == [productLoad EXCEPT !.done = TRUE, !.read = productWrites]
    <2>1. /\ productLoad # Nothing /\ productLoad' = served
          /\ UNCHANGED <<page, productList, productWrites, productAcked>>
      BY <1>6 DEF ServeProducts
    <2>2. productLoad \in [token : Tokens, page : {page}, done : BOOLEAN, read : Nat]
          /\ productWrites \in Nat /\ productAcked \in 0..productWrites
      BY <2>1 DEF ProductLoadSound
    <2>3. served \in [token : Tokens, page : {page}, done : BOOLEAN, read : Nat]
          /\ served.read = productWrites
      BY <2>2
    <2> HIDE DEF served
    <2> QED
      BY <2>1, <2>2, <2>3 DEF ProductLoadSound, ProductRows
  <1>7. CASE ProductsAnswered
    <2>1. /\ productLoad # Nothing /\ productLoad' = Nothing
          /\ UNCHANGED <<page, productWrites, productAcked>>
      BY <1>7 DEF ProductsAnswered
    <2>2. PICK reply \in Outcomes(productLoad), pages \in 0..LastProductPage :
            productList' = IF reply = "ok"
                           THEN [page |-> productLoad.page, pages |-> pages,
                                 read |-> productLoad.read]
                           ELSE productList
      BY <1>7 DEF ProductsAnswered
    <2>3. CASE reply = "ok"
      <3>1. productLoad.done
        BY <2>2, <2>3 DEF Outcomes, Refusals
      <3>2. productLoad.page = page /\ productLoad.read >= productAcked
        BY <2>1, <3>1 DEF ProductLoadSound
      <3>3. productList'.page = productLoad.page /\ productList'.read = productLoad.read
        BY <2>2, <2>3
      <3> QED
        BY <2>1, <3>2, <3>3 DEF ProductLoadSound, ProductRows
    <2>4. CASE reply # "ok"
      BY <2>1, <2>2, <2>4 DEF ProductLoadSound, ProductRows
    <2> QED
      BY <2>3, <2>4
  <1>8. CASE ServeProductChange
    <2>1. productWrites' = productWrites + 1
          /\ UNCHANGED <<page, productLoad, productList, productAcked>>
      BY <1>8 DEF ServeProductChange
    <2> QED
      BY <2>1 DEF ProductLoadSound, ProductRows
  <1>9. CASE ProductChanged
    <2>1. UNCHANGED <<page, productList, productWrites>>
      BY <1>9 DEF ProductChanged
    <2>2. CASE UNCHANGED <<productAcked, productLoad>>
      BY <1>1, <2>1, <2>2
    <2>3. CASE productAcked' = productWrites /\ LoadProducts(page)
      <3>1. productLoad' # Nothing =>
              /\ productLoad' \in [token : Tokens, page : {page}, done : BOOLEAN, read : Nat]
              /\ ~productLoad'.done
        BY <2>3, ProductRequested DEF LoadProducts
      <3> QED
        BY <2>1, <2>3, <3>1 DEF ProductLoadSound, ProductRows
    <2> QED
      BY <1>9, <2>2, <2>3 DEF ProductChanged
  <1>10. CASE LateProductsAnswered
    <2>1. UNCHANGED <<page, productLoad, productWrites, productAcked>>
      BY <1>10 DEF LateProductsAnswered
    <2>2. PICK l \in lateProducts, pages \in 0..LastProductPage :
            /\ lateProducts' = lateProducts \ {l}
            /\ \/ productList' = [page |-> l.page, pages |-> pages, read |-> l.read]
               \/ productList' = productList
      BY <1>10 DEF LateProductsAnswered
    <2> QED
      BY <2>1, <2>2 DEF ProductLoadSound, ProductRows
  <1> QED
    BY <1>2, <1>3, <1>4, <1>5, <1>6, <1>7, <1>8, <1>9, <1>10 DEF ProductsNext, ProductsAnswers

LEMMA CouponRequested ==
  ASSUME TypeOK, CouponRequest # Nothing
  PROVE  /\ CouponRequest \in [token : Tokens, done : BOOLEAN, read : Nat]
         /\ ~CouponRequest.done
  BY DEF TypeOK, CouponRequest

LEMMA CouponLoads ==
  ASSUME TypeOK, CouponLoadSound, CouponsNext
  PROVE  CouponLoadSound' /\ CouponRows
  <1> DEFINE Goal == CouponLoadSound' /\ CouponRows
  <1>1. ASSUME UNCHANGED <<couponLoad, couponList, couponWrites, couponAcked>> PROVE Goal
    BY <1>1 DEF CouponLoadSound, CouponRows
  <1>2. CASE ResetForm \/ HandleSubmit
    BY <1>1, <1>2 DEF ResetForm, HandleSubmit
  <1>3. ASSUME NEW k \in Coupons, StartEdit(k) \/ HandleDelete(k) PROVE Goal
    BY <1>1, <1>3 DEF StartEdit, HandleDelete
  <1>4. CASE ServeCoupons
    <2> DEFINE served == [couponLoad EXCEPT !.done = TRUE, !.read = couponWrites]
    <2>1. /\ couponLoad # Nothing /\ couponLoad' = served
          /\ UNCHANGED <<couponList, couponWrites, couponAcked>>
      BY <1>4 DEF ServeCoupons
    <2>2. couponLoad \in [token : Tokens, done : BOOLEAN, read : Nat]
          /\ couponWrites \in Nat /\ couponAcked \in 0..couponWrites
      BY <2>1 DEF CouponLoadSound
    <2>3. served \in [token : Tokens, done : BOOLEAN, read : Nat]
          /\ served.read = couponWrites
      BY <2>2
    <2> HIDE DEF served
    <2> QED
      BY <2>1, <2>2, <2>3 DEF CouponLoadSound, CouponRows
  <1>5. CASE CouponsAnswered
    <2>1. couponLoad # Nothing /\ couponLoad' = Nothing /\ UNCHANGED <<couponWrites, couponAcked>>
      BY <1>5 DEF CouponsAnswered
    <2>2. PICK reply \in Outcomes(couponLoad) :
            couponList' = IF reply = "ok" THEN couponLoad.read ELSE couponList
      BY <1>5 DEF CouponsAnswered
    <2>3. reply = "ok" => couponLoad.done
      BY <2>2 DEF Outcomes, Refusals
    <2> QED
      BY <2>1, <2>2, <2>3 DEF CouponLoadSound, CouponRows
  <1>6. CASE ServeCouponCall
    <2>1. couponWrites' = couponWrites + 1 /\ UNCHANGED <<couponLoad, couponList, couponAcked>>
      BY <1>6 DEF ServeCouponCall
    <2> QED
      BY <2>1 DEF CouponLoadSound, CouponRows
  <1>7. CASE SaveAnswered \/ DeleteAnswered
    <2>1. UNCHANGED <<couponList, couponWrites>>
      BY <1>7 DEF SaveAnswered, DeleteAnswered
    <2>2. CASE UNCHANGED <<couponAcked, couponLoad>>
      BY <1>1, <2>1, <2>2
    <2>3. CASE couponAcked' = couponWrites /\ LoadCoupons
      <3>1. couponLoad' # Nothing =>
              couponLoad' \in [token : Tokens, done : BOOLEAN, read : Nat] /\ ~couponLoad'.done
        BY <2>3, CouponRequested DEF LoadCoupons
      <3> QED
        BY <2>1, <2>3, <3>1 DEF CouponLoadSound, CouponRows
    <2> QED
      BY <1>7, <2>2, <2>3 DEF SaveAnswered, DeleteAnswered, ReloadCoupons
  <1> QED
    BY <1>2, <1>3, <1>4, <1>5, <1>6, <1>7 DEF CouponsNext, CouponsAnswers

LEMMA InboxRequested ==
  ASSUME TypeOK, NEW q, InboxRequest(q) # Nothing
  PROVE  /\ InboxRequest(q) \in [token : Tokens, query : {q}, done : BOOLEAN, read : Nat]
         /\ ~InboxRequest(q).done
  BY DEF TypeOK, InboxRequest

LEMMA InboxLoads ==
  ASSUME TypeOK, InboxLoadSound, InboxNext
  PROVE  InboxLoadSound' /\ InboxRows
  <1> DEFINE Goal == InboxLoadSound' /\ InboxRows
  <1>1. ASSUME UNCHANGED <<inboxQuery, inboxLoad, inboxList, inboxWrites, inboxAcked>> PROVE Goal
    BY <1>1 DEF InboxLoadSound, InboxRows
  <1>2. ASSUME NEW q, AskInbox(q) PROVE Goal
    <2>1. inboxQuery' = q /\ UNCHANGED <<inboxList, inboxWrites, inboxAcked>>
      BY <1>2 DEF AskInbox
    <2>2. CASE q = inboxQuery
      BY <1>1, <1>2, <2>1, <2>2 DEF AskInbox
    <2>3. CASE q # inboxQuery
      <3>1. inboxLoad' = InboxRequest(q)
        BY <1>2, <2>3 DEF AskInbox, LoadInbox
      <3>2. inboxLoad' # Nothing =>
              /\ inboxLoad' \in [token : Tokens, query : {q}, done : BOOLEAN, read : Nat]
              /\ ~inboxLoad'.done
        BY <3>1, InboxRequested
      <3> QED
        BY <2>1, <3>2 DEF InboxLoadSound, InboxRows
    <2> QED
      BY <2>2, <2>3
  <1>3. CASE FilterInbox \/ TurnInbox
    BY <1>2, <1>3 DEF FilterInbox, TurnInbox
  <1>4. CASE CloseEntry
    BY <1>1, <1>4 DEF CloseEntry
  <1>5. ASSUME NEW e \in Entries, ModerateReview(e) \/ ChangeMessage(e) \/ ReadEntry(e) PROVE Goal
    BY <1>1, <1>5 DEF ModerateReview, ChangeMessage, ReadEntry, inboxVars
  <1>6. CASE ServeInbox
    <2> DEFINE served == [inboxLoad EXCEPT !.done = TRUE, !.read = inboxWrites]
    <2>1. /\ inboxLoad # Nothing /\ inboxLoad' = served
          /\ UNCHANGED <<inboxQuery, inboxList, inboxWrites, inboxAcked>>
      BY <1>6 DEF ServeInbox
    <2>2. inboxLoad \in [token : Tokens, query : {inboxQuery}, done : BOOLEAN, read : Nat]
          /\ inboxWrites \in Nat /\ inboxAcked \in 0..inboxWrites
      BY <2>1 DEF InboxLoadSound
    <2>3. served \in [token : Tokens, query : {inboxQuery}, done : BOOLEAN, read : Nat]
          /\ served.read = inboxWrites
      BY <2>2
    <2> HIDE DEF served
    <2> QED
      BY <2>1, <2>2, <2>3 DEF InboxLoadSound, InboxRows
  <1>7. CASE InboxAnswered
    <2>1. /\ inboxLoad # Nothing /\ inboxLoad' = Nothing
          /\ UNCHANGED <<inboxQuery, inboxWrites, inboxAcked>>
      BY <1>7 DEF InboxAnswered
    <2>2. PICK reply \in Outcomes(inboxLoad), pages \in 0..LastInboxPage :
            inboxList' = IF reply = "ok"
                         THEN [query |-> inboxLoad.query, pages |-> pages, read |-> inboxLoad.read]
                         ELSE inboxList
      BY <1>7 DEF InboxAnswered
    <2>3. CASE reply = "ok"
      <3>1. inboxLoad.done
        BY <2>2, <2>3 DEF Outcomes, Refusals
      <3>2. inboxLoad.query = inboxQuery /\ inboxLoad.read >= inboxAcked
        BY <2>1, <3>1 DEF InboxLoadSound
      <3>3. inboxList'.query = inboxLoad.query /\ inboxList'.read = inboxLoad.read
        BY <2>2, <2>3
      <3> QED
        BY <2>1, <3>2, <3>3 DEF InboxLoadSound, InboxRows
    <2>4. CASE reply # "ok"
      BY <2>1, <2>2, <2>4 DEF InboxLoadSound, InboxRows
    <2> QED
      BY <2>3, <2>4
  <1>8. CASE ServeEntryChange
    <2>1. inboxWrites' = inboxWrites + 1
          /\ UNCHANGED <<inboxQuery, inboxLoad, inboxList, inboxAcked>>
      BY <1>8 DEF ServeEntryChange
    <2> QED
      BY <2>1 DEF InboxLoadSound, InboxRows
  <1>9. CASE EntryChanged
    <2>1. UNCHANGED <<inboxQuery, inboxList, inboxWrites>>
      BY <1>9 DEF EntryChanged
    <2>2. CASE UNCHANGED <<inboxAcked, inboxLoad>>
      BY <1>1, <2>1, <2>2
    <2>3. CASE inboxAcked' = inboxWrites /\ LoadInbox(inboxQuery)
      <3>1. inboxLoad' # Nothing =>
              /\ inboxLoad' \in [token : Tokens, query : {inboxQuery}, done : BOOLEAN, read : Nat]
              /\ ~inboxLoad'.done
        BY <2>3, InboxRequested DEF LoadInbox
      <3> QED
        BY <2>1, <2>3, <3>1 DEF InboxLoadSound, InboxRows
    <2> QED
      BY <1>9, <2>2, <2>3 DEF EntryChanged
  <1>10. CASE LateInboxAnswered
    <2>1. UNCHANGED <<inboxQuery, inboxLoad, inboxWrites, inboxAcked>>
      BY <1>10 DEF LateInboxAnswered
    <2>2. PICK l \in lateInbox, pages \in 0..LastInboxPage :
            /\ lateInbox' = lateInbox \ {l}
            /\ \/ inboxList' = [query |-> l.query, pages |-> pages, read |-> l.read]
               \/ inboxList' = inboxList
      BY <1>10 DEF LateInboxAnswered
    <2> QED
      BY <2>1, <2>2 DEF InboxLoadSound, InboxRows
  <1> QED
    BY <1>3, <1>4, <1>5, <1>6, <1>7, <1>8, <1>9, <1>10 DEF InboxNext, InboxAnswers

--------------------------------------------------------------------------------
(* Images *)

(* What RemoveAt leaves: the files behind the removed one move up.         *)
LEMMA AfterRemoval ==
  ASSUME NEW S, NEW s \in Seq(S), NEW i \in 1..Len(s)
  PROVE  /\ RemoveAt(s, i) \in Seq(S)
         /\ Len(RemoveAt(s, i)) = Len(s) - 1
         /\ \A j \in 1..(Len(s) - 1) : RemoveAt(s, i)[j] = IF j < i THEN s[j] ELSE s[j + 1]
  <1> DEFINE before == SubSeq(s, 1, i - 1)
             after == SubSeq(s, i + 1, Len(s))
  <1>1. /\ before \in Seq(S) /\ Len(before) = i - 1
        /\ \A j \in 1..(i - 1) : before[j] = s[j]
    OBVIOUS
  <1>2. /\ after \in Seq(S) /\ Len(after) = Len(s) - i
        /\ \A j \in 1..(Len(s) - i) : after[j] = s[i + j]
    OBVIOUS
  <1>3. RemoveAt(s, i) = before \o after
    BY DEF RemoveAt
  <1> HIDE DEF before, after
  <1>4. /\ before \o after \in Seq(S)
        /\ Len(before \o after) = Len(s) - 1
    BY <1>1, <1>2
  <1>5. ASSUME NEW j \in 1..(Len(s) - 1)
        PROVE  (before \o after)[j] = IF j < i THEN s[j] ELSE s[j + 1]
    <2>1. CASE j < i
      BY <1>1, <1>2, <2>1
    <2>2. CASE j >= i
      <3>1. (before \o after)[j] = after[j - (i - 1)]
        BY <1>1, <1>2, <2>2
      <3>2. after[j - (i - 1)] = s[i + (j - (i - 1))]
        BY <1>2, <2>2
      <3>3. i + (j - (i - 1)) = j + 1
        OBVIOUS
      <3> QED
        BY <2>2, <3>1, <3>2, <3>3
    <2>3. j < i \/ j >= i
      OBVIOUS
    <2> QED
      BY <2>1, <2>2, <2>3
  <1> QED
    BY <1>3, <1>4, <1>5

LEMMA ImagesStep ==
  ASSUME ImagesSound, FormNext
  PROVE  ImagesSound'
  <1>1. ASSUME UNCHANGED <<selectedFiles, mainIndex, mainChosen>> PROVE ImagesSound'
    BY <1>1 DEF ImagesSound, MainImageIsChosen
  <1>2. ASSUME selectedFiles' = <<>>, mainIndex' = 0 PROVE ImagesSound'
    BY <1>2 DEF ImagesSound, MainImageIsChosen
  <1>3. CASE EditFields \/ SaveProduct \/ AddVariant \/ RemoveVariant \/ CancelNewVariantForm
    BY <1>1, <1>3 DEF EditFields, SaveProduct, AddVariant, RemoveVariant, CancelNewVariantForm,
                      imageVars
  <1>4. ASSUME NEW v \in Variants, UpdateVariant(v) \/ DeleteVariant(v) PROVE ImagesSound'
    BY <1>1, <1>4 DEF UpdateVariant, DeleteVariant, formVars, imageVars
  <1>5. CASE HandleImageUpload
    BY <1>1, <1>5 DEF HandleImageUpload
  <1>6. CASE ClearSelection
    BY <1>2, <1>6 DEF ClearSelection
  <1>7. CASE FilesSelected
    <2>1. PICK f \in Files : selectedFiles' = Append(selectedFiles, f)
      BY <1>7 DEF FilesSelected
    <2>2. UNCHANGED <<mainIndex, mainChosen>>
      BY <1>7 DEF FilesSelected
    <2> QED
      BY <2>1, <2>2 DEF ImagesSound, MainImageIsChosen
  <1>8. ASSUME NEW i \in 1..Len(selectedFiles), ChooseMain(i) PROVE ImagesSound'
    BY <1>8 DEF ChooseMain, ImagesSound, MainImageIsChosen
  <1>9. ASSUME NEW i \in 1..Len(selectedFiles), RemoveSelectedFile(i) PROVE ImagesSound'
    <2>1. /\ selectedFiles' = RemoveAt(selectedFiles, i)
          /\ mainIndex' = MainAfterRemoval(i)
          /\ mainIndex # i => mainChosen' = mainChosen
      BY <1>9 DEF RemoveSelectedFile
    <2>2. /\ selectedFiles' \in Seq(Files) /\ Len(selectedFiles') = Len(selectedFiles) - 1
          /\ \A j \in 1..(Len(selectedFiles) - 1) :
               selectedFiles'[j] = IF j < i THEN selectedFiles[j] ELSE selectedFiles[j + 1]
      BY <2>1, AfterRemoval DEF ImagesSound
    <2>3. CASE mainIndex \in {0, i}
      <3>1. mainIndex' = 0
        BY <2>1, <2>3 DEF MainAfterRemoval
      <3> QED
        BY <2>2, <3>1 DEF ImagesSound, MainImageIsChosen
    <2>4. CASE mainIndex > i
      <3>1. mainIndex \in Nat /\ mainIndex <= Len(selectedFiles)
            /\ selectedFiles[mainIndex] = mainChosen
        BY <2>4 DEF ImagesSound, MainImageIsChosen
      <3>2. mainIndex' = mainIndex - 1 /\ mainChosen' = mainChosen
        BY <2>1, <2>4, <3>1 DEF MainAfterRemoval
      <3>3. mainIndex - 1 \in 1..(Len(selectedFiles) - 1) /\ ~(mainIndex - 1 < i)
            /\ (mainIndex - 1) + 1 = mainIndex
        BY <2>4, <3>1 DEF ImagesSound
      <3>4. selectedFiles'[mainIndex - 1] = selectedFiles[mainIndex]
        BY <2>2, <3>3
      <3> QED
        BY <2>2, <3>1, <3>2, <3>3, <3>4 DEF ImagesSound, MainImageIsChosen
    <2>5. CASE mainIndex # 0 /\ mainIndex < i
      <3>1. mainIndex \in Nat /\ selectedFiles[mainIndex] = mainChosen
        BY <2>5 DEF ImagesSound, MainImageIsChosen
      <3>2. mainIndex' = mainIndex /\ mainChosen' = mainChosen
        BY <2>1, <2>5, <3>1 DEF MainAfterRemoval
      <3>3. mainIndex \in 1..(Len(selectedFiles) - 1)
        BY <2>5, <3>1 DEF ImagesSound
      <3> QED
        BY <2>2, <2>5, <3>1, <3>2, <3>3 DEF ImagesSound, MainImageIsChosen
    <2> QED
      BY <2>3, <2>4, <2>5 DEF ImagesSound
  <1>10. CASE ServeVariant \/ ProductFetched \/ FallbackFetched \/ ProductSaved
              \/ VariantCreated \/ VariantRemoved
    BY <1>1, <1>10 DEF ServeVariant, ProductFetched, FallbackFetched, ProductSaved,
                       VariantCreated, VariantRemoved, imageVars
  <1>11. CASE VariantUpdated
    BY <1>1, <1>11 DEF VariantUpdated, formVars, imageVars
  <1>12. CASE ImagesUploaded
    BY <1>1, <1>2, <1>12 DEF ImagesUploaded
  <1> QED
    BY <1>3, <1>4, <1>5, <1>6, <1>7, <1>8, <1>9, <1>10, <1>11, <1>12 DEF FormNext, FormAnswers

--------------------------------------------------------------------------------
(* A page is mounted *)

(* Nothing waits on a page that was just mounted, or is not.               *)
LEMMA Mounted ==
  ASSUME TypeOK, CookieFollowsStore,
         NEW target \in Pages, NEW left, \A c \in left : IsCall(c),
         NEW newShell, NEW cookieNow \in {cookie, FALSE},
         Mount(target, left, newShell, cookieNow)
  PROVE  IInv' /\ OrderRows /\ ProductRows /\ CouponRows /\ InboxRows
  <1>1. TypeOK' /\ CookieFollowsStore'
    <2>1. shown' = target /\ live' = live
      BY DEF Mount
    <2>2. check' \in {Nothing, stored, check}
      BY DEF Mount
    <2>3. \/ RedirectToLogin
          \/ stored' = stored /\ cookie' = cookieNow /\ going' \in {SignInOpened, Nothing}
      BY DEF Mount
    <2>4. CASE RedirectToLogin
      <3>1. stored' = Nothing /\ cookie' = FALSE /\ going' = "login"
        BY <2>4 DEF RedirectToLogin, ClearAdminSession
      <3> QED
        BY <2>1, <2>2, <3>1 DEF TypeOK, CookieFollowsStore, Pages
    <2>5. CASE stored' = stored /\ cookie' = cookieNow /\ going' \in {SignInOpened, Nothing}
      <3>1. stored' \in Tokens \cup {Nothing} /\ live' \subseteq Tokens /\ shown' \in Pages
            /\ check' \in Tokens \cup {Nothing}
        BY <2>1, <2>2, <2>5 DEF TypeOK
      <3>2. going' \in Pages \cup {Nothing}
        BY <2>5 DEF SignInOpened, Pages
      <3>3. CASE cookieNow = cookie
        BY <2>5, <3>1, <3>2, <3>3 DEF TypeOK, CookieFollowsStore
      <3>4. CASE cookieNow = FALSE
        BY <2>5, <3>1, <3>2, <3>4 DEF TypeOK, CookieFollowsStore
      <3> QED
        BY <3>3, <3>4
    <2> QED
      BY <2>3, <2>4, <2>5
  <1>2. CallsSound'
    <2>1. CASE calls' = left
      BY <2>1, CallsArePrimed
    <2>2. ASSUME NEW id \in Calls,
                 calls' = left \cup {[id |-> id, op |-> "fetch", arg |-> Nothing,
                                      context |-> Nothing, token |-> stored,
                                      here |-> TRUE, done |-> FALSE]}
          PROVE  CallsSound'
      <3> DEFINE new == [id |-> id, op |-> "fetch", arg |-> Nothing, context |-> Nothing,
                         token |-> stored, here |-> TRUE, done |-> FALSE]
      <3>1. IsCall(new)
        BY DEF IsCall
      <3>2. calls' = left \cup {new}
        BY <2>2
      <3> HIDE DEF new
      <3> QED
        BY <3>1, <3>2, CallsArePrimed
    <2> QED
      BY <2>1, <2>2 DEF Mount
  <1>3. OrderLoadSound' /\ OrderRows /\ SelectsWaitForAnswers'
    <2>1. OrdersFresh(OrderRequest(FirstQuery)) \/ OrdersFresh(Nothing)
      BY DEF Mount, OrdersOpened, OrdersClosed
    <2>2. /\ query' = FirstQuery /\ orderList' = Nothing
          /\ updating' = Nothing /\ detailLoading' = FALSE
          /\ orderLoad' \in {Nothing, OrderRequest(FirstQuery)}
      BY <2>1 DEF OrdersFresh
    <2> QED
      BY <2>2 DEF OrderLoadSound, OrderRows, SelectsWaitForAnswers, OrderRequest
  <1>4. ProductLoadSound' /\ ProductRows /\ ViewWaits'
    <2>1. ProductsFresh(ProductRequest(1)) \/ ProductsFresh(Nothing)
      BY DEF Mount, ProductsOpened, ProductsClosed
    <2>2. /\ page' = 1 /\ productList' = Nothing /\ viewLoading' = FALSE
          /\ productWrites' = 0 /\ productAcked' = 0
          /\ productLoad' \in {Nothing, ProductRequest(1)}
      BY <2>1 DEF ProductsFresh
    <2>3. productLoad' # Nothing =>
            /\ productLoad' \in [token : Tokens, page : {1}, done : BOOLEAN, read : Nat]
            /\ ~productLoad'.done
      BY <2>2, ProductRequested
    <2> QED
      BY <2>2, <2>3 DEF ProductLoadSound, ProductRows, ViewWaits
  <1>5. CouponLoadSound' /\ CouponRows /\ CouponsWait'
    <2>1. CouponsFresh(CouponRequest) \/ CouponsFresh(Nothing)
      BY DEF Mount, CouponsOpened, CouponsClosed
    <2>2. /\ couponList' = Nothing /\ submitting' = FALSE /\ deleting' = Nothing
          /\ couponWrites' = 0 /\ couponAcked' = 0
          /\ couponLoad' \in {Nothing, CouponRequest}
      BY <2>1 DEF CouponsFresh
    <2>3. couponLoad' # Nothing =>
            couponLoad' \in [token : Tokens, done : BOOLEAN, read : Nat] /\ ~couponLoad'.done
      BY <2>2, CouponRequested
    <2> QED
      BY <2>2, <2>3 DEF CouponLoadSound, CouponRows, CouponsWait
  <1>6. FormWaits' /\ ImagesSound'
    <2>1. /\ saving' = FALSE /\ uploading' = FALSE
          /\ selectedFiles' = <<>> /\ mainIndex' = 0
      BY DEF Mount, FormClosed
    <2> QED
      BY <2>1 DEF FormWaits, ImagesSound, MainImageIsChosen
  <1>7. InboxLoadSound' /\ InboxRows
    <2>1. InboxFresh(InboxRequest(FirstInboxQuery)) \/ InboxFresh(Nothing)
      BY DEF Mount, InboxOpened, InboxClosed
    <2>2. /\ inboxQuery' = FirstInboxQuery /\ inboxList' = Nothing
          /\ inboxWrites' = 0 /\ inboxAcked' = 0
          /\ inboxLoad' \in {Nothing, InboxRequest(FirstInboxQuery)}
      BY <2>1 DEF InboxFresh
    <2>3. inboxLoad' # Nothing =>
            /\ inboxLoad' \in [token : Tokens, query : {FirstInboxQuery}, done : BOOLEAN, read : Nat]
            /\ ~inboxLoad'.done
      BY <2>2, InboxRequested
    <2> QED
      BY <2>2, <2>3 DEF InboxLoadSound, InboxRows
  <1> QED
    BY <1>1, <1>2, <1>3, <1>4, <1>5, <1>6, <1>7, ButtonsArePrimed DEF IInv

(* A request that lost its page is the same request.                       *)
LEMMA OrphansAre ==
  ASSUME CallsSound
  PROVE  \A c \in Orphaned : IsCall(c)
  <1> SUFFICES ASSUME NEW b \in calls PROVE IsCall([b EXCEPT !.here = FALSE])
    BY DEF Orphaned
  <1> DEFINE d == [b EXCEPT !.here = FALSE]
  <1>1. IsCall(b)
    BY CallsAre
  <1>2. d \in [id : Calls, op : {b.op}, arg : {b.arg}, context : {b.context},
               token : {b.token}, here : BOOLEAN, done : BOOLEAN]
    BY <1>1 DEF IsCall
  <1>3. d.op = b.op /\ d.arg = b.arg /\ d.context = b.context /\ d.token = b.token
    BY <1>1 DEF IsCall
  <1> HIDE DEF d
  <1>4. IsCall(d)
    BY <1>2, <1>3 DEF IsCall
  <1> QED
    BY <1>4 DEF d

(* What a step of the session leaves alone.                                *)
LEMMA PagesKept ==
  ASSUME IInv, UNCHANGED pagesVars, CallsSound', Keeps({"login"}), TypeOK', CookieFollowsStore'
  PROVE  IInv' /\ OrderRows /\ ProductRows /\ CouponRows /\ InboxRows
  <1>1. ViewWaits /\ CouponsWait /\ FormWaits /\ SelectsWaitForAnswers
    BY ButtonsAre DEF IInv
  <1>2. UNCHANGED <<ordersVars, productsVars, couponsVars, formVars, inboxVars>>
    BY DEF pagesVars
  <1>3. SelectsWaitForAnswers' /\ ViewWaits' /\ CouponsWait' /\ FormWaits'
    BY <1>1, <1>2, OthersWait DEF OrderOps, ProductOps, CouponOps, FormOps
  <1>4. ImagesSound' /\ OrderLoadSound' /\ ProductLoadSound' /\ CouponLoadSound'
    BY <1>2 DEF IInv, ImagesSound, MainImageIsChosen, OrderLoadSound, ProductLoadSound,
                CouponLoadSound, ordersVars, productsVars, couponsVars, formVars, imageVars
  <1>5. OrderRows /\ ProductRows /\ CouponRows
    BY <1>2 DEF OrderRows, ProductRows, CouponRows, ordersVars, productsVars, couponsVars
  <1>6. InboxLoadSound' /\ InboxRows
    BY <1>2 DEF IInv, InboxLoadSound, InboxRows, inboxVars
  <1> QED
    BY <1>3, <1>4, <1>5, <1>6, ButtonsArePrimed DEF IInv

--------------------------------------------------------------------------------
(* Every step *)

Rows == OrderRows /\ ProductRows /\ CouponRows /\ InboxRows

LEMMA SessionStep ==
  ASSUME IInv, Session
  PROVE  IInv' /\ Rows
  <1>1. TypeOK /\ CookieFollowsStore /\ CallsSound
    BY DEF IInv
  <1> DEFINE Goal == TypeOK' /\ CookieFollowsStore' /\ CallsSound' /\ Keeps({"login"})
  <1>2. ASSUME calls' = calls PROVE CallsSound' /\ Keeps({"login"})
    BY <1>1, <1>2, Unchanged DEF Keeps
  <1>3. ASSUME SubmitSignIn PROVE Goal
    <2>1. AdminRequest("login", Nothing, Nothing) /\ UNCHANGED <<sessionVars, shellVars>>
      BY <1>3 DEF SubmitSignIn
    <2>2. CallsSound' /\ Keeps({})
      BY <1>1, <2>1, Requested, Added
    <2> QED
      BY <1>1, <2>1, <2>2 DEF Keeps, TypeOK, CookieFollowsStore, sessionVars, shellVars
  <1>4. ASSUME SignInAnswered PROVE Goal
    <2>1. PICK c \in calls : c.op = "login" /\ calls' = calls \ {c}
      BY <1>4 DEF SignInAnswered, Asked
    <2>2. CallsSound' /\ Keeps({"login"})
      BY <1>1, <2>1, Removed
    <2>3. UNCHANGED <<shown, check>>
      BY <1>4 DEF SignInAnswered
    <2>4. CASE UNCHANGED <<sessionVars, going>>
      BY <1>1, <2>2, <2>3, <2>4 DEF TypeOK, CookieFollowsStore, sessionVars
    <2>5. ASSUME NEW token \in FreshTokens, live' = live \cup {token},
                 SaveAdminSession(token), going' = "orders"
          PROVE  Goal
      <3>1. token \in Tokens /\ stored' = token /\ cookie' = TRUE
        BY <2>5 DEF FreshTokens, SaveAdminSession
      <3> QED
        BY <1>1, <2>2, <2>3, <2>5, <3>1, NothingAssumption DEF TypeOK, CookieFollowsStore, Pages
    <2> QED
      BY <1>4, <2>4, <2>5 DEF SignInAnswered
  <1>5. ASSUME ShellVerified PROVE Goal
    <2>1. /\ check' = Nothing /\ UNCHANGED <<live, shown, calls>>
          /\ UNCHANGED <<stored, cookie, going>> \/ RedirectToLogin
      BY <1>5 DEF ShellVerified
    <2>2. CASE UNCHANGED <<stored, cookie, going>>
      BY <1>1, <1>2, <2>1, <2>2 DEF TypeOK, CookieFollowsStore
    <2>3. CASE RedirectToLogin
      BY <1>1, <1>2, <2>1, <2>3 DEF TypeOK, CookieFollowsStore, RedirectToLogin,
                                    ClearAdminSession, Pages
    <2> QED
      BY <2>1, <2>2, <2>3
  <1>6. ASSUME Logout PROVE Goal
    BY <1>1, <1>2, <1>6 DEF Logout, TypeOK, CookieFollowsStore, RedirectToLogin,
                            ClearAdminSession, Pages
  <1>7. ASSUME OtherTab PROVE Goal
    <2>1. UNCHANGED <<shown, going, check, calls>>
      BY <1>7 DEF OtherTab, shellVars
    <2>2. CASE ClearAdminSession /\ UNCHANGED live
      BY <1>1, <1>2, <2>1, <2>2 DEF ClearAdminSession, TypeOK, CookieFollowsStore
    <2>3. ASSUME NEW token \in FreshTokens, SaveAdminSession(token), live' = live \cup {token}
          PROVE  Goal
      <3>1. token \in Tokens /\ stored' = token /\ cookie' = TRUE
        BY <2>3 DEF FreshTokens, SaveAdminSession
      <3> QED
        BY <1>1, <1>2, <2>1, <2>3, <3>1, NothingAssumption DEF TypeOK, CookieFollowsStore
    <2> QED
      BY <1>7, <2>2, <2>3 DEF OtherTab
  <1>8. ASSUME TokenEnds PROVE Goal
    BY <1>1, <1>2, <1>8 DEF TokenEnds, TypeOK, CookieFollowsStore, shellVars
  <1>9. Goal
    BY <1>3, <1>4, <1>5, <1>6, <1>7, <1>8 DEF Session
  <1>10. UNCHANGED pagesVars
    BY DEF Session
  <1> HIDE DEF Goal
  <1> QED
    BY <1>9, <1>10, PagesKept DEF Rows, Goal

LEMMA RouteStep ==
  ASSUME IInv, NEW target \in Pages, Route(target)
  PROVE  IInv' /\ Rows
  <1>1. PICK place \in {target, Proxy(target)} :
          IF place = shown
          THEN going' = Nothing /\ UNCHANGED <<sessionVars, shown, check, calls, pagesVars>>
          ELSE Mount(place, Orphaned, shown = "login", cookie)
    BY DEF Route
  <1>2. place \in Pages
    BY DEF Proxy, Pages
  <1>3. CASE place = shown
    <2>1. going' = Nothing /\ UNCHANGED <<sessionVars, shown, check, calls, pagesVars>>
      BY <1>1, <1>3
    <2>2. CallsSound' /\ Keeps({"login"})
      BY <2>1, Unchanged DEF IInv, Keeps
    <2>3. TypeOK' /\ CookieFollowsStore'
      BY <2>1 DEF IInv, TypeOK, CookieFollowsStore, sessionVars
    <2> QED
      BY <2>1, <2>2, <2>3, PagesKept DEF Rows
  <1>4. CASE place # shown
    BY <1>1, <1>2, <1>4, OrphansAre, Mounted DEF IInv, Rows
  <1> QED
    BY <1>3, <1>4

LEMMA MoveStep ==
  ASSUME IInv,
         Arrive \/ Restart \/ \E target \in Sections : Follow(target) \/ Visit(target)
  PROVE  IInv' /\ Rows
  <1>1. CASE Arrive
    <2>1. going \in Pages /\ Route(going)
      BY <1>1 DEF Arrive, IInv, TypeOK
    <2> QED
      BY <2>1, RouteStep
  <1>2. CASE Restart
    <2>1. Mount("login", {}, TRUE, FALSE) /\ "login" \in Pages
      BY <1>2 DEF Restart, Pages
    <2> QED
      BY <2>1, Mounted DEF IInv, Rows
  <1>3. ASSUME NEW target \in Sections, Follow(target) PROVE IInv' /\ Rows
    BY <1>3, SectionsAssumption, RouteStep DEF Follow
  <1>4. ASSUME NEW target \in Sections, Visit(target) PROVE IInv' /\ Rows
    <2>1. Mount(Proxy(target), {}, TRUE, cookie) /\ Proxy(target) \in Pages
      BY <1>4, SectionsAssumption DEF Visit, Proxy, Pages
    <2> QED
      BY <2>1, Mounted DEF IInv, Rows
  <1> QED
    BY <1>1, <1>2, <1>3, <1>4

LEMMA PageStep ==
  ASSUME IInv,
         \/ OrdersNext /\ UNCHANGED <<productsVars, couponsVars, formVars, inboxVars>>
         \/ ProductsNext /\ UNCHANGED <<ordersVars, couponsVars, formVars, inboxVars>>
         \/ CouponsNext /\ UNCHANGED <<ordersVars, productsVars, formVars, inboxVars>>
         \/ FormNext /\ UNCHANGED <<ordersVars, productsVars, couponsVars, inboxVars>>
         \/ InboxNext /\ UNCHANGED <<ordersVars, productsVars, couponsVars, formVars>>
  PROVE  IInv' /\ Rows
  <1>1. /\ TypeOK /\ CookieFollowsStore /\ CallsSound /\ SelectsWaitForAnswers
        /\ ViewWaits /\ CouponsWait /\ FormWaits /\ ImagesSound
        /\ OrderLoadSound /\ ProductLoadSound /\ CouponLoadSound /\ InboxLoadSound
    BY ButtonsAre DEF IInv
  <1>2. SessionKept
    BY OrdersKeepSession, ProductsKeepSession, CouponsKeepSession, FormKeepsSession,
       InboxKeepsSession
  <1>3. TypeOK' /\ CookieFollowsStore'
    BY <1>1, <1>2, SessionKeptSound
  <1>4. UNCHANGED ordersVars => OrderLoadSound' /\ OrderRows
    BY <1>1 DEF OrderLoadSound, OrderRows, ordersVars
  <1>5. UNCHANGED productsVars => ProductLoadSound' /\ ProductRows
    BY <1>1 DEF ProductLoadSound, ProductRows, productsVars
  <1>6. UNCHANGED couponsVars => CouponLoadSound' /\ CouponRows
    BY <1>1 DEF CouponLoadSound, CouponRows, couponsVars
  <1>7. UNCHANGED formVars => ImagesSound'
    BY <1>1 DEF ImagesSound, MainImageIsChosen, formVars, imageVars
  <1>8. UNCHANGED inboxVars => InboxLoadSound' /\ InboxRows
    BY <1>1 DEF InboxLoadSound, InboxRows, inboxVars
  <1>9. CASE OrdersNext /\ UNCHANGED <<productsVars, couponsVars, formVars, inboxVars>>
    <2>1. CallsSound' /\ Keeps(OrderOps) /\ SelectsWaitForAnswers'
      BY <1>1, <1>9, OrdersWait
    <2>2. ViewWaits' /\ CouponsWait' /\ FormWaits'
      BY <1>1, <1>9, <2>1, OthersWait DEF OrderOps, ProductOps, CouponOps, FormOps
    <2>3. OrderLoadSound' /\ OrderRows
      BY <1>1, <1>9, OrderLoads
    <2> QED
      BY <1>3, <1>5, <1>6, <1>7, <1>8, <1>9, <2>1, <2>2, <2>3, ButtonsArePrimed DEF IInv, Rows
  <1>10. CASE ProductsNext /\ UNCHANGED <<ordersVars, couponsVars, formVars, inboxVars>>
    <2>1. CallsSound' /\ Keeps(ProductOps) /\ ViewWaits'
      BY <1>1, <1>10, ProductsWait
    <2>2. SelectsWaitForAnswers' /\ CouponsWait' /\ FormWaits'
      BY <1>1, <1>10, <2>1, OthersWait DEF OrderOps, ProductOps, CouponOps, FormOps
    <2>3. ProductLoadSound' /\ ProductRows
      BY <1>1, <1>10, ProductLoads
    <2> QED
      BY <1>3, <1>4, <1>6, <1>7, <1>8, <1>10, <2>1, <2>2, <2>3, ButtonsArePrimed DEF IInv, Rows
  <1>11. CASE CouponsNext /\ UNCHANGED <<ordersVars, productsVars, formVars, inboxVars>>
    <2>1. CallsSound' /\ Keeps(CouponOps) /\ CouponsWait'
      BY <1>1, <1>11, CouponsWaitStep
    <2>2. SelectsWaitForAnswers' /\ ViewWaits' /\ FormWaits'
      BY <1>1, <1>11, <2>1, OthersWait DEF OrderOps, ProductOps, CouponOps, FormOps
    <2>3. CouponLoadSound' /\ CouponRows
      BY <1>1, <1>11, CouponLoads
    <2> QED
      BY <1>3, <1>4, <1>5, <1>7, <1>8, <1>11, <2>1, <2>2, <2>3, ButtonsArePrimed DEF IInv, Rows
  <1>12. CASE FormNext /\ UNCHANGED <<ordersVars, productsVars, couponsVars, inboxVars>>
    <2>1. CallsSound' /\ Keeps(FormOps) /\ FormWaits'
      BY <1>1, <1>12, FormWaitStep
    <2>2. SelectsWaitForAnswers' /\ ViewWaits' /\ CouponsWait'
      BY <1>1, <1>12, <2>1, OthersWait DEF OrderOps, ProductOps, CouponOps, FormOps
    <2>3. ImagesSound'
      BY <1>1, <1>12, ImagesStep
    <2> QED
      BY <1>3, <1>4, <1>5, <1>6, <1>8, <1>12, <2>1, <2>2, <2>3, ButtonsArePrimed DEF IInv, Rows
  <1>13. CASE InboxNext /\ UNCHANGED <<ordersVars, productsVars, couponsVars, formVars>>
    <2>1. CallsSound' /\ Keeps(InboxOps)
      BY <1>1, <1>13, InboxCalls
    <2>2. SelectsWaitForAnswers' /\ ViewWaits' /\ CouponsWait' /\ FormWaits'
      BY <1>1, <1>13, <2>1, OthersWait DEF InboxOps, OrderOps, ProductOps, CouponOps, FormOps
    <2>3. InboxLoadSound' /\ InboxRows
      BY <1>1, <1>13, InboxLoads
    <2> QED
      BY <1>3, <1>4, <1>5, <1>6, <1>7, <1>13, <2>1, <2>2, <2>3, ButtonsArePrimed DEF IInv, Rows
  <1> QED
    BY <1>9, <1>10, <1>11, <1>12, <1>13

LEMMA StutterStep ==
  ASSUME IInv, UNCHANGED vars
  PROVE  IInv' /\ Rows
  <1>1. UNCHANGED <<adminVars, pagesVars>>
    BY DEF vars
  <1>2. CallsSound' /\ Keeps({"login"})
    BY <1>1, Unchanged DEF IInv, Keeps, adminVars
  <1>3. TypeOK' /\ CookieFollowsStore'
    BY <1>1 DEF IInv, TypeOK, CookieFollowsStore, adminVars, sessionVars, shellVars
  <1> QED
    BY <1>1, <1>2, <1>3, PagesKept DEF Rows

LEMMA EveryStep == IInv /\ [Next]_vars => IInv' /\ Rows
  <1> SUFFICES ASSUME IInv, [Next]_vars PROVE IInv' /\ Rows
    OBVIOUS
  <1> QED
    BY SessionStep, MoveStep, PageStep, StutterStep DEF Next

LEMMA InitIInv == Init => IInv
  <1> SUFFICES ASSUME Init PROVE IInv
    OBVIOUS
  <1> USE DEF Init
  <1>1. TypeOK /\ CookieFollowsStore /\ CallsSound
    BY DEF TypeOK, CookieFollowsStore, CallsSound, Pages
  <1>2. SelectsWaitForAnswers /\ OrderLoadSound
    BY DEF OrdersInit, SelectsWaitForAnswers, OrderLoadSound
  <1>3. ProductLoadSound /\ CouponLoadSound /\ InboxLoadSound
    BY DEF ProductsInit, CouponsInit, InboxInit, ProductLoadSound, CouponLoadSound, InboxLoadSound
  <1>4. ButtonsWaitForAnswers /\ ImagesSound
    BY DEF ProductsInit, CouponsInit, FormInit, ButtonsWaitForAnswers, ImagesSound,
           MainImageIsChosen
  <1> QED
    BY <1>1, <1>2, <1>3, <1>4 DEF IInv

--------------------------------------------------------------------------------
(* Theorems *)

(* The inductive invariant holds in every state of the back office,        *)
(* whatever answers the API gives and in whatever order they arrive        *)
(* (lib/admin.ts and the pages of admin/(protected)).                      *)
THEOREM Invariance == Spec => []IInv
  <1>1. IInv /\ [Next]_vars => IInv'
    BY EveryStep
  <1> QED
    BY <1>1, InitIInv, PTL DEF Spec

(* The cookie of the proxy's gate is never set without a session in        *)
(* localStorage (setSessionCookie, clearAdminSession).                     *)
THEOREM CookieFollows == Spec => []CookieFollowsStore
  <1>1. IInv => CookieFollowsStore
    BY DEF IInv
  <1> QED
    BY <1>1, Invariance, PTL

(* A disabled select or a loading dialog of the orders page has a request  *)
(* of the page under way that ends it (handleStatusChange, the payment     *)
(* select, openOrderDetail).                                               *)
THEOREM SelectsAnswered == Spec => []SelectsWaitForAnswers
  <1>1. IInv => SelectsWaitForAnswers
    BY DEF IInv
  <1> QED
    BY <1>1, Invariance, PTL

(* So has a button that says "Saving", "Deleting" or "Uploading"           *)
(* (handleSubmit and handleDelete of coupons, handleSubmit and             *)
(* handleImageUpload of the product form, openView).                       *)
THEOREM ButtonsAnswered == Spec => []ButtonsWaitForAnswers
  <1>1. IInv => ButtonsWaitForAnswers
    BY DEF IInv
  <1> QED
    BY <1>1, Invariance, PTL

(* The index of the main image points at the file it was chosen for, for   *)
(* any number of files removed and added (removeSelectedFile).             *)
THEOREM MainImageKept == Spec => []MainImageIsChosen
  <1>1. IInv => MainImageIsChosen
    BY DEF IInv, ImagesSound
  <1> QED
    BY <1>1, Invariance, PTL

(* The rows of the orders page only change to those of the query shown     *)
(* (the cancelled flag of the load effect, changePage, changeFilter).      *)
THEOREM OrderListsAnswer == Spec => OrderListAnswersQuery
  <1>1. IInv /\ [Next]_vars => [OrderRows]_vars
    BY EveryStep DEF Rows
  <1>2. [][OrderRows]_vars => OrderListAnswersQuery
    BY PTL DEF OrderRows, OrderListAnswersQuery
  <1> QED
    BY <1>1, <1>2, Invariance, PTL DEF Spec

(* The rows of the product list only change to those of the page asked     *)
(* for, read after every change the list was reloaded for (setReloadKey).  *)
THEOREM ProductListsCurrent == Spec => ProductListIsCurrent
  <1>1. IInv /\ [Next]_vars => [ProductRows]_vars
    BY EveryStep DEF Rows
  <1>2. [][ProductRows]_vars => ProductListIsCurrent
    BY PTL DEF ProductRows, ProductListIsCurrent
  <1> QED
    BY <1>1, <1>2, Invariance, PTL DEF Spec

(* So do the coupons.                                                      *)
THEOREM CouponListsCurrent == Spec => CouponListIsCurrent
  <1>1. IInv /\ [Next]_vars => [CouponRows]_vars
    BY EveryStep DEF Rows
  <1>2. [][CouponRows]_vars => CouponListIsCurrent
    BY PTL DEF CouponRows, CouponListIsCurrent
  <1> QED
    BY <1>1, <1>2, Invariance, PTL DEF Spec

(* And the reviews and messages, of the page and filter asked for          *)
(* (reviews-client.tsx, messages-client.tsx).                              *)
THEOREM InboxListsCurrent == Spec => InboxListIsCurrent
  <1>1. IInv /\ [Next]_vars => [InboxRows]_vars
    BY EveryStep DEF Rows
  <1>2. [][InboxRows]_vars => InboxListIsCurrent
    BY PTL DEF InboxRows, InboxListIsCurrent
  <1> QED
    BY <1>1, <1>2, Invariance, PTL DEF Spec
================================================================================
