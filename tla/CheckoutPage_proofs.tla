-------------------------- MODULE CheckoutPage_proofs --------------------------
(* Proofs about CheckoutPage, for any cart, coupon codes, payment toggles  *)
(* and number of presses under way.                                        *)
EXTENDS CheckoutPage, TLAPS

(* The parts of the invariant after the types. *)
Sound == PageSound /\ OrdersWhatWasValidated /\ MethodIsOffered /\ CouponsAreAccepted

LEMMA EmptyCart == NoLines \in Carts
  BY MaxQuantityAssumption DEF NoLines, Carts

LEMMA IdlePress ==
  /\ Idle \in Presses /\ Idle.at = "idle" /\ Idle.live = FALSE /\ Idle.card = FALSE
  /\ Idle.coupon = ""
  BY EmptyCart DEF Idle, Presses, Stages

LEMMA NothingApplied ==
  /\ NoPreview.code = ""
  /\ NoPreview \in [code : Codes \cup {""}, lines : Carts]
  BY EmptyCart DEF NoPreview

LEMMA EverythingOn == NoSettings \in Settings /\ NoSettings.known = FALSE
  BY DEF NoSettings, Settings, Toggles

(* Presses that lose their page keep what they captured. *)
LEMMA OrphanedPresses ==
  ASSUME press \in [Clicks -> Presses]
  PROVE  /\ Orphaned(press) \in [Clicks -> Presses]
         /\ \A c \in Clicks :
              /\ Orphaned(press)[c].live = FALSE
              /\ Orphaned(press)[c].at = press[c].at
              /\ press[c].at # "idle" =>
                   /\ Orphaned(press)[c].sent = press[c].sent
                   /\ Orphaned(press)[c].approved = press[c].approved
              /\ Orphaned(press)[c].coupon \in {press[c].coupon, ""}
  BY IdlePress DEF Orphaned, Presses

(* A page that is not mounted, or just was: nothing selected but what its  *)
(* first render selects, and no press of its own.                          *)
LEMMA PageReplaced ==
  ASSUME IInv,
         Unmounted \/ (Fresh(items) /\ route' = "checkout"),
         route' \in Routes, items' = items, accepted' = accepted,
         press' \in [Clicks -> Presses],
         \A c \in Clicks :
           /\ press'[c].live = FALSE
           /\ press'[c].at \in {"placing", "placed", "initiating"} =>
                press'[c].sent = press'[c].approved
           /\ press'[c].coupon \in accepted \cup {""}
  PROVE  IInv'
  <1>1. /\ filled' = FALSE /\ loadingCustomer' \in BOOLEAN
        /\ settings' = NoSettings /\ gateway' = "unknown" /\ method' = "cod"
        /\ checks' \subseteq (IF route' = "checkout" THEN {items} ELSE {}) /\ verdict' = NoLines
        /\ code' = "" /\ preview' = NoPreview /\ asked' = {} /\ submitting' = FALSE
    BY DEF Unmounted, Fresh
  <1>2. TypeOK'
    BY <1>1, EmptyCart, NothingApplied, EverythingOn DEF IInv, TypeOK, Methods
  <1>3. PageSound'
    BY <1>1 DEF PageSound
  <1>4. OrdersWhatWasValidated'
    BY DEF OrdersWhatWasValidated
  <1>5. MethodIsOffered'
    BY <1>1, EverythingOn DEF MethodIsOffered
  <1>6. CouponsAreAccepted'
    BY <1>1 DEF CouponsAreAccepted
  <1> QED
    BY <1>2, <1>3, <1>4, <1>5, <1>6 DEF IInv

LEMMA InitIInv == Init => IInv
  <1> SUFFICES ASSUME Init PROVE IInv
    OBVIOUS
  <1>1. TypeOK
    BY EmptyCart, IdlePress, NothingApplied, EverythingOn DEF Init, TypeOK, Routes, Methods
  <1>2. PageSound /\ OrdersWhatWasValidated
    BY IdlePress DEF Init, PageSound, OrdersWhatWasValidated
  <1>3. MethodIsOffered
    BY IdlePress, EverythingOn DEF Init, MethodIsOffered
  <1>4. CouponsAreAccepted
    BY IdlePress DEF Init, CouponsAreAccepted
  <1> QED
    BY <1>1, <1>2, <1>3, <1>4 DEF IInv

--------------------------------------------------------------------------------
(* From page to page *)

LEMMA MountIInv ==
  ASSUME IInv, Mount
  PROVE  IInv'
  <1>1. \A c \in Clicks : press[c].live = FALSE
    BY DEF Mount, IInv, PageSound, TypeOK, Presses
  <1>2. press' = press /\ items' = items /\ accepted' = accepted /\ route' = "checkout"
        /\ Fresh(items)
    BY DEF Mount
  <1> QED
    BY <1>1, <1>2, PageReplaced DEF IInv, TypeOK, Routes, OrdersWhatWasValidated,
       CouponsAreAccepted

LEMMA LeaveIInv ==
  ASSUME IInv, Leave \/ RedirectEmpty
  PROVE  IInv'
  <1>1. /\ press' = Orphaned(press) /\ items' = items /\ accepted' = accepted
        /\ route' = "cart" /\ Unmounted
    BY DEF Leave, RedirectEmpty
  <1>2. press \in [Clicks -> Presses]
    BY DEF IInv, TypeOK
  <1> QED
    BY <1>1, <1>2, OrphanedPresses, PageReplaced DEF IInv, Routes, OrdersWhatWasValidated,
       CouponsAreAccepted

LEMMA NavigateIInv ==
  ASSUME IInv, NEW c \in Clicks, NEW to \in Routes, Navigate(c, to)
  PROVE  IInv'
  <1>1. /\ press' = [Orphaned(press) EXCEPT ![c] = Idle] /\ items' = items
        /\ accepted' = accepted /\ route' = to /\ Unmounted
    BY DEF Navigate
  <1>2. press \in [Clicks -> Presses]
    BY DEF IInv, TypeOK
  <1>3. press' \in [Clicks -> Presses]
    BY <1>1, <1>2, OrphanedPresses, IdlePress
  <1>4. \A d \in Clicks : press'[d] = IF d = c THEN Idle ELSE Orphaned(press)[d]
    BY <1>1, <1>2, OrphanedPresses
  <1> QED
    BY <1>1, <1>2, <1>3, <1>4, OrphanedPresses, IdlePress, PageReplaced
    DEF IInv, OrdersWhatWasValidated, CouponsAreAccepted

LEMMA GoToGatewayIInv ==
  ASSUME IInv, NEW c \in Clicks, GoToGateway(c)
  PROVE  IInv'
  BY IdlePress, PageReplaced DEF GoToGateway, Routes

(* The payment and confirmation pages, and the rest of the shop.           *)
LEMMA ElsewhereIInv ==
  ASSUME IInv, ReturnFromGateway \/ ViewOrder \/ ClearCart \/ \E cart \in Carts : Shop(cart)
  PROVE  IInv'
  <1>1. /\ UNCHANGED <<formVars, paymentVars, checkVars, couponVars, submitVars>>
        /\ route' \in Routes /\ items' \in Carts
        /\ route # "checkout" /\ route' # "checkout"
    BY EmptyCart DEF ReturnFromGateway, ViewOrder, ClearCart, Shop, IInv, TypeOK, Routes
  <1>2. TypeOK'
    BY <1>1 DEF formVars, paymentVars, checkVars, couponVars, submitVars, IInv, TypeOK
  <1>3. PageSound' /\ OrdersWhatWasValidated' /\ MethodIsOffered' /\ CouponsAreAccepted'
    BY <1>1 DEF paymentVars, checkVars, couponVars, submitVars, IInv, PageSound,
                OrdersWhatWasValidated, MethodIsOffered, CouponsAreAccepted
  <1> QED
    BY <1>2, <1>3 DEF IInv

--------------------------------------------------------------------------------
(* The form, the cart and the coupon box *)

LEMMA CustomerIInv ==
  ASSUME IInv, CustomerLoaded \/ CustomerFailed \/ EditFields
  PROVE  IInv'
  <1>1. /\ UNCHANGED <<cartVars, paymentVars, checkVars, couponVars, submitVars>>
        /\ loadingCustomer' \in BOOLEAN
    BY DEF CustomerLoaded, CustomerFailed, EditFields, formVars, IInv, TypeOK
  <1>2. filled' \in BOOLEAN
    BY DEF CustomerLoaded, CustomerFailed, EditFields, IInv, TypeOK
  <1>3. TypeOK'
    BY <1>1, <1>2 DEF cartVars, paymentVars, checkVars, couponVars, submitVars, IInv, TypeOK
  <1>4. PageSound' /\ OrdersWhatWasValidated' /\ MethodIsOffered' /\ CouponsAreAccepted'
    BY <1>1 DEF cartVars, paymentVars, checkVars, couponVars, submitVars, IInv, PageSound,
                OrdersWhatWasValidated, MethodIsOffered, CouponsAreAccepted
  <1> QED
    BY <1>3, <1>4 DEF IInv

(* The effect that moves the selection leaves it on an offered method.     *)
LEMMA FallbackOffers ==
  ASSUME NEW m \in Methods, NEW s \in Settings, NEW g \in {"unknown", "ready", "off"}
  PROVE  /\ Fallback(m, s, g) \in Methods
         /\ s.known /\ (\E n \in Methods : Offered(n, s, g)) =>
              Offered(Fallback(m, s, g), s, g)
  BY DEF Fallback, Offered, Methods

LEMMA SettingsLoadedIInv ==
  ASSUME IInv, NEW on \in Choices, SettingsLoaded(on)
  PROVE  IInv'
  <1>1. settings' \in Settings
    BY ChoicesAssumption DEF SettingsLoaded, Settings
  <1>2. /\ method' = Fallback(method, settings', gateway)
        /\ UNCHANGED <<cartVars, formVars, gateway, checkVars, couponVars, submitVars>>
    BY DEF SettingsLoaded
  <1>3. TypeOK'
    BY <1>1, <1>2, FallbackOffers
    DEF cartVars, formVars, checkVars, couponVars, submitVars, IInv, TypeOK
  <1>4. MethodIsOffered'
    BY <1>1, <1>2, FallbackOffers DEF submitVars, IInv, TypeOK, MethodIsOffered
  <1>5. PageSound' /\ OrdersWhatWasValidated' /\ CouponsAreAccepted'
    BY <1>2 DEF cartVars, checkVars, couponVars, submitVars, IInv, PageSound,
                OrdersWhatWasValidated, CouponsAreAccepted
  <1> QED
    BY <1>3, <1>4, <1>5 DEF IInv

(* The gateway's answer comes once: it takes nothing away from a press.    *)
LEMMA GatewayLoadedIInv ==
  ASSUME IInv, NEW answer \in {"ready", "off"}, GatewayLoaded(answer)
  PROVE  IInv'
  <1>1. /\ gateway = "unknown" /\ gateway' = answer
        /\ method' = Fallback(method, settings, gateway')
        /\ UNCHANGED <<cartVars, formVars, settings, checkVars, couponVars, submitVars>>
    BY DEF GatewayLoaded
  <1>2. TypeOK'
    BY <1>1, FallbackOffers
    DEF cartVars, formVars, checkVars, couponVars, submitVars, IInv, TypeOK
  <1>3. MethodIsOffered'
    BY <1>1, FallbackOffers DEF submitVars, IInv, TypeOK, MethodIsOffered
  <1>4. PageSound' /\ OrdersWhatWasValidated' /\ CouponsAreAccepted'
    BY <1>1 DEF cartVars, checkVars, couponVars, submitVars, IInv, PageSound,
                OrdersWhatWasValidated, CouponsAreAccepted
  <1> QED
    BY <1>2, <1>3, <1>4 DEF IInv

LEMMA ChooseMethodIInv ==
  ASSUME IInv, NEW m \in Methods, ChooseMethod(m)
  PROVE  IInv'
  BY DEF ChooseMethod, cartVars, formVars, checkVars, couponVars, submitVars, IInv, TypeOK,
         PageSound, OrdersWhatWasValidated, MethodIsOffered, CouponsAreAccepted

LEMMA ChangeCartIInv ==
  ASSUME IInv, NEW v \in Variants, NEW quantity \in 0..MaxQuantity, ChangeCart(v, quantity)
  PROVE  IInv'
  <1>1. /\ route = "checkout" /\ items' = [items EXCEPT ![v] = quantity] /\ Revalidate(items')
        /\ UNCHANGED <<route, formVars, paymentVars, verdict, couponVars, submitVars>>
    BY DEF ChangeCart, DrawerLine
  <1>2. items' \in Carts
    BY <1>1 DEF IInv, TypeOK, Carts
  <1>3. checks' \subseteq {items'}
    BY <1>1 DEF Revalidate
  <1>4. TypeOK'
    BY <1>1, <1>2, <1>3 DEF formVars, paymentVars, couponVars, submitVars, IInv, TypeOK
  <1>5. PageSound' /\ OrdersWhatWasValidated' /\ MethodIsOffered' /\ CouponsAreAccepted'
    BY <1>1, <1>3 DEF paymentVars, couponVars, submitVars, IInv, PageSound,
                      OrdersWhatWasValidated, MethodIsOffered, CouponsAreAccepted
  <1> QED
    BY <1>4, <1>5 DEF IInv

LEMMA CheckAnsweredIInv ==
  ASSUME IInv, NEW r \in checks, NEW available \in BOOLEAN, CheckAnswered(r, available)
  PROVE  IInv'
  <1>1. /\ checks' \subseteq checks /\ verdict' \in Carts
        /\ UNCHANGED <<cartVars, formVars, paymentVars, couponVars, submitVars>>
    BY EmptyCart DEF CheckAnswered, IInv, TypeOK
  <1>2. TypeOK'
    BY <1>1 DEF cartVars, formVars, paymentVars, couponVars, submitVars, IInv, TypeOK
  <1>3. PageSound' /\ OrdersWhatWasValidated' /\ MethodIsOffered' /\ CouponsAreAccepted'
    BY <1>1 DEF cartVars, paymentVars, couponVars, submitVars, IInv, PageSound,
                OrdersWhatWasValidated, MethodIsOffered, CouponsAreAccepted
  <1> QED
    BY <1>2, <1>3 DEF IInv

(* A code is only typed while none is applied; the code of an accepted     *)
(* preview takes the place of what was typed since.                        *)
LEMMA CouponIInv ==
  ASSUME IInv,
         \/ \E k \in Codes \cup {""} : TypeCode(k)
         \/ HandleApplyCoupon \/ HandleRemoveCoupon
         \/ \E r \in asked, valid \in BOOLEAN : CouponAnswered(r, valid)
  PROVE  IInv'
  <1>1. UNCHANGED <<cartVars, formVars, paymentVars, checkVars, submitVars>>
    BY DEF TypeCode, HandleApplyCoupon, HandleRemoveCoupon, CouponAnswered
  <1>2. /\ code' \in Codes \cup {""} /\ asked' \subseteq [code : Codes, lines : Carts]
        /\ preview' \in [code : Codes \cup {""}, lines : Carts]
        /\ accepted' \subseteq Codes /\ accepted \subseteq accepted'
    <2>1. CASE \E k \in Codes \cup {""} : TypeCode(k)
      BY <2>1 DEF TypeCode, IInv, TypeOK
    <2>2. CASE HandleApplyCoupon
      <3>1. [code |-> code, lines |-> items] \in [code : Codes, lines : Carts]
        BY <2>2 DEF HandleApplyCoupon, IInv, TypeOK
      <3> QED
        BY <2>2, <3>1 DEF HandleApplyCoupon, IInv, TypeOK
    <2>3. CASE HandleRemoveCoupon
      BY <2>3, NothingApplied DEF HandleRemoveCoupon, IInv, TypeOK
    <2>4. CASE \E r \in asked, valid \in BOOLEAN : CouponAnswered(r, valid)
      <3>1. PICK r \in asked, valid \in BOOLEAN : CouponAnswered(r, valid)
        BY <2>4
      <3>2. r \in [code : Codes \cup {""}, lines : Carts] /\ r.code \in Codes
        BY DEF IInv, TypeOK
      <3> QED
        BY <3>1, <3>2, NothingApplied DEF CouponAnswered, IInv, TypeOK
    <2> QED
      BY <2>1, <2>2, <2>3, <2>4
  <1>3. preview' # NoPreview => preview'.code \in accepted' /\ code' = preview'.code
    BY DEF TypeCode, HandleApplyCoupon, HandleRemoveCoupon, CouponAnswered, CouponInputShown,
           IInv, CouponsAreAccepted
  <1>4. TypeOK'
    BY <1>1, <1>2 DEF cartVars, formVars, paymentVars, checkVars, submitVars, IInv, TypeOK
  <1>5. PageSound' /\ OrdersWhatWasValidated' /\ MethodIsOffered'
    BY <1>1 DEF cartVars, paymentVars, checkVars, submitVars, IInv, PageSound,
                OrdersWhatWasValidated, MethodIsOffered
  <1>6. CouponsAreAccepted'
    BY <1>1, <1>2, <1>3 DEF submitVars, IInv, CouponsAreAccepted
  <1> QED
    BY <1>4, <1>5, <1>6 DEF IInv

--------------------------------------------------------------------------------
(* handleSubmit *)

(* One press moves on while its page, if it still has one, stays.          *)
LEMMA PressWritten ==
  ASSUME IInv, NEW c \in Clicks, NEW p \in Presses,
         press' = [press EXCEPT ![c] = p],
         UNCHANGED <<cartVars, formVars, paymentVars, checks, couponVars>>,
         verdict' \in Carts, submitting' \in BOOLEAN,
         p.live => route = "checkout",
         p.at \in {"placing", "placed", "initiating"} => p.sent = p.approved,
         p.at # "idle" /\ p.live /\ p.card => gateway = "ready",
         p.coupon \in accepted \cup {""}
  PROVE  IInv'
  <1>1. /\ press' \in [Clicks -> Presses]
        /\ \A d \in Clicks : press'[d] = IF d = c THEN p ELSE press[d]
    BY DEF IInv, TypeOK
  <1>2. TypeOK'
    BY <1>1 DEF cartVars, formVars, paymentVars, couponVars, IInv, TypeOK
  <1>3. PageSound'
    BY <1>1 DEF cartVars, IInv, PageSound
  <1>4. OrdersWhatWasValidated'
    BY <1>1 DEF IInv, OrdersWhatWasValidated
  <1>5. MethodIsOffered'
    BY <1>1 DEF paymentVars, IInv, MethodIsOffered
  <1>6. CouponsAreAccepted'
    BY <1>1 DEF couponVars, IInv, CouponsAreAccepted
  <1> QED
    BY <1>2, <1>3, <1>4, <1>5, <1>6 DEF IInv

(* What a press that is under way has captured. *)
LEMMA PressRead ==
  ASSUME IInv, NEW c \in Clicks
  PROVE  /\ press[c] \in Presses
         /\ press[c].live => route = "checkout"
         /\ press[c].at \in {"placing", "placed", "initiating"} =>
              press[c].sent = press[c].approved
         /\ press[c].at # "idle" /\ press[c].live /\ press[c].card => gateway = "ready"
         /\ press[c].coupon \in accepted \cup {""}
         /\ press[c].live \in BOOLEAN /\ submitting \in BOOLEAN
         /\ verdict \in Carts
  <1>1. press[c] \in Presses /\ submitting \in BOOLEAN /\ verdict \in Carts
    BY DEF IInv, TypeOK
  <1>2. press[c].live \in BOOLEAN
    BY <1>1 DEF Presses
  <1> QED
    BY <1>1, <1>2
    DEF IInv, PageSound, OrdersWhatWasValidated, MethodIsOffered, CouponsAreAccepted

(* A valid form with the card chosen has the gateway's word.               *)
LEMMA PressIInv ==
  ASSUME IInv, NEW c \in Clicks, Press(c)
  PROVE  IInv'
  <1> DEFINE p == [Idle EXCEPT !.at = "checking", !.lines = items, !.card = (method = "card"),
                               !.coupon = preview.code, !.live = TRUE]
  <1>1. /\ press' = [press EXCEPT ![c] = p] /\ verdict' = NoLines /\ submitting' = submitting
        /\ route = "checkout" /\ Offered(method, settings, gateway)
        /\ UNCHANGED <<cartVars, formVars, paymentVars, checks, couponVars>>
    BY DEF Press, SubmitEnabled, Valid
  <1>2. preview.code \in Codes \cup {""} /\ items \in Carts /\ (method = "card") \in BOOLEAN
    BY DEF IInv, TypeOK
  <1>3. /\ p.at = "checking" /\ p.card = (method = "card") /\ p.coupon = preview.code
        /\ p.live = TRUE
    BY DEF Idle
  <1>4. p \in Presses
    BY <1>2, EmptyCart DEF Idle, Presses, Stages
  <1>5. preview.code \in accepted \cup {""}
    BY NothingApplied DEF IInv, CouponsAreAccepted
  <1>6. p.card => gateway = "ready"
    BY <1>1, <1>3 DEF Offered
  <1>7. verdict' \in Carts /\ submitting' \in BOOLEAN
    BY <1>1, EmptyCart DEF IInv, TypeOK
  <1> HIDE DEF p
  <1> QED
    BY <1>1, <1>3, <1>4, <1>5, <1>6, <1>7, PressWritten

LEMMA PressInvalidIInv ==
  ASSUME IInv, PressInvalid
  PROVE  IInv'
  BY EmptyCart DEF PressInvalid, cartVars, formVars, paymentVars, couponVars, submitVars, IInv,
    TypeOK, PageSound, OrdersWhatWasValidated, MethodIsOffered, CouponsAreAccepted

(* The order is placed with the lines that were just found available.      *)
LEMMA SubmitCheckedIInv ==
  ASSUME IInv, NEW c \in Clicks, SubmitChecked(c)
  PROVE  IInv'
  <1> DEFINE p == [press[c] EXCEPT !.at = "placing", !.approved = press[c].lines,
                                   !.sent = press[c].lines]
  <1>1. /\ p \in Presses /\ p.sent = p.approved /\ p.live = press[c].live
        /\ p.card = press[c].card /\ p.coupon = press[c].coupon
    BY PressRead DEF Presses, Stages
  <1>2. /\ press' = [press EXCEPT ![c] = p] /\ press[c].at = "checking"
        /\ UNCHANGED <<cartVars, formVars, paymentVars, checkVars, couponVars>>
    BY DEF SubmitChecked, IInv, TypeOK, Presses
  <1>3. submitting' \in BOOLEAN /\ verdict' \in Carts
    BY PressRead DEF SubmitChecked, checkVars
  <1> HIDE DEF p
  <1> QED
    BY <1>1, <1>2, <1>3, PressRead, PressWritten DEF checkVars

(* The order is created, or the card payment started: nothing it captured  *)
(* changes.                                                                *)
LEMMA StageIInv ==
  ASSUME IInv, NEW c \in Clicks, OrderCreated(c) \/ StartCardPayment(c)
  PROVE  IInv'
  <1>1. PICK at \in {"placed", "initiating"} : press' = [press EXCEPT ![c].at = at]
    BY DEF OrderCreated, StartCardPayment
  <1> DEFINE p == [press[c] EXCEPT !.at = at]
  <1>2. /\ p \in Presses /\ p.sent = press[c].sent /\ p.approved = press[c].approved
        /\ p.live = press[c].live /\ p.card = press[c].card /\ p.coupon = press[c].coupon
    BY PressRead DEF Presses, Stages
  <1>3. /\ press' = [press EXCEPT ![c] = p] /\ press[c].at \in {"placing", "placed"}
        /\ UNCHANGED <<cartVars, formVars, paymentVars, checkVars, couponVars, submitting>>
    BY <1>1 DEF OrderCreated, StartCardPayment, IInv, TypeOK, Presses
  <1> HIDE DEF p
  <1> QED
    BY <1>2, <1>3, PressRead, PressWritten DEF checkVars

(* A refused or lost press ends. *)
LEMMA PressEndsIInv ==
  ASSUME IInv, NEW c \in Clicks, SubmitUnavailable(c) \/ OrderFailed(c)
  PROVE  IInv'
  <1>1. /\ press' = [press EXCEPT ![c] = Idle]
        /\ UNCHANGED <<cartVars, formVars, paymentVars, checks, couponVars>>
    BY DEF SubmitUnavailable, OrderFailed
  <1>2. verdict' \in Carts
    <2>1. press[c].lines \in Carts /\ verdict \in Carts
      BY PressRead DEF Presses
    <2> QED
      BY <2>1, EmptyCart DEF SubmitUnavailable, OrderFailed
  <1>3. submitting' \in BOOLEAN
    BY PressRead DEF SubmitUnavailable, OrderFailed
  <1> QED
    BY <1>1, <1>2, <1>3, IdlePress, PressWritten

LEMMA PressProgressIInv ==
  ASSUME IInv, NEW c \in Clicks, PressProgress(c)
  PROVE  IInv'
  <1>1. ASSUME OrderAnswered(c) \/ InitiationFailed(c) PROVE IInv'
    BY <1>1, NavigateIInv DEF OrderAnswered, InitiationFailed, Routes
  <1> QED
    BY <1>1, SubmitCheckedIInv, StageIInv, PressEndsIInv, GoToGatewayIInv DEF PressProgress

LEMMA NextIInv == IInv /\ [Next]_vars => IInv'
  <1> SUFFICES ASSUME IInv, [Next]_vars PROVE IInv'
    OBVIOUS
  <1>1. CASE UNCHANGED vars
    BY <1>1 DEF vars, cartVars, formVars, paymentVars, checkVars, couponVars, submitVars, IInv,
      TypeOK, PageSound, OrdersWhatWasValidated, MethodIsOffered, CouponsAreAccepted
  <1> QED
    BY <1>1, MountIInv, LeaveIInv, CustomerIInv, SettingsLoadedIInv, GatewayLoadedIInv,
       ChooseMethodIInv, ChangeCartIInv, CheckAnsweredIInv, CouponIInv, PressInvalidIInv,
       PressIInv, PressProgressIInv, ElsewhereIInv
    DEF Next

--------------------------------------------------------------------------------

(* The inductive invariant of the checkout form: what a press captured     *)
(* stays what the server was asked about, a page that is left leaves its   *)
(* presses behind, and only the validation of the cart shown can answer.   *)
THEOREM Invariance == Spec => []IInv
  BY InitIInv, NextIInv, PTL DEF Spec

(* No order carries lines other than those just found available, for any   *)
(* number of presses and any change of the cart meanwhile.                 *)
THEOREM OrdersValidated == Spec => []OrdersWhatWasValidated
  <1>1. IInv => OrdersWhatWasValidated
    BY DEF IInv
  <1> QED
    BY <1>1, Invariance, PTL

(* In whatever order settings, gateway and clicks come, the card is paid   *)
(* with only when it is available and the selection is one that is offered.*)
THEOREM SelectionOffered == Spec => []MethodIsOffered
  <1>1. IInv => MethodIsOffered
    BY DEF IInv
  <1> QED
    BY <1>1, Invariance, PTL

(* No order carries a coupon the server has not accepted. *)
THEOREM CouponsAccepted == Spec => []CouponsAreAccepted
  <1>1. IInv => CouponsAreAccepted
    BY DEF IInv
  <1> QED
    BY <1>1, Invariance, PTL

(* What a step that leaves a verdict says, and of which cart.              *)
OwnVerdict ==
  verdict' # verdict /\ verdict' # NoLines =>
    verdict' = items \/ \E c \in Clicks : CapturedBy(c, verdict') /\ press'[c] = Idle

LEMMA VerdictStep ==
  ASSUME IInv, [Next]_vars
  PROVE  OwnVerdict
  <1> USE DEF OwnVerdict
  <1>1. CASE UNCHANGED vars
    BY <1>1 DEF vars, checkVars
  <1>2. CASE Mount \/ Leave \/ RedirectEmpty
    BY <1>2 DEF Mount, Fresh, Leave, RedirectEmpty, Unmounted
  <1>3. CASE \/ CustomerLoaded \/ CustomerFailed \/ EditFields
             \/ \E on \in Choices : SettingsLoaded(on)
             \/ \E answer \in {"ready", "off"} : GatewayLoaded(answer)
             \/ \E m \in Methods : ChooseMethod(m)
             \/ \E v \in Variants, quantity \in 0..MaxQuantity : ChangeCart(v, quantity)
    BY <1>3 DEF CustomerLoaded, CustomerFailed, EditFields, SettingsLoaded, GatewayLoaded,
                ChooseMethod, ChangeCart, checkVars
  <1>4. CASE \E r \in checks, available \in BOOLEAN : CheckAnswered(r, available)
    BY <1>4 DEF CheckAnswered, IInv, PageSound
  <1>5. CASE \/ \E k \in Codes \cup {""} : TypeCode(k)
             \/ HandleApplyCoupon \/ HandleRemoveCoupon
             \/ \E r \in asked, valid \in BOOLEAN : CouponAnswered(r, valid)
    BY <1>5 DEF TypeCode, HandleApplyCoupon, HandleRemoveCoupon, CouponAnswered, checkVars
  <1>6. CASE PressInvalid \/ \E c \in Clicks : Press(c)
    BY <1>6 DEF PressInvalid, Press
  <1>7. ASSUME NEW c \in Clicks, PressProgress(c)
        PROVE  OwnVerdict
    <2>1. CASE SubmitUnavailable(c)
      <3>1. press'[c] = Idle
        BY <2>1 DEF SubmitUnavailable, IInv, TypeOK
      <3>2. \/ verdict' \in {verdict, NoLines}
            \/ press[c].live /\ verdict' = press[c].lines
        BY <2>1 DEF SubmitUnavailable
      <3> QED
        BY <2>1, <3>1, <3>2 DEF SubmitUnavailable, CapturedBy
    <2>2. CASE ~SubmitUnavailable(c)
      BY <1>7, <2>2 DEF PressProgress, SubmitChecked, OrderCreated, OrderFailed,
                OrderAnswered, StartCardPayment, GoToGateway, InitiationFailed, Navigate,
                Unmounted, checkVars
    <2> QED
      BY <2>1, <2>2
  <1>8. CASE ReturnFromGateway \/ ViewOrder \/ ClearCart \/ \E cart \in Carts : Shop(cart)
    BY <1>8 DEF ReturnFromGateway, ViewOrder, ClearCart, Shop, checkVars
  <1> QED
    BY <1>1, <1>2, <1>3, <1>4, <1>5, <1>6, <1>7, <1>8 DEF Next

(* The load effect's answer about an earlier cart never shows: only a      *)
(* press speaks of another cart than the page does, the one it captured.   *)
THEOREM ChecksDropped == Spec => OldChecksAreDropped
  <1>1. IInv /\ [Next]_vars => OwnVerdict
    BY VerdictStep
  <1>2. [][OwnVerdict]_vars => OldChecksAreDropped
    BY PTL DEF OwnVerdict, OldChecksAreDropped
  <1> HIDE DEF OwnVerdict
  <1> QED
    BY <1>1, <1>2, Invariance, PTL DEF Spec

(* Whoever set submitting is still ordering: it is cleared by the end of   *)
(* any press of the page, and with the page.                               *)
LEMMA BusyStep ==
  ASSUME IInv, [Next]_vars, submitting => \E c \in Clicks : Ordering(c)
  PROVE  (submitting => \E c \in Clicks : Ordering(c))'
  <1>1. ASSUME UNCHANGED submitVars \/ Mount \/ Leave \/ RedirectEmpty
        PROVE  (submitting => \E c \in Clicks : Ordering(c))'
    BY <1>1 DEF submitVars, Mount, Fresh, Leave, RedirectEmpty, Unmounted, Ordering
  <1>2. ASSUME NEW d \in Clicks, Press(d)
        PROVE  (submitting => \E c \in Clicks : Ordering(c))'
    <2>1. press[d].at = "idle" /\ submitting' = submitting
          /\ \A c \in Clicks \ {d} : press'[c] = press[c]
      BY <1>2 DEF Press, IInv, TypeOK
    <2> QED
      BY <2>1 DEF Ordering
  <1>3. ASSUME NEW d \in Clicks, SubmitChecked(d)
        PROVE  (submitting => \E c \in Clicks : Ordering(c))'
    <2>1. /\ submitting' = (submitting \/ press[d].live)
          /\ press'[d].live = press[d].live /\ press'[d].at = "placing"
          /\ \A c \in Clicks \ {d} : press'[c] = press[c]
      BY <1>3 DEF SubmitChecked, IInv, TypeOK, Presses
    <2>2. press[d].at = "checking"
      BY <1>3 DEF SubmitChecked
    <2> QED
      BY <2>1, <2>2 DEF Ordering
  <1>4. ASSUME NEW d \in Clicks, SubmitUnavailable(d)
        PROVE  (submitting => \E c \in Clicks : Ordering(c))'
    <2>1. press[d].at = "checking" /\ submitting' = submitting
          /\ \A c \in Clicks \ {d} : press'[c] = press[c]
      BY <1>4 DEF SubmitUnavailable, IInv, TypeOK
    <2> QED
      BY <2>1 DEF Ordering
  <1>5. ASSUME NEW d \in Clicks, OrderCreated(d) \/ StartCardPayment(d)
        PROVE  (submitting => \E c \in Clicks : Ordering(c))'
    <2>1. /\ submitting' = submitting /\ press'[d].live = press[d].live
          /\ press'[d].at \in {"placed", "initiating"}
          /\ \A c \in Clicks \ {d} : press'[c] = press[c]
      BY <1>5 DEF OrderCreated, StartCardPayment, IInv, TypeOK, Presses
    <2>2. press[d].at \in {"placing", "placed"}
      BY <1>5 DEF OrderCreated, StartCardPayment
    <2> QED
      BY <2>1, <2>2 DEF Ordering
  <1>6. ASSUME NEW d \in Clicks, OrderFailed(d)
        PROVE  (submitting => \E c \in Clicks : Ordering(c))'
    <2>1. /\ submitting' = (submitting /\ ~press[d].live)
          /\ \A c \in Clicks \ {d} : press'[c] = press[c]
      BY <1>6 DEF OrderFailed, IInv, TypeOK
    <2> QED
      BY <2>1 DEF Ordering
  <1>7. ASSUME NEW d \in Clicks, OrderAnswered(d) \/ GoToGateway(d) \/ InitiationFailed(d)
        PROVE  (submitting => \E c \in Clicks : Ordering(c))'
    BY <1>7 DEF OrderAnswered, GoToGateway, InitiationFailed, Navigate, Unmounted
  <1>8. CASE UNCHANGED vars
    BY <1>1, <1>8 DEF vars
  <1>9. ASSUME Next PROVE UNCHANGED submitVars \/ Mount \/ Leave \/ RedirectEmpty
                         \/ \E c \in Clicks : Press(c) \/ PressProgress(c)
    BY <1>9 DEF Next, CustomerLoaded, CustomerFailed, EditFields, SettingsLoaded,
       GatewayLoaded, ChooseMethod, ChangeCart, CheckAnswered, TypeCode,
       HandleApplyCoupon, HandleRemoveCoupon, CouponAnswered, PressInvalid,
       ReturnFromGateway, ViewOrder, ClearCart, Shop
  <1> QED
    BY <1>1, <1>2, <1>3, <1>4, <1>5, <1>6, <1>7, <1>8, <1>9 DEF PressProgress

(* The button is never left disabled by a press that is over, however many *)
(* run at once: with the fairness of the requests, SubmitComesBack.        *)
THEOREM BusyHasPress == Spec => []BusyIsUnderWay
  <1> DEFINE Busy == submitting => \E c \in Clicks : Ordering(c)
  <1>1. Init => Busy
    BY DEF Init
  <1>2. IInv /\ Busy /\ [Next]_vars => Busy'
    BY BusyStep
  <1>3. Busy => BusyIsUnderWay
    BY DEF BusyIsUnderWay, SubmitEnabled
  <1> HIDE DEF Busy
  <1> QED
    BY <1>1, <1>2, <1>3, Invariance, PTL DEF Spec
================================================================================
