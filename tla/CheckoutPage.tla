----------------------------- MODULE CheckoutPage ------------------------------
(***************************************************************************)
(* The checkout form (app/checkout/checkout-form.tsx) in one tab, from the *)
(* cart to the confirmation or the payment gateway.                        *)
(*                                                                         *)
(* handleSubmit is asynchronous: it works on what the form and the cart    *)
(* were when the button was pressed (its closure), while the customer goes *)
(* on editing the form, changing the cart in the header's drawer, pressing *)
(* the button again or leaving the page.  A press is one of Clicks; what   *)
(* it captured is in press[c].  Once the page is left its state is gone,   *)
(* but a press already running goes on, and may still navigate: live says  *)
(* that the page it was made on is still mounted.                          *)
(***************************************************************************)
EXTENDS Naturals, FiniteSets

CONSTANTS
  Variants,     \* variants in the cart
  MaxQuantity,  \* bound: stock the cart lines captured
  Codes,        \* coupon codes the customer may type
  Clicks,       \* bound: presses of the submit button under way at once
  MaxRequests,  \* bound: presses and coupon previews under way at once
  Choices       \* payment toggles staff may have saved in the settings

Methods == {"cod", "whatsapp", "card"}
Toggles == [Methods -> BOOLEAN]

ASSUME MaxQuantityAssumption == MaxQuantity \in Nat
ASSUME MaxRequestsAssumption == MaxRequests \in Nat
ASSUME CodesAssumption == "" \notin Codes
ASSUME ChoicesAssumption == Choices \subseteq Toggles

Carts == [Variants -> 0..MaxQuantity]
Empty(cart) == \A v \in Variants : cart[v] = 0

VARIABLES
  route,            \* the page the tab shows
  items,            \* the cart of the tab: quantity of each variant
  filled,           \* the fields pass validate()
  loadingCustomer,  \* the account request is under way
  settings,         \* publicSettings: absent until they arrive
  gateway,          \* paymentConfig.card_available, or "unknown"
  method,           \* paymentMethod
  checks,           \* cart validations of the load effect that can still answer
  verdict,          \* the cart that serverError says is not available, if any
  code,             \* couponCode
  preview,          \* couponPreview: the code and the cart it was computed for
  asked,            \* coupon previews under way
  submitting,       \* submitting
  press,            \* press[c]: the run of handleSubmit that press c started
  accepted          \* history: codes the server accepted in this tab

cartVars == <<route, items>>
formVars == <<filled, loadingCustomer>>
paymentVars == <<settings, gateway, method>>
checkVars == <<checks, verdict>>
couponVars == <<code, preview, asked, accepted>>
submitVars == <<submitting, press>>
vars == <<cartVars, formVars, paymentVars, checkVars, couponVars, submitVars>>

Routes == {"checkout", "cart", "confirmation", "payment", "gateway"}
NoSettings == [known |-> FALSE, on |-> [m \in Methods |-> TRUE]]
Settings == [known : BOOLEAN, on : Toggles]
NoLines == [v \in Variants |-> 0]
NoPreview == [code |-> "", lines |-> NoLines]
Idle == [at |-> "idle", lines |-> NoLines, approved |-> NoLines, sent |-> NoLines,
         card |-> FALSE, coupon |-> "", live |-> FALSE]
Stages == {"idle", "checking", "placing", "placed", "initiating"}
(* card is paymentMethod = "card": WhatsApp only opens a chat besides. *)
Presses == [at : Stages, lines : Carts, approved : Carts, sent : Carts,
            card : BOOLEAN, coupon : Codes \cup {""}, live : BOOLEAN]

TypeOK ==
  /\ route \in Routes
  /\ items \in Carts
  /\ filled \in BOOLEAN
  /\ loadingCustomer \in BOOLEAN
  /\ settings \in Settings
  /\ gateway \in {"unknown", "ready", "off"}
  /\ method \in Methods
  /\ checks \subseteq Carts
  /\ verdict \in Carts
  /\ code \in Codes \cup {""}
  /\ preview \in [code : Codes \cup {""}, lines : Carts]
  /\ asked \subseteq [code : Codes, lines : Carts]
  /\ submitting \in BOOLEAN
  /\ press \in [Clicks -> Presses]
  /\ accepted \subseteq Codes

--------------------------------------------------------------------------------
(* What the page shows and enables *)

(* isCodEnabled, isWhatsappEnabled, isCardAvailable: toggles count as on   *)
(* until the settings arrive, the gateway as off until it answers.         *)
Offered(m, s, g) == s.on[m] /\ (m = "card" => g = "ready")

(* The effect that moves a method that is not offered to the first that is.*)
Fallback(m, s, g) ==
  IF s.known /\ ~Offered(m, s, g) /\ \E n \in Methods : Offered(n, s, g)
  THEN CASE s.on["cod"] -> "cod"
         [] ~s.on["cod"] /\ s.on["whatsapp"] -> "whatsapp"
         [] OTHER -> "card"
  ELSE m

(* validate *)
Valid == filled /\ Offered(method, settings, gateway)

SubmitEnabled == route = "checkout" /\ ~submitting /\ ~loadingCustomer

(* Bound: how many more requests the customer starts. *)
RequestsUnderWay == Cardinality(asked) + Cardinality({c \in Clicks : press[c].at # "idle"})
MayAsk == RequestsUnderWay < MaxRequests

(* The coupon box shows its input only while nothing is applied. *)
CouponInputShown == route = "checkout" /\ preview = NoPreview

--------------------------------------------------------------------------------
(* Mounting and leaving *)

(* A fresh form: every useState initial value, and the effects of the      *)
(* first render.                                                           *)
Fresh(cart) ==
  /\ filled' = FALSE
  /\ loadingCustomer' \in BOOLEAN
  /\ settings' = NoSettings /\ gateway' = "unknown" /\ method' = "cod"
  /\ checks' = IF Empty(cart) THEN {} ELSE {cart}
  /\ verdict' = NoLines
  /\ code' = "" /\ preview' = NoPreview /\ asked' = {}
  /\ submitting' = FALSE

Init ==
  /\ route = "cart" /\ items \in Carts
  /\ filled = FALSE /\ loadingCustomer = FALSE
  /\ settings = NoSettings /\ gateway = "unknown" /\ method = "cod"
  /\ checks = {} /\ verdict = NoLines
  /\ code = "" /\ preview = NoPreview /\ asked = {}
  /\ submitting = FALSE
  /\ press = [c \in Clicks |-> Idle]
  /\ accepted = {}

(* The cart page's "Proceed to Checkout", or any link back to it. *)
Mount ==
  /\ route \in {"cart", "payment"}
  /\ route' = "checkout"
  /\ Fresh(items)
  /\ UNCHANGED <<items, press, accepted>>

(* The state of a form that is not mounted does not matter: it is set to   *)
(* one value, and the replies it awaits have no effect any more.           *)
Unmounted ==
  /\ filled' = FALSE /\ loadingCustomer' = FALSE
  /\ settings' = NoSettings /\ gateway' = "unknown" /\ method' = "cod"
  /\ checks' = {} /\ verdict' = NoLines
  /\ code' = "" /\ preview' = NoPreview /\ asked' = {}
  /\ submitting' = FALSE

Orphaned(p) == [c \in Clicks |-> IF p[c].at = "idle" THEN Idle ELSE [p[c] EXCEPT !.live = FALSE]]

(* "Review your cart" and the links of the header and the footer. *)
Leave ==
  /\ route \in {"checkout", "payment", "confirmation"}
  /\ route' = "cart"
  /\ Unmounted
  /\ press' = Orphaned(press)
  /\ UNCHANGED <<items, accepted>>

(* The empty-cart guard. *)
RedirectEmpty ==
  /\ route = "checkout" /\ Empty(items)
  /\ route' = "cart"
  /\ Unmounted
  /\ press' = Orphaned(press)
  /\ UNCHANGED <<items, accepted>>

--------------------------------------------------------------------------------
(* The form *)

(* The saved name, email and phone replace what is in the fields; an       *)
(* account may have no phone.                                              *)
CustomerLoaded ==
  /\ route = "checkout" /\ loadingCustomer
  /\ loadingCustomer' = FALSE
  /\ filled' \in BOOLEAN
  /\ UNCHANGED <<cartVars, paymentVars, checkVars, couponVars, submitVars>>

CustomerFailed ==
  /\ route = "checkout" /\ loadingCustomer
  /\ loadingCustomer' = FALSE
  /\ UNCHANGED <<cartVars, filled, paymentVars, checkVars, couponVars, submitVars>>

(* The address fields, and the contact fields even before they are loaded. *)
EditFields ==
  /\ route = "checkout"
  /\ filled' = ~filled
  /\ UNCHANGED <<cartVars, loadingCustomer, paymentVars, checkVars, couponVars, submitVars>>

SettingsLoaded(on) ==
  /\ route = "checkout" /\ ~settings.known
  /\ settings' = [known |-> TRUE, on |-> on]
  /\ method' = Fallback(method, settings', gateway)
  /\ UNCHANGED <<cartVars, formVars, gateway, checkVars, couponVars, submitVars>>

(* Mutant of GatewayLoaded: paymentConfig is not a dependency of the effect.*)
GatewayLoaded_NoFallback(answer) ==
  /\ route = "checkout" /\ gateway = "unknown"
  /\ gateway' = answer
  /\ UNCHANGED <<cartVars, formVars, settings, method, checkVars, couponVars, submitVars>>

GatewayLoaded(answer) ==
  /\ route = "checkout" /\ gateway = "unknown"
  /\ gateway' = answer
  /\ method' = Fallback(method, settings, gateway')
  /\ UNCHANGED <<cartVars, formVars, settings, checkVars, couponVars, submitVars>>

(* The payment radio buttons: only what is offered is shown enabled. *)
ChooseMethod(m) ==
  /\ route = "checkout" /\ Offered(m, settings, gateway)
  /\ method' = m
  /\ UNCHANGED <<cartVars, formVars, settings, gateway, checkVars, couponVars, submitVars>>

--------------------------------------------------------------------------------
(* The cart under the form *)

(* Mutant of Revalidate: the effect does not cancel its previous run. *)
Revalidate_KeepsOld(cart) ==
  checks' = checks \cup (IF Empty(cart) THEN {} ELSE {cart})

(* The load effect runs again for every new cart: its cleanup cancels the  *)
(* validation under way, whose answer then does nothing.                   *)
Revalidate(cart) == checks' = IF Empty(cart) THEN {} ELSE {cart}

(* The header's cart drawer, open over the form, has a line per variant.   *)
DrawerLine(v) == route = "checkout" /\ items[v] > 0

(* Its buttons: removeItem, and updateQuantity once or more.               *)
ChangeCart(v, quantity) ==
  /\ DrawerLine(v) /\ quantity # items[v]
  /\ items' = [items EXCEPT ![v] = quantity]
  /\ Revalidate(items')
  /\ UNCHANGED <<route, formVars, paymentVars, verdict, couponVars, submitVars>>

(* The answer of POST /api/cart to the load effect. *)
CheckAnswered(r, available) ==
  /\ r \in checks
  /\ checks' = checks \ {r}
  /\ verdict' = IF available THEN NoLines ELSE r
  /\ UNCHANGED <<cartVars, formVars, paymentVars, couponVars, submitVars>>

--------------------------------------------------------------------------------
(* The coupon box *)

TypeCode(k) ==
  /\ CouponInputShown
  /\ code' = k
  /\ UNCHANGED <<cartVars, formVars, paymentVars, checkVars, preview, asked,
                 accepted, submitVars>>

(* handleApplyCoupon.  couponBusy only disables the button: the Enter key  *)
(* asks again while a preview is under way, so it guards nothing here.     *)
HandleApplyCoupon ==
  /\ CouponInputShown
  /\ code # "" /\ ~Empty(items) /\ MayAsk
  /\ asked' = asked \cup {[code |-> code, lines |-> items]}
  /\ UNCHANGED <<cartVars, formVars, paymentVars, checkVars, code, preview,
                 accepted, submitVars>>

(* Mutant of CouponAnswered: it applies what is in the box by now.         *)
CouponAnswered_TypedCode(r, valid) ==
  /\ r \in asked
  /\ asked' = asked \ {r}
  /\ preview' = IF valid THEN [r EXCEPT !.code = code] ELSE NoPreview
  /\ accepted' = IF valid THEN accepted \cup {r.code} ELSE accepted
  /\ UNCHANGED <<cartVars, formVars, paymentVars, checkVars, code, submitVars>>

CouponAnswered(r, valid) ==
  /\ r \in asked
  /\ asked' = asked \ {r}
  /\ preview' = IF valid THEN r ELSE NoPreview
  /\ code' = IF valid THEN r.code ELSE code
  /\ accepted' = IF valid THEN accepted \cup {r.code} ELSE accepted
  /\ UNCHANGED <<cartVars, formVars, paymentVars, checkVars, submitVars>>

HandleRemoveCoupon ==
  /\ route = "checkout" /\ preview # NoPreview
  /\ preview' = NoPreview
  /\ code' = ""
  /\ UNCHANGED <<cartVars, formVars, paymentVars, checkVars, asked, accepted,
                 submitVars>>

--------------------------------------------------------------------------------
(* handleSubmit *)

(* A press on a form that does not validate only shows the field errors. *)
PressInvalid ==
  /\ SubmitEnabled /\ ~Empty(items) /\ ~Valid
  /\ verdict' = NoLines
  /\ UNCHANGED <<cartVars, formVars, paymentVars, checks, couponVars, submitVars>>

(* Up to the first await: submitting is not set yet, so the button stays   *)
(* enabled until the validation answers and may be pressed again.          *)
Press(c) ==
  /\ SubmitEnabled /\ ~Empty(items) /\ Valid /\ MayAsk
  /\ press[c].at = "idle"
  /\ press' = [press EXCEPT ![c] =
       [Idle EXCEPT !.at = "checking", !.lines = items, !.card = (method = "card"),
                    !.coupon = preview.code, !.live = TRUE]]
  /\ verdict' = NoLines
  /\ UNCHANGED <<cartVars, formVars, paymentVars, checks, couponVars, submitting>>

(* Mutant of SubmitChecked: the order takes the cart as it is by now. *)
SubmitChecked_CurrentCart(c) ==
  /\ press[c].at = "checking"
  /\ press' = [press EXCEPT ![c].at = "placing", ![c].approved = press[c].lines,
                            ![c].sent = items]
  /\ submitting' = (submitting \/ press[c].live)
  /\ UNCHANGED <<cartVars, formVars, paymentVars, checkVars, couponVars>>

(* validateCart finds every line available; placeOrder is called with the  *)
(* lines that were validated.                                              *)
SubmitChecked(c) ==
  /\ press[c].at = "checking"
  /\ press' = [press EXCEPT ![c].at = "placing", ![c].approved = press[c].lines,
                            ![c].sent = press[c].lines]
  /\ submitting' = (submitting \/ press[c].live)
  /\ UNCHANGED <<cartVars, formVars, paymentVars, checkVars, couponVars>>

(* A line is not available any more, or the validation fails.  Nothing     *)
(* cancels it: what it says is about the cart the press captured, also     *)
(* when the drawer has changed it since.                                   *)
SubmitUnavailable(c) ==
  /\ press[c].at = "checking"
  /\ press' = [press EXCEPT ![c] = Idle]
  /\ verdict' \in IF press[c].live THEN {press[c].lines, NoLines} ELSE {verdict}
  /\ UNCHANGED <<cartVars, formVars, paymentVars, checks, couponVars, submitting>>

(* The server creates the order (OrderLifecycle!PlaceOrderCommit). *)
OrderCreated(c) ==
  /\ press[c].at = "placing"
  /\ press' = [press EXCEPT ![c].at = "placed"]
  /\ UNCHANGED <<cartVars, formVars, paymentVars, checkVars, couponVars, submitting>>

(* Mutant of OrderFailed: the button stays disabled. *)
OrderFailed_StaysBusy(c) ==
  /\ press[c].at \in {"placing", "placed"}
  /\ press' = [press EXCEPT ![c] = Idle]
  /\ verdict' = IF press[c].live THEN NoLines ELSE verdict
  /\ UNCHANGED <<cartVars, formVars, paymentVars, checks, couponVars, submitting>>

(* The order is refused, or its answer is lost although it was created:    *)
(* the page cannot tell, and lets the customer order again.                *)
OrderFailed(c) ==
  /\ press[c].at \in {"placing", "placed"}
  /\ press' = [press EXCEPT ![c] = Idle]
  /\ verdict' = IF press[c].live THEN NoLines ELSE verdict
  /\ submitting' = (submitting /\ ~press[c].live)
  /\ UNCHANGED <<cartVars, formVars, paymentVars, checks, couponVars>>

(* The page a press sends the tab to, whatever the tab shows by then. *)
Navigate(c, to) ==
  /\ route' = to
  /\ Unmounted
  /\ press' = [Orphaned(press) EXCEPT ![c] = Idle]
  /\ UNCHANGED <<items, accepted>>

OrderAnswered(c) ==
  /\ press[c].at = "placed"
  /\ ~press[c].card
  /\ Navigate(c, "confirmation")

StartCardPayment(c) ==
  /\ press[c].at = "placed"
  /\ press[c].card
  /\ press' = [press EXCEPT ![c].at = "initiating"]
  /\ UNCHANGED <<cartVars, formVars, paymentVars, checkVars, couponVars, submitting>>

(* form.submit() leaves the application: every press under way dies. *)
GoToGateway(c) ==
  /\ press[c].at = "initiating"
  /\ route' = "gateway"
  /\ Unmounted
  /\ press' = [d \in Clicks |-> Idle]
  /\ UNCHANGED <<items, accepted>>

(* The order exists: the customer retries from the payment page. *)
InitiationFailed(c) ==
  /\ press[c].at = "initiating"
  /\ Navigate(c, "payment")

ReturnFromGateway ==
  /\ route = "gateway"
  /\ route' = "payment"
  /\ UNCHANGED <<items, formVars, paymentVars, checkVars, couponVars, submitVars>>

(* The payment page's "View order" and "View confirmation". *)
ViewOrder ==
  /\ route = "payment"
  /\ route' = "confirmation"
  /\ UNCHANGED <<items, formVars, paymentVars, checkVars, couponVars, submitVars>>

(* ClearCart of the confirmation page, once the order was found. *)
ClearCart ==
  /\ route = "confirmation"
  /\ ~Empty(items)
  /\ items' = NoLines
  /\ UNCHANGED <<route, formVars, paymentVars, checkVars, couponVars, submitVars>>

(* Elsewhere in the shop the customer fills the cart. *)
Shop(cart) ==
  /\ route = "cart"
  /\ items # cart
  /\ items' = cart
  /\ UNCHANGED <<route, formVars, paymentVars, checkVars, couponVars, submitVars>>

PressProgress(c) ==
  \/ SubmitChecked(c) \/ SubmitUnavailable(c)
  \/ OrderCreated(c) \/ OrderFailed(c) \/ OrderAnswered(c)
  \/ StartCardPayment(c) \/ GoToGateway(c) \/ InitiationFailed(c)

Next ==
  \/ Mount \/ Leave \/ RedirectEmpty
  \/ CustomerLoaded \/ CustomerFailed \/ EditFields
  \/ \E on \in Choices : SettingsLoaded(on)
  \/ \E answer \in {"ready", "off"} : GatewayLoaded(answer)
  \/ \E m \in Methods : ChooseMethod(m)
  \/ \E v \in Variants, quantity \in 0..MaxQuantity : ChangeCart(v, quantity)
  \/ \E r \in checks, available \in BOOLEAN : CheckAnswered(r, available)
  \/ \E k \in Codes \cup {""} : TypeCode(k)
  \/ HandleApplyCoupon \/ HandleRemoveCoupon
  \/ \E r \in asked, valid \in BOOLEAN : CouponAnswered(r, valid)
  \/ PressInvalid
  \/ \E c \in Clicks : Press(c) \/ PressProgress(c)
  \/ ReturnFromGateway \/ ViewOrder \/ ClearCart
  \/ \E cart \in Carts : Shop(cart)

(* Requests are answered or fail; the guard's redirect happens. *)
Fairness ==
  /\ WF_vars(CustomerLoaded \/ CustomerFailed)
  /\ WF_vars(RedirectEmpty)
  /\ \A c \in Clicks : WF_vars(PressProgress(c))

Spec == Init /\ [][Next]_vars /\ Fairness

--------------------------------------------------------------------------------
(* Properties *)

(* An order carries exactly the lines that the server just found           *)
(* available, although the drawer can change the cart between the two      *)
(* requests of handleSubmit.                                               *)
OrdersWhatWasValidated ==
  \A c \in Clicks :
    press[c].at \in {"placing", "placed", "initiating"} => press[c].sent = press[c].approved

(* An order is paid by card only if the gateway said that it can be, and   *)
(* once the settings are there the method selected is one that is offered  *)
(* whenever any is: in whatever order the settings, the gateway's answer,  *)
(* the fallback and the customer's clicks came ("Card is offered only when *)
(* BOTH ...").                                                             *)
MethodIsOffered ==
  /\ \A c \in Clicks :
       press[c].at # "idle" /\ press[c].live /\ press[c].card => gateway = "ready"
  /\ settings.known /\ (\E m \in Methods : Offered(m, settings, gateway))
       => Offered(method, settings, gateway)

(* An order carries no coupon the server has not accepted, and the code    *)
(* shown as applied is the one that will be sent, although previews may    *)
(* overlap and are answered in any order.                                  *)
CouponsAreAccepted ==
  /\ \A c \in Clicks : press[c].coupon \in accepted \cup {""}
  /\ preview # NoPreview => preview.code \in accepted /\ code = preview.code

(* The load effect never says of an earlier cart that it is not available: *)
(* a verdict that reaches the page is about the cart it shows, but for the *)
(* one a press of this page ends with, about the cart it captured.         *)
CapturedBy(c, cart) == press[c].at = "checking" /\ press[c].live /\ press[c].lines = cart
OldChecksAreDropped ==
  [][verdict' # verdict /\ verdict' # NoLines =>
       verdict' = items \/ \E c \in Clicks : CapturedBy(c, verdict') /\ press'[c] = Idle]_vars

(* The submit button never stays disabled on a page the customer is still  *)
(* on: each way through handleSubmit, and the account request, enables it  *)
(* or leaves the page.                                                     *)
SubmitComesBack ==
  (route = "checkout" /\ ~SubmitEnabled) ~> (SubmitEnabled \/ route # "checkout")

(* Its safety half: a disabled button has a press of this page behind it   *)
(* that is past its validation, or the account request.  With several      *)
(* presses under way, one that fails enables the button for all.           *)
Ordering(c) == press[c].live /\ press[c].at \in {"placing", "placed", "initiating"}
BusyIsUnderWay ==
  route = "checkout" /\ ~SubmitEnabled =>
    loadingCustomer \/ \E c \in Clicks : Ordering(c)

--------------------------------------------------------------------------------
(* The inductive invariant *)

(* Whoever leaves the page leaves its presses behind, and a validation of  *)
(* the load effect that can still answer is about the cart shown.          *)
PageSound ==
  /\ \A c \in Clicks : press[c].live => route = "checkout"
  /\ checks \subseteq IF route = "checkout" THEN {items} ELSE {}

IInv ==
  /\ TypeOK
  /\ PageSound
  /\ OrdersWhatWasValidated
  /\ MethodIsOffered
  /\ CouponsAreAccepted

================================================================================
