------------------------------ MODULE CouponsPage ------------------------------
(***************************************************************************)
(* The coupons page of the back office (coupons/coupons-client.tsx): the   *)
(* list, one form that creates or edits, and deletions.                    *)
(*                                                                         *)
(* The fields of the form are left out; editing says whose form it is.     *)
(* couponWrites counts as in ProductsPage.                                 *)
(***************************************************************************)
EXTENDS AdminSession

CONSTANTS
  Coupons,          \* bound: coupons of the list
  MaxCouponWrites   \* bound: changes made

VARIABLES
  couponLoad,      \* the list request that is not cancelled, or Nothing
  couponList,      \* the number of changes the list shows, or Nothing
  couponLoading,   \* loading
  editing,         \* editingId, or Nothing
  submitting,
  deleting,        \* deletingId, or Nothing
  couponWrites,
  couponAcked      \* those made before the last answer that asked for a reload

couponsVars == <<couponLoad, couponList, couponLoading, editing, submitting, deleting,
                 couponWrites, couponAcked>>

--------------------------------------------------------------------------------

CouponRequest ==
  IF stored = Nothing THEN Nothing ELSE [token |-> stored, done |-> FALSE, read |-> 0]

LoadCoupons_OneAtATime ==
  couponLoad' = IF couponLoad # Nothing THEN couponLoad ELSE CouponRequest

(* The load effect, as in ProductsPage.                                    *)
LoadCoupons == couponLoad' = CouponRequest

ServeCoupons ==
  /\ couponLoad # Nothing /\ ~couponLoad.done /\ couponLoad.token \in live
  /\ couponLoad' = [couponLoad EXCEPT !.done = TRUE, !.read = couponWrites]
  /\ UNCHANGED <<couponList, couponLoading, editing, submitting, deleting, couponWrites,
                 couponAcked, adminVars>>

(* A failed reload keeps the list.                                         *)
CouponsAnswered ==
  /\ couponLoad # Nothing
  /\ couponLoad' = Nothing /\ couponLoading' = FALSE
  /\ \E reply \in Outcomes(couponLoad) :
       /\ SignOutOn(reply)
       /\ couponList' = IF reply = "ok" THEN couponLoad.read ELSE couponList
  /\ UNCHANGED <<editing, submitting, deleting, couponWrites, couponAcked,
                 live, shown, check, calls>>

RowsOfCoupons == shown = "coupons" /\ ~couponLoading /\ couponList # Nothing

(* Edit of a row, also while the form or a deletion is under way.          *)
StartEdit(k) ==
  /\ RowsOfCoupons
  /\ editing' = k
  /\ UNCHANGED <<couponLoad, couponList, couponLoading, submitting, deleting, couponWrites,
                 couponAcked, adminVars>>

(* The form with its buttons enabled.                                      *)
CouponForm == shown = "coupons" /\ ~submitting

ResetForm ==
  /\ CouponForm /\ editing # Nothing
  /\ editing' = Nothing
  /\ UNCHANGED <<couponLoad, couponList, couponLoading, submitting, deleting, couponWrites,
                 couponAcked, adminVars>>

HandleSubmit_BusyFirst ==
  /\ CouponForm
  /\ Send("save", editing, Nothing)
  /\ submitting' = TRUE
  /\ UNCHANGED <<couponLoad, couponList, couponLoading, editing, deleting, couponWrites,
                 couponAcked, live, shown, check>>

HandleSubmit ==
  /\ CouponForm
  /\ Send("save", editing, Nothing)
  /\ submitting' = (stored # Nothing)
  /\ UNCHANGED <<couponLoad, couponList, couponLoading, editing, deleting, couponWrites,
                 couponAcked, live, shown, check>>

(* Delete of a row, once confirmed; the closure knows the form of the click. *)
HandleDelete(k) ==
  /\ RowsOfCoupons /\ deleting # k
  /\ Send("delete", k, editing)
  /\ deleting' = IF stored = Nothing THEN deleting ELSE k
  /\ UNCHANGED <<couponLoad, couponList, couponLoading, editing, submitting, couponWrites,
                 couponAcked, live, shown, check>>

(* The API makes the change.                                               *)
ServeCouponCall ==
  \E c \in Asked("save") \cup Asked("delete") :
    /\ ~c.done /\ c.token \in live
    /\ couponWrites < MaxCouponWrites /\ couponWrites' = couponWrites + 1
    /\ calls' = (calls \ {c}) \cup {[c EXCEPT !.done = TRUE]}
    /\ UNCHANGED <<couponLoad, couponList, couponLoading, editing, submitting, deleting,
                   couponAcked, sessionVars, shellVars>>

(* setReloadKey: the answer to a change makes the effect run again.        *)
ReloadCoupons(c, reply) ==
  IF c.here /\ reply = "ok"
  THEN couponAcked' = couponWrites /\ LoadCoupons
  ELSE UNCHANGED <<couponAcked, couponLoad>>

(* resetForm empties the form that is open now, whoever it is for.         *)
SaveAnswered ==
  \E c \in Asked("save"), reply \in Replies :
    /\ reply \in Outcomes(c) /\ Deliver(c, reply) /\ ReloadCoupons(c, reply)
    /\ submitting' = (submitting /\ ~c.here)
    /\ editing' = IF c.here /\ reply = "ok" THEN Nothing ELSE editing
    /\ UNCHANGED <<couponList, couponLoading, deleting, couponWrites, live, shown, check>>

DeleteAnswered ==
  \E c \in Asked("delete"), reply \in Replies :
    /\ reply \in Outcomes(c) /\ Deliver(c, reply) /\ ReloadCoupons(c, reply)
    /\ deleting' = IF c.here THEN Nothing ELSE deleting
    /\ editing' = IF c.here /\ reply = "ok" /\ c.context = c.arg THEN Nothing ELSE editing
    /\ UNCHANGED <<couponList, couponLoading, submitting, couponWrites, live, shown, check>>

--------------------------------------------------------------------------------

CouponsFresh(load) ==
  /\ couponLoad' = load /\ couponList' = Nothing /\ couponLoading' = TRUE
  /\ editing' = Nothing /\ submitting' = FALSE /\ deleting' = Nothing
  /\ couponWrites' = 0 /\ couponAcked' = 0

CouponsOpened == CouponsFresh(CouponRequest)
CouponsClosed == CouponsFresh(Nothing)

CouponsInit ==
  /\ couponLoad = Nothing /\ couponList = Nothing /\ couponLoading = TRUE
  /\ editing = Nothing /\ submitting = FALSE /\ deleting = Nothing
  /\ couponWrites = 0 /\ couponAcked = 0

CouponsAnswers == ServeCoupons \/ CouponsAnswered \/ ServeCouponCall
                  \/ SaveAnswered \/ DeleteAnswered

CouponsNext ==
  \/ ResetForm \/ HandleSubmit
  \/ \E k \in Coupons : StartEdit(k) \/ HandleDelete(k)
  \/ CouponsAnswers
================================================================================
