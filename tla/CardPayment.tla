----------------------------- MODULE CardPayment ------------------------------
(***************************************************************************)
(* What the payment of one order promises to whoever looks at it: it waits *)
(* until the gateway settles it, and is settled once.  OrderLifecycle      *)
(* implements it for orders whose payment staff have not changed;          *)
(* PaymentPage takes it as its server.                                     *)
(***************************************************************************)

Results == {"paid", "failed"}

VARIABLE status  \* payment_status

Init == status = "pending"

(* A callback is delivered, or the window passes. *)
Settle(result) ==
  /\ status = "pending"
  /\ status' = result

Next == \E result \in Results : Settle(result)

Spec == Init /\ [][Next]_status

================================================================================
