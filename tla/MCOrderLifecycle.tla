--------------------------- MODULE MCOrderLifecycle ----------------------------
(* Small instances of OrderLifecycle for TLC. *)
EXTENDS OrderLifecycle, TLC

Form(status, payment) == [status |-> status, payment |-> payment]

(* Every body PUT /api/admin/orders/{id} accepts. *)
AllForms ==
  [status : Statuses \cup {Keep}, payment : PaymentStatuses \cup {Keep}]
    \ {Form(Keep, Keep)}

(* Staff cancel orders, reopen them and confirm their payments. *)
SingleForms == {Form("pending", Keep), Form("cancelled", Keep), Form(Keep, "paid")}

(* Staff only confirm payments. *)
ConfirmForms == {Form(Keep, "paid")}
NoForms == {}

Symmetry ==
  UNION {Permutations(Workers), Permutations(Crons),
         Permutations(Orders), Permutations(Variants)}
================================================================================
