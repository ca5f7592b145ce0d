-------------------------- MODULE PaymentLifecycle --------------------------
(***************************************************************************)
(* What a buyer is promised: a payment is started, settled by the kassa    *)
(* one way or the other, extends the subscription once and is then marked  *)
(* as delivered.  Nothing is ever undone, and nothing happens twice.       *)
(***************************************************************************)
CONSTANT Payments

VARIABLE stage      \* how far each payment has come

Init == stage = [p \in Payments |-> "new"]

(* Started or refused; settled by the kassa; extended in the panel; marked *)
(* as delivered.                                                           *)
Moves == {<<"new", "pending">>, <<"new", "failed">>, <<"pending", "failed">>,
          <<"pending", "paid">>, <<"paid", "extended">>, <<"extended", "delivered">>}

Next == \E p \in Payments :
  /\ <<stage[p], stage'[p]>> \in Moves
  /\ stage' = [stage EXCEPT ![p] = stage'[p]]

Spec == Init /\ [][Next]_stage
=============================================================================
