----------------------------- MODULE MCCheckout -----------------------------
EXTENDS Checkout, TLC

(* One buyer makes all the payments.                                       *)
SameBuyer == [p \in Payments |-> CHOOSE b \in Buyers : TRUE]

(* One process of the api, or one for each worker.                         *)
OneProcess == [w \in Workers |-> CHOOSE r \in Replicas : TRUE]
OwnProcess == CHOOSE f \in [Workers -> Replicas] :
                \A v, w \in Workers : f[v] = f[w] => v = w

(* To begin with there is an account on trial, running and linked to the   *)
(* cabinet; or one that was paid for, has run out and is not linked; or    *)
(* none, or none any more.                                                 *)
StartInit == Init /\ \A b \in Buyers : account[b] # "none" =>
                        /\ account[b] = "TRIAL" <=> expiry[b] > 0
                        /\ linked[b] = 1 <=> expiry[b] > 0
StartSpec == StartInit /\ [][Next]_vars

(* The recovery run starts from a cabinet that is linked: to an account on *)
(* trial and running, or to one that has been removed in the panel.        *)
LiveInit == Init /\ \A b \in Buyers :
                      linked[b] = 1 /\ start[b] \in {[tag |-> "TRIAL", expiry |-> 2],
                                                   [tag |-> "none", expiry |-> 0]}
LiveSpec == LiveInit /\ [][Next]_vars /\ Fairness
=============================================================================
