---------------------------- MODULE PaymentMutex ---------------------------
(***************************************************************************)
(* What `zamok_platezha` promises to the webhook and to the sweep: of the  *)
(* coroutines working on one payment at most one is inside.                *)
(***************************************************************************)
CONSTANTS Tasks, Ids

VARIABLE inside      \* id -> the coroutines that hold its lock

Init == inside = [i \in Ids |-> {}]

Enter(t, i) == /\ inside[i] = {}
               /\ \A j \in Ids : t \notin inside[j]
               /\ inside' = [inside EXCEPT ![i] = {t}]

Leave(t, i) == /\ inside[i] = {t}
               /\ inside' = [inside EXCEPT ![i] = {}]

Next == \E t \in Tasks, i \in Ids : Enter(t, i) \/ Leave(t, i)

Spec == Init /\ [][Next]_inside
=============================================================================
