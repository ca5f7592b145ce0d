------------------------------ MODULE Checkout ------------------------------
(***************************************************************************)
(* Selling a subscription: CheckoutService (checkout.py), the webhook      *)
(* (api/routes/payments.py) and the sweep over payments whose notification *)
(* never arrived (payment_sweep.py).  Several workers, each a webhook      *)
(* request or the sweep, carry the same payments from "pending" to a       *)
(* subscription in the panel.  A worker is preempted at every await, so    *)
(* each call to the kassa (YooKassa), to the panel (Remnawave) or to the   *)
(* database is an action of its own.  Rows, kassa and panel outlive a      *)
(* restart of the api; locks, workers and the list of a sweep do not.      *)
(***************************************************************************)
EXTENDS Integers, FiniteSets

CONSTANTS
  Payments,     \* payments, numbered in the order of created_at
  Buyers,       \* contact e-mails, each with one account in the panel
  BuyerOf,      \* whose payment it is
  Workers,      \* coroutines of the api
  Sweeper,      \* the worker that runs the sweep, the others serve webhooks
  Replicas,     \* processes of the api, each with its own locks
  ReplicaOf,    \* the process a worker runs in
  Limit,        \* _ZA_ODIN_OBHOD: payments per sweep
  PanelSet,     \* whether REMNAWAVE_BASE_URL and its token are configured
  SquadSet,     \* whether REMNAWAVE_SQUAD_UUID is
  Faults,       \* the kinds of fault that may happen
  MaxFaults,    \* bound on how many happen in a behaviour
  Nobody, NoPayment

ASSUME PaymentsAssumption == Payments \subseteq Nat /\ NoPayment \notin Payments
ASSUME BuyersAssumption == BuyerOf \in [Payments -> Buyers]
ASSUME WorkersAssumption == /\ Sweeper \in Workers
                            /\ Nobody \notin Workers
                            /\ ReplicaOf \in [Workers -> Replicas]
ASSUME LimitsAssumption == Limit \in Nat \ {0} /\ MaxFaults \in Nat
ASSUME PanelAssumption == PanelSet \in BOOLEAN /\ SquadSet \in BOOLEAN

(* "lost"    the panel applied a call and its answer did not reach us      *)
(* "crash"   a process of the api stops and is started again               *)
(* "db"      a transaction of the worker fails                             *)
(* "cabinet" opening the buyer's cabinet fails                             *)
(* "removed" an administrator deletes the account in the panel             *)
FaultKinds == {"lost", "crash", "db", "cabinet", "removed"}
ASSUME FaultsAssumption == Faults \subseteq FaultKinds

VARIABLES
  status,       \* payments.status, "absent" before the row is committed
  known,        \* payments.provider_payment_id is set
  delivered,    \* payments.delivered_at is set
  notified,     \* payments.notified_at is set
  window,       \* age of the payment as the two sweeps see it
  kassa,        \* the payment as the kassa sees it
  account,      \* tag of the buyer's account in the panel, "none" without it
  expiry,       \* the day the account's subscription ends
  uid,          \* which account it is: one made after a removal is another
  start,        \* tag and end of the account when the behaviour starts
  linked,       \* the account the buyer's cabinet is linked to, 0 for none
  reward,       \* what register() was called with for this payment
  pc, job, loc, \* where a worker is, on which payment, what it has read
  holder,       \* zamok_platezha: replica, payment -> worker that holds it
  queue,        \* the payments a running sweep has still to visit
  alerts,       \* messages sent to the owner about the payment
  claims,       \* calls that moved the payment to succeeded
  applied,      \* times the panel has extended the account for the payment
  together,     \* payments whose extension overlapped another of their buyer
  faults        \* faults so far

rows == <<status, known, delivered, notified, linked, reward>>
outside == <<kassa, account, expiry, uid, start, applied, together>>
local == <<pc, job, loc, holder, queue>>
vars == <<status, known, delivered, notified, window, kassa, account, expiry,
          uid, start, linked, reward, pc, job, loc, holder, queue, alerts,
          claims, applied, together, faults>>

Statuses == {"absent", "pending", "succeeded", "failed"}
Stages == {"idle", "ask", "claim", "check", "look", "create", "extend",
           "mark", "cabinet", "letter", "register"}
Alerts == {"purchase", "outage", "canceled", "mismatch"}

Today == 1      \* the day the model runs on; an account may end before it
Days == 1       \* payment.period_days, the same for every payment

Later(a, b) == IF a >= b THEN a ELSE b

Blank == [seen |-> "absent", base |-> 0, wasPaid |-> FALSE, uid |-> 0]
-----------------------------------------------------------------------------
Init ==
  /\ status = [p \in Payments |-> "absent"]
  /\ known = [p \in Payments |-> FALSE]
  /\ delivered = [p \in Payments |-> FALSE]
  /\ notified = [p \in Payments |-> FALSE]
  /\ window = [p \in Payments |-> "fresh"]
  /\ kassa = [p \in Payments |-> "none"]
  /\ account \in [Buyers -> {"none", "TRIAL", "PAID"}]
  /\ expiry \in [Buyers -> {0, Today + 1}]
  /\ \A b \in Buyers : account[b] = "none" => expiry[b] = 0
  /\ start = [b \in Buyers |-> [tag |-> account[b], expiry |-> expiry[b]]]
  /\ linked \in [Buyers -> {0, 1}]
  /\ uid = [b \in Buyers |-> IF account[b] = "none" /\ linked[b] = 1 THEN 2 ELSE 1]
  /\ reward = [p \in Payments |-> "none"]
  /\ pc = [w \in Workers |-> "idle"]
  /\ job = [w \in Workers |-> NoPayment]
  /\ loc = [w \in Workers |-> Blank]
  /\ holder = [k \in Replicas \X Payments |-> Nobody]
  /\ queue = {}
  /\ alerts = [p \in Payments |-> {}]
  /\ claims = [p \in Payments |-> 0]
  /\ applied = [p \in Payments |-> 0]
  /\ together = {}
  /\ faults = 0

Fault(kind) == kind \in Faults /\ faults < MaxFaults /\ faults' = faults + 1
-----------------------------------------------------------------------------
(* Payments are numbered in the order in which start() makes them.         *)
Absent(p) == /\ status[p] = "absent"
             /\ \A q \in Payments : q < p => status[q] # "absent"

(* start(): the row becomes visible with the kassa's identifier on it.     *)
Start(p) ==
  /\ Absent(p)
  /\ status' = [status EXCEPT ![p] = "pending"]
  /\ known' = [known EXCEPT ![p] = TRUE]
  /\ kassa' = [kassa EXCEPT ![p] = "pending"]
  /\ UNCHANGED <<delivered, notified, window, account, expiry, uid, start, linked,
                 reward, local, alerts, claims, applied, together, faults>>

(* start() when the kassa does not answer: the row is kept as failed and   *)
(* without an identifier, whether or not the kassa made a payment.         *)
StartRefused(p) ==
  /\ Absent(p)
  /\ status' = [status EXCEPT ![p] = "failed"]
  /\ kassa' \in {kassa, [kassa EXCEPT ![p] = "pending"]}
  /\ UNCHANGED <<known, delivered, notified, window, account, expiry, uid, start,
                 linked, reward, local, alerts, claims, applied, together, faults>>

(* The kassa and its buyer: only who got the link can pay.  A payment made *)
(* may be reversed later, and is reported as canceled then.                *)
Pay(p) ==
  /\ known[p] /\ kassa[p] = "pending"
  /\ \E outcome \in {"succeeded", "other_amount", "canceled"} :
       kassa' = [kassa EXCEPT ![p] = outcome]
  /\ UNCHANGED <<rows, local, window, account, expiry, uid, start, alerts, claims,
                 applied, together, faults>>

Reverse(p) ==
  /\ kassa[p] \in {"succeeded", "other_amount"}
  /\ kassa' = [kassa EXCEPT ![p] = "reversed"]
  /\ UNCHANGED <<rows, local, window, account, expiry, uid, start, alerts, claims,
                 applied, together, faults>>

(* Mutant: the amount the kassa took is not compared with ours.            *)
ReportedAnyAmount(p) ==
  CASE kassa[p] = "reversed" -> "canceled"
    [] kassa[p] = "other_amount" -> "succeeded"
    [] OTHER -> kassa[p]

(* What get_payment reports.                                               *)
Reported(p) == IF kassa[p] = "reversed" THEN "canceled" ELSE kassa[p]

(* Days pass: a payment leaves the window of the frequent sweep, then the  *)
(* window of the daily one.  Payments made earlier do so earlier.          *)
Age(p) ==
  /\ status[p] # "absent" /\ window[p] # "gone"
  /\ \A q \in Payments : q < p => window[q] # window[p]
  /\ window' = [window EXCEPT ![p] = IF @ = "fresh" THEN "stale" ELSE "gone"]
  /\ UNCHANGED <<rows, outside, local, alerts, claims, faults>>
-----------------------------------------------------------------------------
Lock(w, p) == <<ReplicaOf[w], p>>

(* Mutant: without the lock.                                               *)
TakeNoLock(w, p) ==
  /\ pc[w] = "idle"
  /\ holder' = [holder EXCEPT ![Lock(w, p)] = w]
  /\ job' = [job EXCEPT ![w] = p]
  /\ pc' = [pc EXCEPT ![w] = "ask"]
  /\ loc' = [loc EXCEPT ![w].seen = status[p]]

(* zamok_platezha is taken, and confirm() reads the row.                   *)
Take(w, p) ==
  /\ pc[w] = "idle"
  /\ holder[Lock(w, p)] = Nobody
  /\ holder' = [holder EXCEPT ![Lock(w, p)] = w]
  /\ job' = [job EXCEPT ![w] = p]
  /\ pc' = [pc EXCEPT ![w] = "ask"]
  /\ loc' = [loc EXCEPT ![w].seen = status[p]]

(* The worker is done with its payment, well or badly: the lock is left.   *)
Finish(w) ==
  /\ pc' = [pc EXCEPT ![w] = "idle"]
  /\ job' = [job EXCEPT ![w] = NoPayment]
  /\ loc' = [loc EXCEPT ![w] = Blank]
  /\ holder' = [holder EXCEPT ![Lock(w, job[w])] = Nobody]

Goto(w, stage) ==
  /\ pc' = [pc EXCEPT ![w] = stage]
  /\ UNCHANGED <<job, loc, holder, queue>>

(* An error that concerns every payment ends the sweep.                    *)
Abort(w) ==
  /\ Finish(w)
  /\ queue' = IF w = Sweeper THEN {} ELSE queue

(* yookassa_webhook: anybody may call it, any number of times.  For an     *)
(* identifier no row bears it changes nothing.                             *)
Webhook(w, p) ==
  /\ w # Sweeper
  /\ known[p]
  /\ Take(w, p)
  /\ UNCHANGED <<rows, outside, window, queue, alerts, claims, faults>>

(* ozhidayushchie_id: what a sweep over a window has something to do with. *)
Due(ages) == {p \in Payments :
  /\ known[p]
  /\ status[p] = "pending" \/ (status[p] = "succeeded" /\ ~delivered[p])
  /\ window[p] \in ages}

Newest(S) == {p \in S : Cardinality({q \in S : q > p}) < Limit}

(* _obojti, called by obojti_svezhie and zakryt_ostyvshie: the list is     *)
(* read once, in a session of its own.                                     *)
BeginSweep(age) ==
  /\ pc[Sweeper] = "idle" /\ queue = {}
  /\ Due({age}) # {}
  /\ queue' = Newest(Due({age}))
  /\ UNCHANGED <<rows, outside, window, pc, job, loc, holder, alerts, claims,
                 faults>>

(* dovesti_platyozh for the next payment of the list, newest first.        *)
Visit(p) ==
  /\ p \in queue
  /\ \A q \in queue : q <= p
  /\ Take(Sweeper, p)
  /\ queue' = queue \ {p}
  /\ UNCHANGED <<rows, outside, window, alerts, claims, faults>>
-----------------------------------------------------------------------------
(* Mutant: a payment the kassa does not answer about is given up.          *)
AskFailedGivesUp(w) ==
  /\ pc[w] = "ask"
  /\ status' = [status EXCEPT ![job[w]] =
                  IF @ = "pending" THEN "failed" ELSE @]
  /\ Abort(w)
  /\ UNCHANGED <<known, delivered, notified, linked, reward, outside, window,
                 alerts, claims, faults>>

(* confirm(): the kassa does not answer.                                   *)
AskFailed(w) ==
  /\ pc[w] = "ask"
  /\ Abort(w)
  /\ UNCHANGED <<rows, outside, window, alerts, claims, faults>>

Alert(p, kind) == alerts' = [alerts EXCEPT ![p] = @ \cup {kind}]

(* Mutant: whatever the status of the payment was.                         *)
AskCanceledAnyway(w) == LET p == job[w] IN
  /\ pc[w] = "ask"
  /\ Reported(p) = "canceled"
  /\ status' = [status EXCEPT ![p] = "failed"]
  /\ Goto(w, "check")
  /\ UNCHANGED <<known, delivered, notified, linked, reward, outside, window,
                 alerts, claims, faults>>

(* Mutant: the kassa's own word is stored.                                 *)
AskCanceledVerbatim(w) == LET p == job[w] IN
  /\ pc[w] = "ask"
  /\ Reported(p) = "canceled"
  /\ status' = IF loc[w].seen = "pending"
               THEN [status EXCEPT ![p] = "canceled"] ELSE status
  /\ Goto(w, "check")
  /\ UNCHANGED <<known, delivered, notified, linked, reward, outside, window,
                 alerts, claims, faults>>

(* confirm(): the kassa answers; the row is the copy read before.          *)
AskCanceled(w) == LET p == job[w] IN
  /\ pc[w] = "ask"
  /\ Reported(p) = "canceled"
  /\ status' = IF loc[w].seen = "pending"
               THEN [status EXCEPT ![p] = "failed"] ELSE status
  /\ IF loc[w].seen = "succeeded" THEN Alert(p, "canceled")
                                  ELSE UNCHANGED alerts
  /\ Goto(w, "check")
  /\ UNCHANGED <<known, delivered, notified, linked, reward, outside, window,
                 claims, faults>>

AskMismatch(w) == LET p == job[w] IN
  /\ pc[w] = "ask"
  /\ Reported(p) = "other_amount"
  /\ Alert(p, "mismatch")
  /\ Goto(w, "check")
  /\ UNCHANGED <<rows, outside, window, claims, faults>>

(* Mutant: a repeated notification of a paid payment delivers it again.    *)
AskOtherRedelivers(w) == LET p == job[w] IN
  /\ pc[w] = "ask"
  /\ \/ Reported(p) = "pending" /\ Goto(w, "check")
     \/ Reported(p) = "succeeded" /\ loc[w].seen # "pending" /\ Goto(w, "look")
     \/ Reported(p) = "succeeded" /\ loc[w].seen = "pending" /\ Goto(w, "claim")
  /\ UNCHANGED <<rows, outside, window, alerts, claims, faults>>

AskOther(w) == LET p == job[w] IN
  /\ pc[w] = "ask"
  /\ \/ Reported(p) = "pending" /\ Goto(w, "check")
     \/ Reported(p) = "succeeded" /\ loc[w].seen # "pending" /\ Goto(w, "check")
     \/ Reported(p) = "succeeded" /\ loc[w].seen = "pending" /\ Goto(w, "claim")
  /\ UNCHANGED <<rows, outside, window, alerts, claims, faults>>

(* Mutant: by assignment to the object read before.                        *)
ClaimByObject(w) == LET p == job[w] IN
  /\ pc[w] = "claim"
  /\ status' = [status EXCEPT ![p] = "succeeded"]
  /\ claims' = [claims EXCEPT ![p] = @ + 1]
  /\ Goto(w, "look")
  /\ UNCHANGED <<known, delivered, notified, linked, reward, outside, window,
                 alerts, faults>>

(* _zanyat_oplachennym: UPDATE ... WHERE status = pending.                 *)
Claim(w) == LET p == job[w] IN
  /\ pc[w] = "claim"
  /\ IF status[p] = "pending"
     THEN /\ status' = [status EXCEPT ![p] = "succeeded"]
          /\ claims' = [claims EXCEPT ![p] = @ + 1]
          /\ Goto(w, "look")
     ELSE UNCHANGED <<status, claims>> /\ Goto(w, "check")
  /\ UNCHANGED <<known, delivered, notified, linked, reward, outside, window,
                 alerts, faults>>

(* Mutant: paid is enough.                                                 *)
CheckPaidOnly(w) == LET p == job[w] IN
  /\ pc[w] = "check"
  /\ IF status[p] = "succeeded"
     THEN Goto(w, "look")
     ELSE Finish(w) /\ UNCHANGED queue
  /\ UNCHANGED <<rows, outside, window, alerts, claims, faults>>

(* needs_delivery(): paid, and the previous delivery did not succeed.      *)
Check(w) == LET p == job[w] IN
  /\ pc[w] = "check"
  /\ IF status[p] = "succeeded" /\ ~delivered[p]
     THEN Goto(w, "look")
     ELSE Finish(w) /\ UNCHANGED queue
  /\ UNCHANGED <<rows, outside, window, alerts, claims, faults>>
-----------------------------------------------------------------------------
(* deliver(): the account is read, its tag and its end with it.  It is     *)
(* looked for under the number the buyer's cabinet is linked to, and only  *)
(* without a link by the name made from the e-mail.                        *)
Found(b) == account[b] # "none" /\ linked[b] \in {0, uid[b]}

(* History: others of the buyer's payments are between reading the end of  *)
(* the subscription and writing it.                                        *)
Beside(w) == {v \in Workers : pc[v] = "extend" /\ BuyerOf[job[v]] = BuyerOf[job[w]]}
Joins(w) == together' = IF Beside(w) = {} THEN together
                        ELSE together \cup {job[v] : v \in Beside(w) \cup {w}}

(* Mutant: the subscription is extended from today.                        *)
LookFoundFromToday(w) == LET b == BuyerOf[job[w]] IN
  /\ pc[w] = "look"
  /\ PanelSet /\ Found(b)
  /\ loc' = [loc EXCEPT ![w].base = Today,
                        ![w].wasPaid = (account[b] = "PAID"),
                        ![w].uid = uid[b]]
  /\ pc' = [pc EXCEPT ![w] = "extend"]
  /\ Joins(w)
  /\ UNCHANGED <<rows, kassa, account, expiry, uid, start, applied, window, job,
                 holder, queue, alerts, claims, faults>>

LookFound(w) == LET b == BuyerOf[job[w]] IN
  /\ pc[w] = "look"
  /\ PanelSet /\ Found(b)
  /\ loc' = [loc EXCEPT ![w].base = Later(expiry[b], Today),
                        ![w].wasPaid = (account[b] = "PAID"),
                        ![w].uid = uid[b]]
  /\ pc' = [pc EXCEPT ![w] = "extend"]
  /\ Joins(w)
  /\ UNCHANGED <<rows, kassa, account, expiry, uid, start, applied, window, job,
                 holder, queue, alerts, claims, faults>>

LookNotFound(w) == LET p == job[w] IN
  /\ pc[w] = "look"
  /\ PanelSet /\ ~Found(BuyerOf[p])
  /\ IF SquadSet
     THEN Goto(w, "create") /\ UNCHANGED alerts
     ELSE Abort(w) /\ Alert(p, "outage")
  /\ UNCHANGED <<rows, outside, window, claims, faults>>

(* Mutant: the failure is only logged.                                     *)
PanelFailedSilent(w) ==
  /\ PanelSet /\ pc[w] \in {"look", "create", "extend"}
  /\ Finish(w)
  /\ UNCHANGED <<rows, outside, window, queue, alerts, claims, faults>>

(* RemnawaveUnavailableError anywhere in deliver(): the panel did not do   *)
(* what it was asked, or says so because the account exists by now.  The   *)
(* webhook answers 200 all the same.                                       *)
PanelFailed(w) ==
  /\ PanelSet /\ pc[w] \in {"look", "create", "extend"}
  /\ Alert(job[w], "outage")
  /\ Finish(w)
  /\ UNCHANGED <<rows, outside, window, queue, claims, faults>>

(* The panel does it, and the answer may be lost: then it is the same      *)
(* RemnawaveUnavailableError.                                              *)
Answered(w, id) ==
  \/ /\ pc' = [pc EXCEPT ![w] = "mark"]
     /\ loc' = [loc EXCEPT ![w].uid = id]
     /\ UNCHANGED <<job, holder, queue, alerts, faults>>
  \/ Fault("lost") /\ Alert(job[w], "outage") /\ Finish(w) /\ UNCHANGED queue

CreateUser(w) == LET p == job[w] b == BuyerOf[p] IN
  /\ pc[w] = "create"
  /\ account[b] = "none"
  /\ account' = [account EXCEPT ![b] = "PAID"]
  /\ expiry' = [expiry EXCEPT ![b] = Today + Days]
  /\ applied' = [applied EXCEPT ![p] = @ + 1]
  /\ Answered(w, uid[b])
  /\ UNCHANGED <<rows, kassa, uid, start, together, window, claims>>

SetExpiry(w) == LET p == job[w] b == BuyerOf[p] IN
  /\ pc[w] = "extend"
  /\ account[b] # "none" /\ uid[b] = loc[w].uid
  /\ account' = [account EXCEPT ![b] = "PAID"]
  /\ expiry' = [expiry EXCEPT ![b] = loc[w].base + Days]
  /\ applied' = [applied EXCEPT ![p] = @ + 1]
  /\ Answered(w, loc[w].uid)
  /\ UNCHANGED <<rows, kassa, uid, start, together, window, claims>>

(* What nothing in deliver() catches: RemnawaveNotConfiguredError when it  *)
(* makes its client of the panel, and the LookupError of set_expiry when   *)
(* the panel answers 404.  The webhook answers 500, a sweep goes on, and   *)
(* the owner hears nothing.                                                *)
Uncaught(w) == LET b == BuyerOf[job[w]] IN
  /\ pc[w] = IF PanelSet THEN "extend" ELSE "look"
  /\ PanelSet => account[b] = "none" \/ uid[b] # loc[w].uid
  /\ Finish(w)
  /\ UNCHANGED <<rows, outside, window, queue, alerts, claims, faults>>

MarkDelivered(w) ==
  /\ pc[w] = "mark"
  /\ delivered' = [delivered EXCEPT ![job[w]] = TRUE]
  /\ Goto(w, "cabinet")
  /\ UNCHANGED <<status, known, notified, linked, reward, outside, window,
                 alerts, claims, faults>>

(* _kabinet_bezopasno                                                      *)
OpenCabinet(w) ==
  /\ pc[w] = "cabinet"
  /\ linked' = [linked EXCEPT ![BuyerOf[job[w]]] =
                  IF @ = 0 THEN loc[w].uid ELSE @]
  /\ Goto(w, "letter")
  /\ UNCHANGED <<status, known, delivered, notified, reward, outside, window,
                 alerts, claims, faults>>

(* Mutant: a letter that does not go out ends the work.                    *)
NotifyOrStop(w) == LET p == job[w] IN
  /\ pc[w] = "letter"
  /\ \/ /\ notified' = [notified EXCEPT ![p] = TRUE]
        /\ Alert(p, "purchase")
        /\ Goto(w, "register")
     \/ Finish(w) /\ UNCHANGED <<notified, alerts, queue>>
  /\ UNCHANGED <<status, known, delivered, linked, reward, outside, window,
                 claims, faults>>

(* _notify, whose letter may not go out, then _soobshchit_o_pokupke, which *)
(* tells the owner if alert_events has "payment" in it, as it does here.   *)
Notify(w) == LET p == job[w] IN
  /\ pc[w] = "letter"
  /\ notified' \in {notified, [notified EXCEPT ![p] = TRUE]}
  /\ Alert(p, "purchase")
  /\ Goto(w, "register")
  /\ UNCHANGED <<status, known, delivered, linked, reward, outside, window,
                 claims, faults>>

(* Mutant: the tag is read after the extension.                            *)
RegisterByTag(w) == LET p == job[w] IN
  /\ pc[w] = "register"
  /\ reward' = [reward EXCEPT ![p] =
                  IF account[BuyerOf[p]] = "PAID" THEN "renewal" ELSE "first"]
  /\ Finish(w)
  /\ UNCHANGED <<status, known, delivered, notified, linked, outside, window,
                 queue, alerts, claims, faults>>

(* _nachislit_za_priglashenie                                              *)
Register(w) ==
  /\ pc[w] = "register"
  /\ reward' = [reward EXCEPT ![job[w]] =
                  IF loc[w].wasPaid THEN "renewal" ELSE "first"]
  /\ Finish(w)
  /\ UNCHANGED <<status, known, delivered, notified, linked, outside, window,
                 queue, alerts, claims, faults>>
-----------------------------------------------------------------------------
(* _kabinet_bezopasno swallows the exception, but its rollback expires the *)
(* payment, and the next thing _notify does is read an attribute of it:    *)
(* that raises outside the session's greenlet and leaves deliver().        *)
CabinetFailed(w) ==
  /\ pc[w] = "cabinet"
  /\ Fault("cabinet")
  /\ Finish(w)
  /\ UNCHANGED <<rows, outside, window, queue, alerts, claims>>

(* Mutant: and the lock is not released on the way.                        *)
DbFailedKeepsLock(w) ==
  /\ pc[w] \in {"ask", "claim", "check", "look", "mark", "letter", "register"}
  /\ Fault("db")
  /\ pc' = [pc EXCEPT ![w] = "idle"]
  /\ job' = [job EXCEPT ![w] = NoPayment]
  /\ loc' = [loc EXCEPT ![w] = Blank]
  /\ UNCHANGED <<rows, outside, window, holder, queue, alerts, claims>>

(* A transaction fails: the exception leaves the handler, or, in the       *)
(* referral program, is swallowed at its end.                              *)
DbFailed(w) ==
  /\ pc[w] \in {"ask", "claim", "check", "look", "mark", "letter", "register"}
  /\ Fault("db")
  /\ Finish(w)
  /\ UNCHANGED <<rows, outside, window, queue, alerts, claims>>

Crash(r) == LET dead == {w \in Workers : ReplicaOf[w] = r} IN
  /\ Fault("crash")
  /\ pc' = [w \in Workers |-> IF w \in dead THEN "idle" ELSE pc[w]]
  /\ job' = [w \in Workers |-> IF w \in dead THEN NoPayment ELSE job[w]]
  /\ loc' = [w \in Workers |-> IF w \in dead THEN Blank ELSE loc[w]]
  /\ holder' = [k \in Replicas \X Payments |->
                  IF k[1] = r THEN Nobody ELSE holder[k]]
  /\ queue' = IF Sweeper \in dead THEN {} ELSE queue
  /\ UNCHANGED <<rows, outside, window, alerts, claims>>

RemoveAccount(b) ==
  /\ account[b] # "none"
  /\ Fault("removed")
  /\ account' = [account EXCEPT ![b] = "none"]
  /\ expiry' = [expiry EXCEPT ![b] = 0]
  /\ uid' = [uid EXCEPT ![b] = @ + 1]
  /\ UNCHANGED <<rows, local, window, kassa, start, alerts, claims, applied, together>>
-----------------------------------------------------------------------------
Deliver(w) == \/ LookFound(w) \/ LookNotFound(w)
              \/ CreateUser(w) \/ SetExpiry(w)
              \/ PanelFailed(w) \/ Uncaught(w)
              \/ MarkDelivered(w) \/ OpenCabinet(w) \/ Notify(w) \/ Register(w)

Confirm(w) == \/ AskFailed(w) \/ AskCanceled(w) \/ AskMismatch(w)
              \/ AskOther(w) \/ Claim(w)

Step(w) == \/ Confirm(w) \/ Check(w) \/ Deliver(w)
           \/ CabinetFailed(w) \/ DbFailed(w)

Next == \/ \E p \in Payments : \/ Start(p) \/ StartRefused(p) \/ Pay(p)
                               \/ Reverse(p) \/ Age(p) \/ Visit(p)
                               \/ \E w \in Workers : Webhook(w, p)
        \/ \E age \in {"fresh", "stale"} : BeginSweep(age)
        \/ \E w \in Workers : Step(w)
        \/ \E r \in Replicas : Crash(r)
        \/ \E b \in Buyers : RemoveAccount(b)

Spec == Init /\ [][Next]_vars

(* What lets a payment move when no notification of it arrives: the sweep  *)
(* comes round again and again and the asyncio lock is fair; a coroutine   *)
(* ends, every call having a timeout; and, of the outside world, that an   *)
(* unpaid payment expires at the kassa, and that the kassa and the panel   *)
(* do not fail the sweep for ever.  Nothing makes a buyer pay, a webhook   *)
(* arrive or time pass.                                                    *)
KassaAnswers(p) == /\ job[Sweeper] = p
                   /\ \/ AskCanceled(Sweeper) \/ AskMismatch(Sweeper)
                      \/ AskOther(Sweeper)
PanelFinds(p) == /\ job[Sweeper] = p
                 /\ LookFound(Sweeper) \/ LookNotFound(Sweeper)
PanelExtends(p) == /\ job[Sweeper] = p
                   /\ CreateUser(Sweeper) \/ SetExpiry(Sweeper)

Fairness ==
  /\ \A age \in {"fresh", "stale"} : SF_vars(BeginSweep(age))
  /\ \A w \in Workers : WF_vars(Step(w))
  /\ \A p \in Payments : /\ WF_vars(Pay(p))
                         /\ SF_vars(Visit(p))
                         /\ SF_vars(KassaAnswers(p))
                         /\ SF_vars(PanelFinds(p))
                         /\ SF_vars(PanelExtends(p))

FairSpec == Spec /\ Fairness
-----------------------------------------------------------------------------
TypeOK ==
  /\ status \in [Payments -> Statuses]
  /\ known \in [Payments -> BOOLEAN]
  /\ delivered \in [Payments -> BOOLEAN]
  /\ notified \in [Payments -> BOOLEAN]
  /\ window \in [Payments -> {"fresh", "stale", "gone"}]
  /\ kassa \in [Payments -> {"none", "pending", "succeeded", "other_amount",
                             "canceled", "reversed"}]
  /\ account \in [Buyers -> {"none", "TRIAL", "PAID"}]
  /\ expiry \in [Buyers -> Nat]
  /\ uid \in [Buyers -> Nat]
  /\ start \in [Buyers -> [tag : {"none", "TRIAL", "PAID"}, expiry : Nat]]
  /\ linked \in [Buyers -> Nat]
  /\ reward \in [Payments -> {"none", "first", "renewal"}]
  /\ pc \in [Workers -> Stages]
  /\ job \in [Workers -> Payments \cup {NoPayment}]
  /\ loc \in [Workers -> [seen : Statuses, base : Nat, wasPaid : BOOLEAN,
                          uid : Nat]]
  /\ holder \in [Replicas \X Payments -> Workers \cup {Nobody}]
  /\ queue \subseteq Payments
  /\ alerts \in [Payments -> SUBSET Alerts]
  /\ claims \in [Payments -> Nat]
  /\ applied \in [Payments -> Nat]
  /\ together \subseteq Payments
  /\ faults \in 0..MaxFaults

Idle(p) == \A w \in Workers : job[w] # p

(* A payment is succeeded only if the kassa took exactly our price for it: *)
(* not on a notification's word, and not for another amount.               *)
PaidForReal == \A p \in Payments :
  status[p] = "succeeded" => kassa[p] \in {"succeeded", "reversed"}

(* Only the kassa's word makes a payment known to it failed: no payment    *)
(* whose money is at the kassa is written off.                             *)
NoMoneyWrittenOff == \A p \in Payments :
  status[p] = "failed" /\ known[p] => kassa[p] \in {"canceled", "reversed"}

(* _zanyat_oplachennym answers True to one call for each payment, even     *)
(* when the lock does not keep the calls apart.                            *)
ClaimedOnce == \A p \in Payments : claims[p] <= 1

(* A payment extends the subscription in the panel at most once.           *)
ExtendedOnce == \A p \in Payments : applied[p] <= 1

(* What was left of the subscription.                                      *)
Left(b) == Later(start[b].expiry, Today)

PaidBy(b) == {p \in Payments : BuyerOf[p] = b /\ status[p] = "succeeded"}

(* Overlapping extensions of one account may lose days, they never add     *)
(* days nobody paid for.                                                   *)
NoUnpaidDays == \A b \in Buyers :
  expiry[b] <= Left(b) + Days * Cardinality(PaidBy(b))

(* The days of every delivered payment of a buyer are on top of what was   *)
(* left.  Of those whose extensions overlapped, the days of one at least.  *)
DaysDue(mine) == Days * (Cardinality(mine \ together)
                         + IF mine \cap together = {} THEN 0 ELSE 1)
DeliveredTo(b) == {p \in Payments : BuyerOf[p] = b /\ delivered[p]}
PaidDaysArrive == \A b \in Buyers :
  DeliveredTo(b) # {} => expiry[b] >= Left(b) + DaysDue(DeliveredTo(b))

(* And of those that overlapped, too: deliver() extends from the end of    *)
(* the subscription so that a purchase does not eat paid days.  It fails:  *)
(* the end is read, and written, without anything between two deliveries.  *)
EveryDayArrives == \A b \in Buyers :
  DeliveredTo(b) # {} => expiry[b] >= Left(b) + Days * Cardinality(DeliveredTo(b))

(* Money accepted, no subscription, nobody working on it: the owner has    *)
(* been told.                                                              *)
OwnerTold == \A p \in Payments :
  status[p] = "succeeded" /\ ~delivered[p] /\ Idle(p) => "outage" \in alerts[p]

(* The first purchase of a buyer who had not paid before is offered to the *)
(* referral program as such, and nobody who had paid is.                   *)
FirstPurchaseOffered == \A b \in Buyers :
  LET mine == {p \in Payments : BuyerOf[p] = b} IN
  IF start[b].tag = "PAID"
  THEN \A p \in mine : reward[p] # "first"
  ELSE (\E p \in mine : delivered[p]) /\ (\A p \in mine : Idle(p)) =>
         \E p \in mine : reward[p] = "first"

(* Once the work on a payment is over, its delivery has been announced:    *)
(* the letter to the buyer has been tried and the owner told of the sale.  *)
DeliveryAnnounced == \A p \in Payments :
  delivered[p] /\ Idle(p) => "purchase" \in alerts[p]

(* A delivered payment stays succeeded and delivered; a failed one is      *)
(* never taken up again.                                                   *)
FinalStaysFinal == [][\A p \in Payments :
  /\ delivered[p] => delivered'[p] /\ status'[p] = "succeeded"
  /\ status[p] = "failed" => status'[p] = "failed"]_vars

(* A payment whose money is at the kassa is delivered while some sweep     *)
(* still looks at it, unless it is reversed first, or the cabinet is       *)
(* linked to an account removed in the panel and another bears the name.   *)
PaidIsDelivered == \A p \in Payments :
  kassa[p] = "succeeded" ~>
    \/ delivered[p]
    \/ kassa[p] = "reversed"
    \/ window[p] = "gone"
    \/ linked[BuyerOf[p]] \notin {0, uid[BuyerOf[p]]} /\ account[BuyerOf[p]] # "none"
-----------------------------------------------------------------------------
(* How far a payment has come, read off its row and the panel.             *)
Stage(p) ==
  CASE status[p] = "absent" -> "new"
    [] status[p] = "failed" -> "failed"
    [] status[p] = "pending" -> "pending"
    [] status[p] = "succeeded" /\ applied[p] = 0 -> "paid"
    [] status[p] = "succeeded" /\ applied[p] = 1 /\ ~delivered[p] -> "extended"
    [] status[p] = "succeeded" /\ applied[p] = 1 /\ delivered[p] -> "delivered"
    [] OTHER -> "extended again"

Lifecycle == INSTANCE PaymentLifecycle WITH stage <- [p \in Payments |-> Stage(p)]

(* While no answer is lost and no step of a delivery fails halfway, every  *)
(* payment goes through its life once, whoever carries it and however the  *)
(* workers interleave.                                                     *)
ImplementsLifecycle == Lifecycle!Spec
-----------------------------------------------------------------------------
(* Inductive invariants, from the weakest assumptions to the strongest.    *)
(* Whatever fails, and in however many processes: a busy worker holds the  *)
(* lock its process has for a payment the kassa knows; a payment is        *)
(* claimed when it leaves "pending", on the kassa's word.                  *)
Busy == \A w \in Workers :
  IF pc[w] = "idle" THEN job[w] = NoPayment
  ELSE job[w] \in Payments /\ known[job[w]] /\ holder[Lock(w, job[w])] = w

Registered == /\ \A p \in Payments : known[p] => status[p] # "absent"
              /\ \A p \in queue : known[p]

ClaimLeavesPending == \A p \in Payments :
  /\ claims[p] <= 1
  /\ status[p] \in {"absent", "pending"} => claims[p] = 0

ClaimAfterPayment == \A w \in Workers :
  pc[w] = "claim" => kassa[job[w]] \in {"succeeded", "reversed"}

RowInv == /\ TypeOK /\ Busy /\ Registered /\ ClaimLeavesPending
          /\ ClaimAfterPayment /\ PaidForReal /\ NoMoneyWrittenOff

(* In one process the lock keeps the row still under the worker that read  *)
(* it, and only a claimed payment is delivered.                            *)
OneApi == \A v, w \in Workers : ReplicaOf[v] = ReplicaOf[w]

SeenIsCurrent == \A w \in Workers :
  /\ pc[w] = "ask" => loc[w].seen = status[job[w]]
  /\ pc[w] = "claim" => status[job[w]] = "pending"

OnlyClaimedDelivered ==
  /\ \A w \in Workers : pc[w] \in {"look", "create", "extend", "mark"} =>
       status[job[w]] = "succeeded"
  /\ \A p \in Payments : delivered[p] => status[p] = "succeeded"

LockInv == RowInv /\ SeenIsCurrent /\ OnlyClaimedDelivered

(* If, besides, a delivery is not cut in half, the panel has extended the  *)
(* subscription exactly when the payment is delivered or about to be.      *)
Whole == Faults \cap {"lost", "crash", "db"} = {}

ExtendedWhenMarked ==
  /\ \A w \in Workers :
       /\ pc[w] \in {"look", "create", "extend"} =>
            ~delivered[job[w]] /\ applied[job[w]] = 0
       /\ pc[w] = "mark" => ~delivered[job[w]] /\ applied[job[w]] = 1
  /\ \A p \in Payments :
       /\ status[p] # "succeeded" => applied[p] = 0
       /\ applied[p] \in {0, 1}
       /\ delivered[p] => applied[p] = 1
       /\ applied[p] = 1 /\ ~delivered[p] =>
            \E w \in Workers : pc[w] = "mark" /\ job[w] = p

OnceInv == LockInv /\ ExtendedWhenMarked
-----------------------------------------------------------------------------
(* What the workers have still to do about a payment, and what its buyer's *)
(* account owes to the payments made: inductive beside the above.          *)
OnTheWay(p, stages) == \E w \in Workers : job[w] = p /\ pc[w] \in stages

AnnouncementToCome == \A p \in Payments :
  delivered[p] /\ "purchase" \notin alerts[p] => OnTheWay(p, {"cabinet", "letter"})

DeliveryToCome == \A p \in Payments :
  status[p] = "succeeded" /\ ~delivered[p] /\ "outage" \notin alerts[p] =>
    OnTheWay(p, {"look", "create", "extend", "mark"})

(* The account a delivery is about to extend is the one it has found.      *)
AccountStands == \A w \in Workers :
  pc[w] = "extend" => /\ account[BuyerOf[job[w]]] # "none"
                      /\ uid[BuyerOf[job[w]]] = loc[w].uid

(* A delivery has its payment extended before the mark.  What is due for   *)
(* the payments extended is in the panel; a delivery has read it, all but  *)
(* what overlaps, and the end as it is now if nothing does.                *)
Extended(b) == {p \in Payments : BuyerOf[p] = b /\ applied[p] > 0}
Apart(b) == Extended(b) \ together

ExtendedFirst ==
  /\ \A p \in Payments : delivered[p] => applied[p] > 0
  /\ \A w \in Workers : pc[w] = "mark" => applied[job[w]] > 0

AccountOnce == \A b \in Buyers :
  account[b] = "none" =>
    /\ start[b].expiry = 0 /\ Extended(b) = {}
    /\ \A w \in Workers : pc[w] = "extend" => BuyerOf[job[w]] # b

DaysOnTop ==
  /\ \A b \in Buyers : IsFiniteSet(Extended(b)) /\ expiry[b] >= start[b].expiry
  /\ \A b \in Buyers : Extended(b) # {} => expiry[b] >= Left(b) + DaysDue(Extended(b))
  /\ \A w \in Workers : pc[w] = "extend" => LET b == BuyerOf[job[w]] IN
       /\ loc[w].base >= Left(b) + Days * Cardinality(Apart(b))
       /\ job[w] \notin together =>
            /\ loc[w].base >= expiry[b]
            /\ \A v \in Workers : v # w /\ pc[v] = "extend" => BuyerOf[job[v]] # b

DaysInv == ExtendedFirst /\ AccountOnce /\ DaysOnTop

(* Each day in the panel, or read there by a delivery, is one that was     *)
(* left or one a payment has brought.                                      *)
ExtendedBy(b) == {p \in Payments : BuyerOf[p] = b /\ applied[p] = 1}
PaidUntil == [b \in Buyers |-> Left(b) + Days * Cardinality(ExtendedBy(b))]

DaysPaidFor ==
  /\ \A b \in Buyers : IsFiniteSet(PaidBy(b)) /\ expiry[b] <= PaidUntil[b]
  /\ \A w \in Workers :
       pc[w] = "extend" => loc[w].base <= PaidUntil[BuyerOf[job[w]]]

(* The account of a buyer who had not paid becomes a paid one in the hands *)
(* of a delivery that knows it, and that has its reward before it.         *)
FirstInHand(w) ==
  pc[w] \in {"mark", "cabinet", "letter", "register"} /\ ~loc[w].wasPaid

FirstToCome ==
  /\ \A b \in Buyers :
       /\ start[b].tag = "PAID" => account[b] = "PAID"
       /\ start[b].tag # "PAID" /\ account[b] = "PAID" =>
            \/ \E p \in Payments : BuyerOf[p] = b /\ reward[p] = "first"
            \/ \E w \in Workers : FirstInHand(w) /\ BuyerOf[job[w]] = b
  /\ \A w \in Workers : LET b == BuyerOf[job[w]] IN
       /\ pc[w] \in {"extend", "mark", "cabinet", "letter", "register"} =>
            /\ loc[w].wasPaid => account[b] = "PAID"
            /\ start[b].tag = "PAID" => loc[w].wasPaid
       /\ pc[w] \in {"idle", "ask", "claim", "check", "look", "create"} =>
            ~loc[w].wasPaid
       /\ pc[w] = "mark" => account[b] = "PAID"
       /\ pc[w] \in {"cabinet", "letter", "register"} =>
            delivered[job[w]] /\ reward[job[w]] = "none"
  /\ \A p \in Payments :
       /\ delivered[p] => account[BuyerOf[p]] = "PAID"
       /\ reward[p] # "none" => delivered[p]
       /\ reward[p] = "first" => start[BuyerOf[p]].tag # "PAID"
=============================================================================
