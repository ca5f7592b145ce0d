--------------------------- MODULE CheckoutProofs ---------------------------
(***************************************************************************)
(* Proofs about the checkout, for any number of payments, buyers, workers  *)
(* and processes of the api.                                               *)
(***************************************************************************)
EXTENDS Checkout, FiniteSetTheorems, TLAPS

USE PaymentsAssumption, BuyersAssumption, WorkersAssumption,
    LimitsAssumption, PanelAssumption

-----------------------------------------------------------------------------
(* Whom a step of worker w leaves alone.                                  *)
OthersStay(w) == \A v \in Workers : v # w =>
  pc'[v] = pc[v] /\ job'[v] = job[v] /\ loc'[v] = loc[v]

(* The two ways a worker moves: it leaves its payment, or goes on to the   *)
(* next await.                                                             *)
LEMMA FinishEffect ==
  ASSUME TypeOK, NEW w \in Workers, Finish(w)
  PROVE  /\ pc' \in [Workers -> Stages]
         /\ job' \in [Workers -> Payments \cup {NoPayment}]
         /\ loc' \in [Workers -> [seen : Statuses, base : Nat,
                                  wasPaid : BOOLEAN, uid : Nat]]
         /\ holder' \in [Replicas \X Payments -> Workers \cup {Nobody}]
         /\ pc'[w] = "idle" /\ job'[w] = NoPayment
         /\ \A v \in Workers : v # w =>
              pc'[v] = pc[v] /\ job'[v] = job[v] /\ loc'[v] = loc[v]
<1>. DEFINE copies == [seen : Statuses, base : Nat, wasPaid : BOOLEAN, uid : Nat]
<1>1. pc' \in [Workers -> Stages]
  BY DEF TypeOK, Finish, Stages
<1>2. job' \in [Workers -> Payments \cup {NoPayment}]
  BY DEF TypeOK, Finish
<1>3. loc' \in [Workers -> copies]
  <2>1. Blank \in copies
    BY DEF Blank, Statuses
  <2>2. loc \in [Workers -> copies] /\ loc' = [loc EXCEPT ![w] = Blank]
    BY DEF TypeOK, Finish
  <2>. HIDE DEF copies
  <2>. QED BY <2>1, <2>2
<1>4. holder' \in [Replicas \X Payments -> Workers \cup {Nobody}]
  BY DEF TypeOK, Finish
<1>5. pc'[w] = "idle" /\ job'[w] = NoPayment
  BY DEF TypeOK, Finish
<1>6. \A v \in Workers : v # w =>
        pc'[v] = pc[v] /\ job'[v] = job[v] /\ loc'[v] = loc[v]
  BY DEF TypeOK, Finish
<1>. QED BY <1>1, <1>2, <1>3, <1>4, <1>5, <1>6

LEMMA GotoEffect ==
  ASSUME TypeOK, NEW w \in Workers, NEW stage \in Stages, Goto(w, stage)
  PROVE  /\ pc' \in [Workers -> Stages]
         /\ pc'[w] = stage
         /\ \A v \in Workers : v # w => pc'[v] = pc[v]
         /\ UNCHANGED <<job, loc, holder, queue>>
BY DEF TypeOK, Goto

LEMMA FinishBusy ==
  ASSUME TypeOK, Busy, NEW w \in Workers, pc[w] # "idle", Finish(w),
         UNCHANGED known
  PROVE  Busy'
<1>. SUFFICES ASSUME NEW v \in Workers, v # w, pc[v] # "idle"
              PROVE  holder'[Lock(v, job[v])] = v
  BY FinishEffect DEF Busy
<1>1. /\ job[v] \in Payments /\ holder[Lock(v, job[v])] = v
      /\ job[w] \in Payments /\ holder[Lock(w, job[w])] = w
  BY DEF Busy
<1>2. Lock(v, job[v]) # Lock(w, job[w])
  BY <1>1
<1>3. Lock(v, job[v]) \in Replicas \X Payments
  BY <1>1 DEF Lock
<1>. QED BY <1>1, <1>2, <1>3 DEF Finish, TypeOK

LEMMA GotoBusy ==
  ASSUME TypeOK, Busy, NEW w \in Workers, pc[w] # "idle",
         NEW stage \in Stages \ {"idle"}, Goto(w, stage), UNCHANGED known
  PROVE  Busy'
BY GotoEffect DEF Busy

(* A step that leaves rows and kassa alone keeps what RowInv says of them. *)
LEMMA RowsKept ==
  ASSUME RowInv, TypeOK', Busy', UNCHANGED <<status, known, claims, kassa>>,
         \A p \in queue' : known[p],
         \A w \in Workers : pc'[w] = "claim" =>
           /\ job'[w] = job[w]
           /\ pc[w] = "claim" \/ kassa[job[w]] \in {"succeeded", "reversed"}
  PROVE  RowInv'
BY DEF RowInv, Registered, ClaimLeavesPending, ClaimAfterPayment, PaidForReal,
       NoMoneyWrittenOff

LEMMA InitRowInv == Init => RowInv
<1>. SUFFICES ASSUME Init PROVE RowInv
  OBVIOUS
<1>1. /\ account \in [Buyers -> {"none", "TRIAL", "PAID"}]
      /\ expiry \in [Buyers -> Nat] /\ linked \in [Buyers -> Nat]
  <2>1. /\ account \in [Buyers -> {"none", "TRIAL", "PAID"}]
        /\ expiry \in [Buyers -> {0, Today + 1}]
        /\ linked \in [Buyers -> {0, 1}]
    BY DEF Init
  <2>2. expiry \in [Buyers -> Nat]
    BY <2>1 DEF Today
  <2>3. linked \in [Buyers -> Nat]
    BY <2>1
  <2>. QED BY <2>1, <2>2, <2>3
<1>2. start \in [Buyers -> [tag : {"none", "TRIAL", "PAID"}, expiry : Nat]]
  BY <1>1 DEF Init
<1>3. loc \in [Workers -> [seen : Statuses, base : Nat, wasPaid : BOOLEAN,
                           uid : Nat]]
  BY DEF Init, Blank, Statuses
<1>4. TypeOK
  BY <1>1, <1>2, <1>3 DEF Init, TypeOK, Statuses, Stages
<1>. QED BY <1>4 DEF Init, RowInv, Busy, Registered, ClaimLeavesPending,
            ClaimAfterPayment, PaidForReal, NoMoneyWrittenOff
-----------------------------------------------------------------------------
(* The buyer, the kassa and time.                                          *)
LEMMA StartRowInv ==
  ASSUME RowInv, NEW p \in Payments, Start(p) \/ StartRefused(p)
  PROVE  RowInv'
<1>. USE DEF RowInv
<1>1. TypeOK'
  <2>1. CASE Start(p)
    BY <2>1 DEF Start, TypeOK, Statuses, local
  <2>2. CASE StartRefused(p)
    <3>1. kassa' \in [Payments -> {"none", "pending", "succeeded",
                                  "other_amount", "canceled", "reversed"}]
      BY <2>2 DEF StartRefused, TypeOK
    <3>2. status' \in [Payments -> Statuses]
      BY <2>2 DEF StartRefused, TypeOK, Statuses
    <3>3. UNCHANGED <<known, delivered, notified, window, account, expiry, uid,
                      start, linked, reward, local, alerts, claims, applied,
                      together, faults>>
      BY <2>2 DEF StartRefused
    <3>. QED BY <3>1, <3>2, <3>3 DEF TypeOK, local
  <2>. QED BY <2>1, <2>2
<1>2. status[p] = "absent" /\ ~known[p] /\ \A w \in Workers : job[w] # p
  <2>1. status[p] = "absent"
    BY DEF Start, StartRefused, Absent
  <2>. QED BY <2>1 DEF Registered, Busy
<1>3. /\ \A q \in Payments : q # p => /\ status'[q] = status[q]
                                     /\ known'[q] = known[q]
                                     /\ kassa'[q] = kassa[q]
      /\ status'[p] \in {"pending", "failed"}
      /\ status'[p] = "failed" => ~known'[p]
      /\ UNCHANGED <<claims, pc, job, holder, queue>>
  <2>1. CASE Start(p)
    BY <2>1 DEF Start, TypeOK, local
  <2>2. CASE StartRefused(p)
    BY <2>2, <1>2 DEF StartRefused, TypeOK, local
  <2>. QED BY <2>1, <2>2
<1>4. Busy'
  BY <1>2, <1>3 DEF Busy
<1>5. Registered'
  <2>1. \A q \in Payments : known'[q] => status'[q] # "absent"
    BY <1>2, <1>3 DEF Registered
  <2>2. queue \subseteq Payments
    BY DEF TypeOK
  <2>3. \A q \in queue' : known'[q]
    BY <1>2, <1>3, <2>2 DEF Registered
  <2>. QED BY <2>1, <2>3 DEF Registered
<1>8. ClaimLeavesPending'
  BY <1>2, <1>3 DEF ClaimLeavesPending
<1>6. ClaimAfterPayment'
  BY <1>2, <1>3 DEF ClaimAfterPayment, Busy
<1>7. PaidForReal' /\ NoMoneyWrittenOff'
  BY <1>3 DEF PaidForReal, NoMoneyWrittenOff
<1>. QED BY <1>1, <1>4, <1>5, <1>6, <1>7, <1>8

LEMMA KassaRowInv ==
  ASSUME RowInv, NEW p \in Payments, Pay(p) \/ Reverse(p)
  PROVE  RowInv'
<1>. USE DEF RowInv
<1>1. TypeOK' /\ Busy'
  <2>1. kassa' \in [Payments -> {"none", "pending", "succeeded",
                                "other_amount", "canceled", "reversed"}]
    <3>1. kassa \in [Payments -> {"none", "pending", "succeeded",
                                "other_amount", "canceled", "reversed"}]
      BY DEF TypeOK
    <3>. QED BY <3>1 DEF Pay, Reverse
  <2>2. UNCHANGED <<rows, local, window, account, expiry, uid, start, alerts,
                    claims, applied, together, faults>>
    BY DEF Pay, Reverse
  <2>. QED BY <2>1, <2>2 DEF TypeOK, Busy, rows, local
<1>2. Registered' /\ ClaimLeavesPending'
  BY DEF Pay, Reverse, Registered, ClaimLeavesPending, rows, local
<1>3. /\ \A q \in Payments : q # p => kassa'[q] = kassa[q]
      /\ kassa[p] \in {"succeeded", "reversed"} => kassa'[p] = "reversed"
      /\ kassa[p] \notin {"canceled", "reversed"}
      /\ UNCHANGED <<status, known, pc, job>>
  BY DEF Pay, Reverse, TypeOK, rows, local
<1>4. ClaimAfterPayment'
  BY <1>3 DEF ClaimAfterPayment, Busy
<1>5. PaidForReal' /\ NoMoneyWrittenOff'
  BY <1>3 DEF PaidForReal, NoMoneyWrittenOff
<1>. QED BY <1>1, <1>2, <1>4, <1>5

LEMMA AgeRowInv ==
  ASSUME RowInv, NEW p \in Payments, Age(p)
  PROVE  RowInv'
<1>1. TypeOK' /\ Busy'
  BY DEF RowInv, Age, TypeOK, Busy, rows, outside, local
<1>. QED BY <1>1, RowsKept DEF RowInv, Age, Registered, rows, outside, local

LEMMA RemoveRowInv ==
  ASSUME RowInv, NEW b \in Buyers, RemoveAccount(b)
  PROVE  RowInv'
<1>1. TypeOK' /\ Busy'
  BY FaultsAssumption
     DEF RowInv, RemoveAccount, Fault, TypeOK, Busy, rows, local
<1>. QED BY <1>1, RowsKept DEF RowInv, RemoveAccount, Registered, rows, local

LEMMA CrashRowInv ==
  ASSUME RowInv, NEW r \in Replicas, Crash(r)
  PROVE  RowInv'
<1>. USE DEF RowInv
<1>1. TypeOK'
  <2>1. /\ pc' \in [Workers -> Stages]
        /\ job' \in [Workers -> Payments \cup {NoPayment}]
        /\ holder' \in [Replicas \X Payments -> Workers \cup {Nobody}]
    BY DEF Crash, TypeOK, Stages
  <2>2. Blank \in [seen : Statuses, base : Nat, wasPaid : BOOLEAN, uid : Nat]
    BY DEF Blank, Statuses
  <2>3. loc' \in [Workers -> [seen : Statuses, base : Nat, wasPaid : BOOLEAN,
                             uid : Nat]]
    <3>1. \A w \in Workers : loc[w] \in [seen : Statuses, base : Nat,
                                       wasPaid : BOOLEAN, uid : Nat]
      BY DEF TypeOK
    <3>. QED BY <2>2, <3>1 DEF Crash
  <2>4. queue' \subseteq Payments
    BY DEF Crash, TypeOK
  <2>5. faults' \in 0..MaxFaults
    <3>1. faults \in 0..MaxFaults /\ faults < MaxFaults /\ faults' = faults + 1
      BY DEF Crash, Fault, TypeOK
    <3>. QED BY <3>1
  <2>. QED BY <2>1, <2>3, <2>4, <2>5 DEF Crash, TypeOK, rows, outside
<1>2. Busy'
  <2>. SUFFICES ASSUME NEW w \in Workers
                PROVE  IF pc'[w] = "idle" THEN job'[w] = NoPayment
                       ELSE /\ job'[w] \in Payments /\ known[job'[w]]
                            /\ holder'[Lock(w, job'[w])] = w
    BY DEF Crash, Busy, rows
  <2>1. CASE ReplicaOf[w] = r
    BY <2>1 DEF Crash
  <2>2. CASE ReplicaOf[w] # r
    <3>1. pc'[w] = pc[w] /\ job'[w] = job[w]
      BY <2>2 DEF Crash
    <3>2. ASSUME job[w] \in Payments
          PROVE  holder'[Lock(w, job[w])] = holder[Lock(w, job[w])]
      BY <2>2, <3>2 DEF Crash, Lock
    <3>. QED BY <3>1, <3>2 DEF Busy
  <2>. QED BY <2>1, <2>2
<1>. QED BY <1>1, <1>2, RowsKept DEF Crash, Registered, rows, outside
-----------------------------------------------------------------------------
(* Taking the lock.                                                        *)
LEMMA TakeEffect ==
  ASSUME TypeOK, Busy, NEW w \in Workers, NEW p \in Payments, known[p],
         Take(w, p), UNCHANGED known
  PROVE  /\ Busy'
         /\ pc' \in [Workers -> Stages]
         /\ job' \in [Workers -> Payments \cup {NoPayment}]
         /\ loc' \in [Workers -> [seen : Statuses, base : Nat,
                                  wasPaid : BOOLEAN, uid : Nat]]
         /\ holder' \in [Replicas \X Payments -> Workers \cup {Nobody}]
         /\ pc'[w] = "ask" /\ job'[w] = p /\ loc'[w].seen = status[p]
         /\ \A v \in Workers : v # w =>
              pc'[v] = pc[v] /\ job'[v] = job[v] /\ loc'[v] = loc[v]
<1>1. /\ pc' \in [Workers -> Stages]
      /\ job' \in [Workers -> Payments \cup {NoPayment}]
      /\ loc' \in [Workers -> [seen : Statuses, base : Nat,
                               wasPaid : BOOLEAN, uid : Nat]]
      /\ holder' \in [Replicas \X Payments -> Workers \cup {Nobody}]
      /\ pc'[w] = "ask" /\ job'[w] = p /\ loc'[w].seen = status[p]
      /\ \A v \in Workers : v # w =>
           pc'[v] = pc[v] /\ job'[v] = job[v] /\ loc'[v] = loc[v]
  <2>1. /\ pc' \in [Workers -> Stages]
        /\ job' \in [Workers -> Payments \cup {NoPayment}]
        /\ holder' \in [Replicas \X Payments -> Workers \cup {Nobody}]
        /\ pc'[w] = "ask" /\ job'[w] = p
        /\ \A v \in Workers : v # w => pc'[v] = pc[v] /\ job'[v] = job[v]
    BY DEF Take, TypeOK, Stages
  <2>2. loc' = [loc EXCEPT ![w] = [@ EXCEPT !.seen = status[p]]]
    BY DEF Take
  <2>3. /\ loc' \in [Workers -> [seen : Statuses, base : Nat,
                                 wasPaid : BOOLEAN, uid : Nat]]
        /\ loc'[w].seen = status[p]
    <3>1. [loc[w] EXCEPT !.seen = status[p]] \in
            [seen : Statuses, base : Nat, wasPaid : BOOLEAN, uid : Nat]
      <4>1. /\ loc[w] \in [seen : Statuses, base : Nat, wasPaid : BOOLEAN,
                           uid : Nat]
            /\ status[p] \in Statuses
        BY DEF TypeOK
      <4>. QED BY <4>1
    <3>. QED BY <2>2, <3>1 DEF TypeOK
  <2>4. \A v \in Workers : v # w => loc'[v] = loc[v]
    BY <2>2 DEF TypeOK
  <2>. QED BY <2>1, <2>3, <2>4
<1>2. Lock(w, p) \in Replicas \X Payments
  BY DEF Lock
<1>3. holder[Lock(w, p)] = Nobody /\ holder'[Lock(w, p)] = w
      /\ \A k \in Replicas \X Payments :
           k # Lock(w, p) => holder'[k] = holder[k]
  BY <1>2 DEF Take, TypeOK
<1>4. Busy'
  <2>. SUFFICES ASSUME NEW v \in Workers, v # w, pc[v] # "idle"
                PROVE  holder'[Lock(v, job[v])] = v
    BY <1>1, <1>3 DEF Busy
  <2>1. holder[Lock(v, job[v])] = v /\ job[v] \in Payments
    BY DEF Busy
  <2>2. Lock(v, job[v]) \in Replicas \X Payments
    BY <2>1 DEF Lock
  <2>. QED BY <2>1, <2>2, <1>3
<1>. QED BY <1>1, <1>4

LEMMA WebhookRowInv ==
  ASSUME RowInv, NEW w \in Workers, NEW p \in Payments, Webhook(w, p)
  PROVE  RowInv'
<1>. USE DEF RowInv
<1>1. TypeOK' /\ Busy'
  BY TakeEffect DEF Webhook, TypeOK, rows, outside
<1>2. \A v \in Workers : pc'[v] = "claim" => pc[v] = "claim" /\ job'[v] = job[v]
  BY TakeEffect DEF Webhook, rows
<1>. QED BY <1>1, <1>2, RowsKept DEF Webhook, Registered, rows, outside

LEMMA VisitRowInv ==
  ASSUME RowInv, NEW p \in Payments, Visit(p)
  PROVE  RowInv'
<1>. USE DEF RowInv
<1>0. known[p] /\ UNCHANGED known
  BY DEF Visit, Registered, rows
<1>1. /\ Busy'
      /\ pc' \in [Workers -> Stages]
      /\ job' \in [Workers -> Payments \cup {NoPayment}]
      /\ loc' \in [Workers -> [seen : Statuses, base : Nat,
                               wasPaid : BOOLEAN, uid : Nat]]
      /\ holder' \in [Replicas \X Payments -> Workers \cup {Nobody}]
  BY <1>0, TakeEffect DEF Visit
<1>3. TypeOK'
  BY <1>1 DEF Visit, TypeOK, rows, outside
<1>2. \A v \in Workers : pc'[v] = "claim" => pc[v] = "claim" /\ job'[v] = job[v]
  BY <1>0, TakeEffect DEF Visit
<1>. QED BY <1>1, <1>2, <1>3, RowsKept DEF Visit, Registered, rows, outside

LEMMA BeginSweepRowInv ==
  ASSUME RowInv, NEW age \in {"fresh", "stale"}, BeginSweep(age)
  PROVE  RowInv'
<1>. USE DEF RowInv
<1>1. queue' \subseteq Payments /\ \A p \in queue' : known[p]
  BY DEF BeginSweep, Newest, Due
<1>2. TypeOK' /\ Busy'
  BY <1>1 DEF BeginSweep, TypeOK, Busy, rows, outside
<1>. QED BY <1>1, <1>2, RowsKept DEF BeginSweep, rows, outside
-----------------------------------------------------------------------------
(* The steps of a worker.  RestTypeOK is the part of TypeOK that moving a  *)
(* worker on does not touch.                                               *)
RestTypeOK ==
  /\ status \in [Payments -> Statuses]
  /\ known \in [Payments -> BOOLEAN]
  /\ delivered \in [Payments -> BOOLEAN]
  /\ notified \in [Payments -> BOOLEAN]
  /\ window \in [Payments -> {"fresh", "stale", "gone"}]
  /\ kassa \in [Payments -> {"none", "pending", "succeeded", "other_amount",
                             "canceled", "reversed"}]
  /\ account \in [Buyers -> {"none", "TRIAL", "PAID"}]
  /\ expiry \in [Buyers -> Nat]
  /\ uid \in [Buyers -> Nat]
  /\ start \in [Buyers -> [tag : {"none", "TRIAL", "PAID"}, expiry : Nat]]
  /\ linked \in [Buyers -> Nat]
  /\ reward \in [Payments -> {"none", "first", "renewal"}]
  /\ alerts \in [Payments -> SUBSET Alerts]
  /\ claims \in [Payments -> Nat]
  /\ applied \in [Payments -> Nat]
  /\ together \subseteq Payments
  /\ faults \in 0..MaxFaults

LEMMA FinishTypeOK ==
  ASSUME TypeOK, NEW w \in Workers, Finish(w), queue' \subseteq queue,
         RestTypeOK'
  PROVE  TypeOK'
<1>1. queue' \subseteq Payments
  BY DEF TypeOK
<1>. QED BY <1>1, FinishEffect DEF TypeOK, RestTypeOK

LEMMA GotoTypeOK ==
  ASSUME TypeOK, NEW w \in Workers, NEW stage \in Stages, Goto(w, stage),
         RestTypeOK'
  PROVE  TypeOK'
<1>1. pc' \in [Workers -> Stages] /\ UNCHANGED <<job, loc, holder, queue>>
  BY GotoEffect
<1>. QED BY <1>1 DEF TypeOK, RestTypeOK

LEMMA FinishRowInv ==
  ASSUME RowInv, NEW w \in Workers, pc[w] # "idle", Finish(w),
         queue' \subseteq queue, UNCHANGED <<status, known, claims, kassa>>,
         RestTypeOK'
  PROVE  RowInv'
<1>1. TypeOK' /\ Busy'
  BY FinishTypeOK, FinishBusy DEF RowInv
<1>2. \A v \in Workers : pc'[v] = "claim" => pc[v] = "claim" /\ job'[v] = job[v]
  BY FinishEffect DEF RowInv
<1>3. \A p \in queue' : known[p]
  BY DEF RowInv, Registered
<1>. QED BY <1>1, <1>2, <1>3, RowsKept

LEMMA GotoRowInv ==
  ASSUME RowInv, NEW w \in Workers, pc[w] # "idle",
         NEW stage \in Stages \ {"idle"}, Goto(w, stage),
         stage = "claim" => kassa[job[w]] \in {"succeeded", "reversed"},
         UNCHANGED <<status, known, claims, kassa>>, RestTypeOK'
  PROVE  RowInv'
<1>1. TypeOK' /\ Busy'
  BY GotoTypeOK, GotoBusy DEF RowInv
<1>2. \A v \in Workers : pc'[v] = "claim" =>
        /\ job'[v] = job[v]
        /\ pc[v] = "claim" \/ kassa[job[v]] \in {"succeeded", "reversed"}
  BY GotoEffect DEF RowInv
<1>3. \A p \in queue' : known[p]
  BY GotoEffect DEF RowInv, Registered
<1>. QED BY <1>1, <1>2, <1>3, RowsKept

LEMMA RestKept ==
  ASSUME TypeOK, UNCHANGED <<rows, outside, window, alerts, claims, faults>>
  PROVE  RestTypeOK'
BY DEF TypeOK, RestTypeOK, rows, outside

LEMMA AlertKept ==
  ASSUME TypeOK, NEW p \in Payments, NEW kind \in Alerts, Alert(p, kind),
         UNCHANGED <<rows, outside, window, claims, faults>>
  PROVE  RestTypeOK'
<1>1. alerts' \in [Payments -> SUBSET Alerts]
  BY DEF TypeOK, Alert
<1>. QED BY <1>1 DEF TypeOK, RestTypeOK, rows, outside

LEMMA FaultKept ==
  ASSUME TypeOK, NEW kind, Fault(kind),
         UNCHANGED <<rows, outside, window, alerts, claims>>
  PROVE  RestTypeOK'
<1>1. faults \in 0..MaxFaults /\ faults < MaxFaults /\ faults' = faults + 1
  BY DEF Fault, TypeOK
<1>2. faults' \in 0..MaxFaults
  BY <1>1
<1>. QED BY <1>2 DEF TypeOK, RestTypeOK, rows, outside

LEMMA JobIsPayment ==
  ASSUME RowInv, NEW w \in Workers, pc[w] # "idle"
  PROVE  job[w] \in Payments /\ known[job[w]] /\ status[job[w]] # "absent"
BY DEF RowInv, Busy, Registered

LEMMA AskFailedRowInv ==
  ASSUME RowInv, NEW w \in Workers, AskFailed(w)
  PROVE  RowInv'
<1>1. RestTypeOK' /\ queue' \subseteq queue
  BY RestKept DEF AskFailed, Abort, RowInv
<1>. QED BY <1>1, FinishRowInv DEF AskFailed, Abort, rows, outside

LEMMA AskCanceledRowInv ==
  ASSUME RowInv, NEW w \in Workers, AskCanceled(w)
  PROVE  RowInv'
<1>. USE DEF RowInv
<1>. DEFINE p == job[w]
<1>1. p \in Payments /\ known[p] /\ status[p] # "absent"
  BY JobIsPayment DEF AskCanceled
<1>2. /\ kassa[p] \in {"canceled", "reversed"}
      /\ \A q \in Payments : q # p => status'[q] = status[q]
      /\ status'[p] \in {status[p], "failed"}
      /\ UNCHANGED <<known, kassa, claims>>
  <2>1. kassa[p] \in {"canceled", "reversed"}
    BY <1>1 DEF AskCanceled, Reported
  <2>2. UNCHANGED <<known, kassa, claims>>
    BY DEF AskCanceled, outside
  <2>3. status' = status \/ status' = [status EXCEPT ![p] = "failed"]
    BY DEF AskCanceled
  <2>. QED BY <1>1, <2>1, <2>2, <2>3 DEF TypeOK
<1>3. status' \in [Payments -> Statuses]
  BY <1>1 DEF AskCanceled, TypeOK, Statuses
<1>4. alerts' \in [Payments -> SUBSET Alerts]
  <2>1. \/ UNCHANGED alerts
        \/ alerts' = [alerts EXCEPT ![p] = @ \cup {"canceled"}]
    BY DEF AskCanceled, Alert
  <2>2. "canceled" \in Alerts /\ alerts \in [Payments -> SUBSET Alerts]
    BY DEF TypeOK, Alerts
  <2>. QED BY <1>1, <2>1, <2>2
<1>5. RestTypeOK'
  BY <1>3, <1>4 DEF AskCanceled, RestTypeOK, TypeOK, outside
<1>6. Goto(w, "check") /\ pc[w] = "ask" /\ "check" \in Stages \ {"idle"}
  BY DEF AskCanceled, Stages
<1>7. TypeOK' /\ Busy'
  BY <1>2, <1>5, <1>6, GotoTypeOK, GotoBusy
<1>8. Registered'
  BY <1>1, <1>2, <1>6, GotoEffect DEF Registered
<1>9. ClaimLeavesPending'
  BY <1>1, <1>2 DEF ClaimLeavesPending
<1>10. ClaimAfterPayment'
  BY <1>2, <1>6, GotoEffect DEF ClaimAfterPayment
<1>11. PaidForReal' /\ NoMoneyWrittenOff'
  BY <1>2 DEF PaidForReal, NoMoneyWrittenOff
<1>. QED BY <1>7, <1>8, <1>9, <1>10, <1>11

LEMMA AskMismatchRowInv ==
  ASSUME RowInv, NEW w \in Workers, AskMismatch(w)
  PROVE  RowInv'
<1>1. job[w] \in Payments
  BY JobIsPayment DEF AskMismatch
<1>2. RestTypeOK'
  BY <1>1, AlertKept DEF AskMismatch, Alerts, RowInv
<1>. QED BY <1>2, GotoRowInv DEF AskMismatch, Stages, rows, outside

LEMMA AskOtherRowInv ==
  ASSUME RowInv, NEW w \in Workers, AskOther(w)
  PROVE  RowInv'
<1>1. RestTypeOK'
  BY RestKept DEF AskOther, RowInv
<1>2. CASE Goto(w, "check")
  BY <1>1, <1>2, GotoRowInv DEF AskOther, Stages, rows, outside
<1>3. CASE Reported(job[w]) = "succeeded" /\ Goto(w, "claim")
  <2>1. kassa[job[w]] \in {"succeeded", "reversed"}
    BY <1>3 DEF Reported
  <2>. QED BY <1>1, <1>3, <2>1, GotoRowInv DEF AskOther, Stages, rows, outside
<1>. QED BY <1>2, <1>3 DEF AskOther

LEMMA ClaimRowInv ==
  ASSUME RowInv, NEW w \in Workers, Claim(w)
  PROVE  RowInv'
<1>. USE DEF RowInv
<1>. DEFINE p == job[w]
<1>1. /\ p \in Payments /\ pc[w] = "claim"
      /\ kassa[p] \in {"succeeded", "reversed"}
  BY JobIsPayment DEF Claim, ClaimAfterPayment
<1>2. CASE status[p] = "pending"
  <2>1. /\ status' = [status EXCEPT ![p] = "succeeded"]
        /\ claims' = [claims EXCEPT ![p] = @ + 1]
        /\ Goto(w, "look") /\ "look" \in Stages \ {"idle"}
        /\ UNCHANGED <<known, kassa>>
    BY <1>2 DEF Claim, Stages, outside
  <2>2. /\ status'[p] = "succeeded" /\ claims'[p] = 1
        /\ \A q \in Payments : q # p =>
             status'[q] = status[q] /\ claims'[q] = claims[q]
    <3>1. claims[p] = 0
      BY <1>1, <1>2 DEF ClaimLeavesPending
    <3>2. status \in [Payments -> Statuses] /\ claims \in [Payments -> Nat]
      BY DEF TypeOK
    <3>. QED BY <1>1, <2>1, <3>1, <3>2
  <2>3. RestTypeOK'
    <3>1. status' \in [Payments -> Statuses]
      BY <2>1 DEF TypeOK, Statuses
    <3>2. claims' \in [Payments -> Nat]
      <4>1. claims \in [Payments -> Nat]
        BY DEF TypeOK
      <4>2. claims[p] + 1 \in Nat
        <5>1. claims[p] \in Nat
          BY <4>1, <1>1
        <5>. QED BY <5>1
      <4>3. claims' = [claims EXCEPT ![p] = claims[p] + 1]
        BY <2>1
      <4>. QED BY <4>1, <4>2, <4>3
    <3>3. UNCHANGED <<known, delivered, notified, linked, reward, outside,
                      window, alerts, faults>>
      BY DEF Claim
    <3>. QED BY <3>1, <3>2, <3>3 DEF RestTypeOK, TypeOK, outside
  <2>4. TypeOK'
    <3>1. "look" \in Stages
      BY DEF Stages
    <3>. QED BY <2>1, <2>3, <3>1, GotoTypeOK
  <2>8. Busy'
    BY <1>1, <2>1, GotoBusy
  <2>5. Registered'
    BY <2>1, <2>2, GotoEffect DEF Registered
  <2>6. ClaimLeavesPending' /\ PaidForReal' /\ NoMoneyWrittenOff'
    BY <1>1, <2>1, <2>2 DEF ClaimLeavesPending, PaidForReal, NoMoneyWrittenOff
  <2>7. ClaimAfterPayment'
    BY <2>1, GotoEffect DEF ClaimAfterPayment
  <2>. QED BY <2>4, <2>5, <2>6, <2>7, <2>8
<1>3. CASE status[p] # "pending"
  <2>1. UNCHANGED <<rows, outside, window, alerts, claims, faults>>
        /\ Goto(w, "check")
    BY <1>3 DEF Claim, rows
  <2>. QED BY <1>1, <2>1, RestKept, GotoRowInv DEF Stages, rows, outside
<1>. QED BY <1>2, <1>3

LEMMA CheckRowInv ==
  ASSUME RowInv, NEW w \in Workers, Check(w)
  PROVE  RowInv'
<1>1. RestTypeOK' /\ pc[w] = "check"
  BY RestKept DEF Check, RowInv
<1>2. CASE Goto(w, "look")
  BY <1>1, <1>2, GotoRowInv DEF Check, Stages, rows, outside
<1>3. CASE Finish(w) /\ UNCHANGED queue
  BY <1>1, <1>3, FinishRowInv DEF Check, rows, outside
<1>. QED BY <1>2, <1>3 DEF Check
-----------------------------------------------------------------------------
(* deliver() leaves to the kassa and to the claim what is theirs.          *)
LEMMA LookRowInv ==
  ASSUME RowInv, NEW w \in Workers, LookFound(w) \/ LookNotFound(w)
  PROVE  RowInv'
<1>1. pc[w] = "look" /\ job[w] \in Payments
  BY JobIsPayment DEF LookFound, LookNotFound
<1>2. CASE LookFound(w)
  <2>1. RestTypeOK'
    <3>1. together' \subseteq Payments
      BY <1>1, <1>2, JobIsPayment DEF LookFound, Joins, Beside, RowInv, TypeOK
    <3>. QED BY <1>2, <3>1 DEF LookFound, RestTypeOK, RowInv, TypeOK, rows
  <2>2. BuyerOf[job[w]] \in Buyers
    BY <1>1
  <2>3. loc' \in [Workers -> [seen : Statuses, base : Nat, wasPaid : BOOLEAN,
                             uid : Nat]]
    <3>1. /\ expiry[BuyerOf[job[w]]] \in Nat /\ uid[BuyerOf[job[w]]] \in Nat
          /\ loc \in [Workers -> [seen : Statuses, base : Nat,
                                  wasPaid : BOOLEAN, uid : Nat]]
      BY <2>2 DEF RowInv, TypeOK
    <3>2. Later(expiry[BuyerOf[job[w]]], Today) \in Nat
      BY <3>1 DEF Later, Today
    <3>3. (account[BuyerOf[job[w]]] = "PAID") \in BOOLEAN
      OBVIOUS
    <3>4. loc' = [loc EXCEPT ![w] = [@ EXCEPT
                    !.base = Later(expiry[BuyerOf[job[w]]], Today),
                    !.wasPaid = (account[BuyerOf[job[w]]] = "PAID"),
                    !.uid = uid[BuyerOf[job[w]]]]]
      BY <1>2 DEF LookFound
    <3>5. [loc[w] EXCEPT
             !.base = Later(expiry[BuyerOf[job[w]]], Today),
             !.wasPaid = (account[BuyerOf[job[w]]] = "PAID"),
             !.uid = uid[BuyerOf[job[w]]]] \in
           [seen : Statuses, base : Nat, wasPaid : BOOLEAN, uid : Nat]
      <4>1. loc[w] \in [seen : Statuses, base : Nat, wasPaid : BOOLEAN, uid : Nat]
        BY <3>1
      <4>. QED BY <4>1, <3>1, <3>2, <3>3
    <3>. QED BY <3>1, <3>4, <3>5
  <2>4. pc' = [pc EXCEPT ![w] = "extend"] /\ UNCHANGED <<job, holder, queue>>
    BY <1>2 DEF LookFound
  <2>6. pc' \in [Workers -> Stages]
    BY <2>4 DEF RowInv, TypeOK, Stages
  <2>7. TypeOK'
    <3>1. TypeOK /\ UNCHANGED <<job, holder, queue>>
      BY <2>4 DEF RowInv
    <3>. QED BY <3>1, <2>1, <2>3, <2>6 DEF TypeOK, RestTypeOK
  <2>8. Busy'
    <3>1. UNCHANGED known
      BY <1>2 DEF LookFound, rows
    <3>2. /\ pc'[w] = "extend" /\ \A v \in Workers : v # w => pc'[v] = pc[v]
          /\ UNCHANGED <<job, holder>>
      BY <2>4 DEF RowInv, TypeOK
    <3>. QED BY <1>1, <3>1, <3>2 DEF RowInv, Busy
  <2>5. TypeOK' /\ Busy'
    BY <2>7, <2>8
  <2>9. /\ UNCHANGED <<status, known, claims, kassa, queue, job>>
        /\ \A v \in Workers : pc'[v] = "claim" => pc[v] = "claim"
    BY <1>2, <2>4 DEF LookFound, RowInv, TypeOK, rows, outside
  <2>. QED BY <2>5, <2>9, RowsKept DEF RowInv, Registered
<1>3. CASE LookNotFound(w)
  <2>1. CASE SquadSet
    <3>1. RestTypeOK' /\ Goto(w, "create")
      BY <1>3, <2>1, RestKept DEF LookNotFound, RowInv
    <3>. QED BY <1>1, <1>3, <3>1, GotoRowInv
             DEF LookNotFound, Stages, rows, outside
  <2>2. CASE ~SquadSet
    <3>1. Alert(job[w], "outage") /\ Finish(w) /\ queue' \subseteq queue
      BY <1>3, <2>2 DEF LookNotFound, Abort
    <3>2. RestTypeOK'
      BY <1>1, <1>3, <3>1, AlertKept DEF LookNotFound, Alerts, RowInv
    <3>. QED BY <1>1, <1>3, <3>1, <3>2, FinishRowInv
             DEF LookNotFound, rows, outside
  <2>. QED BY <2>1, <2>2
<1>. QED BY <1>2, <1>3

LEMMA PanelFailedRowInv ==
  ASSUME RowInv, NEW w \in Workers, PanelFailed(w)
  PROVE  RowInv'
<1>1. pc[w] # "idle" /\ job[w] \in Payments
  BY JobIsPayment DEF PanelFailed
<1>2. RestTypeOK'
  BY <1>1, AlertKept DEF PanelFailed, Alerts, RowInv
<1>. QED BY <1>1, <1>2, FinishRowInv DEF PanelFailed, rows, outside

(* What an extension in the panel does, created or extended, answered or   *)
(* not.                                                                    *)
LEMMA ExtensionEffect ==
  ASSUME RowInv, NEW w \in Workers, CreateUser(w) \/ SetExpiry(w)
  PROVE  /\ pc[w] \in {"create", "extend"} /\ job[w] \in Payments
         /\ account' = [account EXCEPT ![BuyerOf[job[w]]] = "PAID"]
         /\ expiry' \in [Buyers -> Nat]
         /\ applied' = [applied EXCEPT ![job[w]] = @ + 1]
         /\ applied' \in [Payments -> Nat]
         /\ \E id \in Nat : Answered(w, id)
         /\ UNCHANGED <<rows, kassa, uid, start, together, window, claims>>
<1>1. job[w] \in Payments
  BY JobIsPayment DEF CreateUser, SetExpiry
<1>2. expiry' \in [Buyers -> Nat]
  <2>1. expiry \in [Buyers -> Nat] /\ loc[w].base \in Nat
    BY DEF RowInv, TypeOK
  <2>2. loc[w].base + Days \in Nat /\ Today + Days \in Nat
    BY <2>1 DEF Days, Today
  <2>3. CASE CreateUser(w)
    BY <2>1, <2>2, <2>3 DEF CreateUser
  <2>4. CASE SetExpiry(w)
    BY <2>1, <2>2, <2>4 DEF SetExpiry
  <2>. QED BY <2>3, <2>4
<1>3. applied' = [applied EXCEPT ![job[w]] = @ + 1]
  BY DEF CreateUser, SetExpiry
<1>4. applied' \in [Payments -> Nat]
  <2>1. applied \in [Payments -> Nat] /\ applied[job[w]] \in Nat
    BY <1>1 DEF RowInv, TypeOK
  <2>2. applied[job[w]] + 1 \in Nat
    BY <2>1
  <2>3. applied' = [applied EXCEPT ![job[w]] = applied[job[w]] + 1]
    BY <1>3
  <2>. QED BY <2>1, <2>2, <2>3
<1>5. uid[BuyerOf[job[w]]] \in Nat /\ loc[w].uid \in Nat
  BY <1>1 DEF RowInv, TypeOK
<1>. QED BY <1>1, <1>2, <1>3, <1>4, <1>5 DEF CreateUser, SetExpiry

(* The two ways in which a call that extends the account ends.             *)
Marks(w, id) == /\ pc' = [pc EXCEPT ![w] = "mark"]
                /\ loc' = [loc EXCEPT ![w].uid = id]
                /\ UNCHANGED <<job, holder, queue, alerts, faults>>

LEMMA MarksEffect ==
  ASSUME RowInv, NEW w \in Workers, NEW id \in Nat, Marks(w, id)
  PROVE  /\ pc' \in [Workers -> Stages] /\ pc'[w] = "mark"
         /\ loc' \in [Workers -> [seen : Statuses, base : Nat,
                                  wasPaid : BOOLEAN, uid : Nat]]
         /\ OthersStay(w)
<1>1. pc' \in [Workers -> Stages] /\ pc'[w] = "mark"
  BY DEF Marks, RowInv, TypeOK, Stages
<1>2. loc' = [loc EXCEPT ![w] = [@ EXCEPT !.uid = id]]
  BY DEF Marks
<1>3. [loc[w] EXCEPT !.uid = id] \in
        [seen : Statuses, base : Nat, wasPaid : BOOLEAN, uid : Nat]
  <2>1. loc[w] \in [seen : Statuses, base : Nat, wasPaid : BOOLEAN, uid : Nat]
    BY DEF RowInv, TypeOK
  <2>. QED BY <2>1
<1>4. loc' \in [Workers -> [seen : Statuses, base : Nat, wasPaid : BOOLEAN,
                           uid : Nat]]
  BY <1>2, <1>3 DEF RowInv, TypeOK
<1>5. OthersStay(w)
  BY <1>2 DEF OthersStay, Marks, RowInv, TypeOK
<1>. QED BY <1>1, <1>4, <1>5

LEMMA ExtensionRowInv ==
  ASSUME RowInv, NEW w \in Workers, CreateUser(w) \/ SetExpiry(w)
  PROVE  RowInv'
<1>1. /\ pc[w] # "idle" /\ job[w] \in Payments
      /\ account' = [account EXCEPT ![BuyerOf[job[w]]] = "PAID"]
      /\ expiry' \in [Buyers -> Nat]
      /\ applied' \in [Payments -> Nat]
      /\ \E id \in Nat : Answered(w, id)
      /\ UNCHANGED <<rows, kassa, uid, start, together, window, claims>>
  BY ExtensionEffect
<1>2. account' \in [Buyers -> {"none", "TRIAL", "PAID"}]
  BY <1>1 DEF RowInv, TypeOK
<1>3. ASSUME alerts' \in [Payments -> SUBSET Alerts], faults' \in 0..MaxFaults
      PROVE  RestTypeOK'
  BY <1>1, <1>2, <1>3 DEF RowInv, TypeOK, RestTypeOK, rows
<1>4. CASE \E id \in Nat : Marks(w, id)
  <2>0. PICK id \in Nat : Marks(w, id)
    BY <1>4
  <2>1. RestTypeOK' /\ UNCHANGED <<job, holder, queue>>
    BY <1>3, <2>0 DEF Marks, RowInv, TypeOK
  <2>2. /\ pc' \in [Workers -> Stages] /\ pc'[w] = "mark"
        /\ loc' \in [Workers -> [seen : Statuses, base : Nat,
                                 wasPaid : BOOLEAN, uid : Nat]]
        /\ \A v \in Workers : v # w => pc'[v] = pc[v]
    BY <2>0, MarksEffect DEF OthersStay
  <2>3. TypeOK'
    BY <2>1, <2>2 DEF RowInv, TypeOK, RestTypeOK
  <2>4. Busy'
    BY <1>1, <2>1, <2>2 DEF RowInv, Busy, rows
  <2>. QED BY <1>1, <2>1, <2>2, <2>3, <2>4, RowsKept
           DEF RowInv, Registered, rows
<1>5. CASE Fault("lost") /\ Alert(job[w], "outage") /\ Finish(w)
           /\ UNCHANGED queue
  <2>1. alerts' \in [Payments -> SUBSET Alerts]
    BY <1>5 DEF Alert, Alerts, RowInv, TypeOK
  <2>2. faults' \in 0..MaxFaults
    <3>1. faults \in 0..MaxFaults /\ faults < MaxFaults /\ faults' = faults + 1
      BY <1>5 DEF Fault, RowInv, TypeOK
    <3>. QED BY <3>1
  <2>. QED BY <1>1, <1>3, <1>5, <2>1, <2>2, FinishRowInv DEF rows
<1>. QED BY <1>1, <1>4, <1>5 DEF Answered, Marks

LEMMA TailRowInv ==
  ASSUME RowInv, NEW w \in Workers,
         MarkDelivered(w) \/ OpenCabinet(w) \/ Notify(w) \/ Register(w)
  PROVE  RowInv'
<1>. USE DEF RowInv
<1>1. pc[w] # "idle" /\ job[w] \in Payments
  BY JobIsPayment DEF MarkDelivered, OpenCabinet, Notify, Register
<1>2. CASE MarkDelivered(w)
  <2>1. RestTypeOK'
    BY <1>2 DEF MarkDelivered, RestTypeOK, TypeOK, outside
  <2>. QED BY <1>1, <1>2, <2>1, GotoRowInv DEF MarkDelivered, Stages, outside
<1>3. CASE OpenCabinet(w)
  <2>1. RestTypeOK'
    BY <1>3 DEF OpenCabinet, RestTypeOK, TypeOK, outside
  <2>. QED BY <1>1, <1>3, <2>1, GotoRowInv DEF OpenCabinet, Stages, outside
<1>4. CASE Notify(w)
  <2>1. notified' \in [Payments -> BOOLEAN]
    BY <1>4 DEF Notify, TypeOK
  <2>2. alerts' \in [Payments -> SUBSET Alerts]
    BY <1>4 DEF Notify, Alert, Alerts, TypeOK
  <2>3. RestTypeOK'
    BY <1>4, <2>1, <2>2 DEF Notify, RestTypeOK, TypeOK, outside
  <2>. QED BY <1>1, <1>4, <2>3, GotoRowInv DEF Notify, Stages, outside
<1>5. CASE Register(w)
  <2>1. reward' \in [Payments -> {"none", "first", "renewal"}]
    BY <1>5 DEF Register, TypeOK
  <2>2. RestTypeOK'
    BY <1>5, <2>1 DEF Register, RestTypeOK, TypeOK, outside
  <2>. QED BY <1>1, <1>5, <2>2, FinishRowInv DEF Register, outside
<1>. QED BY <1>2, <1>3, <1>4, <1>5

LEMMA FailuresRowInv ==
  ASSUME RowInv, NEW w \in Workers,
         Uncaught(w) \/ CabinetFailed(w) \/ DbFailed(w)
  PROVE  RowInv'
<1>1. RestTypeOK'
  BY RestKept, FaultKept
     DEF Uncaught, CabinetFailed, DbFailed, RowInv
<1>. QED BY <1>1, FinishRowInv
         DEF Uncaught, CabinetFailed, DbFailed, rows, outside
-----------------------------------------------------------------------------
LEMMA StepRowInv ==
  ASSUME RowInv, NEW w \in Workers, Step(w)
  PROVE  RowInv'
BY AskFailedRowInv, AskCanceledRowInv, AskMismatchRowInv, AskOtherRowInv,
   ClaimRowInv, CheckRowInv, LookRowInv, PanelFailedRowInv, ExtensionRowInv,
   TailRowInv, FailuresRowInv
   DEF Step, Confirm, Deliver

LEMMA NextRowInv == RowInv /\ [Next]_vars => RowInv'
<1>. SUFFICES ASSUME RowInv, [Next]_vars PROVE RowInv'
  OBVIOUS
<1>1. CASE Next
  BY <1>1, StartRowInv, KassaRowInv, AgeRowInv, VisitRowInv, WebhookRowInv,
     BeginSweepRowInv, StepRowInv, CrashRowInv, RemoveRowInv DEF Next
<1>2. CASE UNCHANGED vars
  BY <1>2 DEF vars, RowInv, TypeOK, Busy, Registered, ClaimLeavesPending,
              ClaimAfterPayment, PaidForReal, NoMoneyWrittenOff
<1>. QED BY <1>1, <1>2

(* Whatever fails and however many processes run, the rows stay what the   *)
(* kassa says: this is the inductive invariant of the payment table.       *)
THEOREM RowInvariant == Spec => []RowInv
BY InitRowInv, NextRowInv, PTL DEF Spec

(* TypeOK of the checkout.                                                 *)
THEOREM CheckoutTypeOK == Spec => []TypeOK
<1>1. RowInv => TypeOK
  BY DEF RowInv
<1>. QED BY <1>1, RowInvariant, PTL

(* confirm() marks a payment succeeded only if the kassa took its price.   *)
THEOREM PaymentsPaidForReal == Spec => []PaidForReal
<1>1. RowInv => PaidForReal
  BY DEF RowInv
<1>. QED BY <1>1, RowInvariant, PTL

(* confirm() marks a payment failed only if the kassa does not have the    *)
(* money.                                                                  *)
THEOREM MoneyNeverWrittenOff == Spec => []NoMoneyWrittenOff
<1>1. RowInv => NoMoneyWrittenOff
  BY DEF RowInv
<1>. QED BY <1>1, RowInvariant, PTL

(* The conditional UPDATE of _zanyat_oplachennym hands a payment to one    *)
(* call only, in any number of processes and without the help of the lock. *)
THEOREM ClaimedAtMostOnce == Spec => []ClaimedOnce
<1>1. RowInv => ClaimedOnce
  BY DEF RowInv, ClaimLeavesPending, ClaimedOnce
<1>. QED BY <1>1, RowInvariant, PTL
-----------------------------------------------------------------------------
(* One process of the api.  What a step of a worker does to its payment,   *)
(* as far as the lock and the panel are concerned: SameRow or one of the   *)
(* four changes of a row; everything else stays.                           *)
Moves(w, from, to) == pc[w] \in from /\ pc'[w] = to

SameRow == UNCHANGED <<status, delivered, applied>>

RowEffect(w) == LET p == job[w] IN
  \/ SameRow /\ pc'[w] = "idle" /\ (pc[w] = "mark" => "db" \in Faults)
  \/ SameRow /\ Moves(w, {"ask", "claim"}, "check")
  \/ SameRow /\ Moves(w, {"ask"}, "claim") /\ loc[w].seen = "pending"
  \/ SameRow /\ Moves(w, {"check"}, "look")
     /\ status[p] = "succeeded" /\ ~delivered[p]
  \/ SameRow /\ pc[w] = "look" /\ pc'[w] \in {"create", "extend"}
  \/ SameRow /\ pc[w] \in {"cabinet", "letter"} /\ pc'[w] \in {"letter", "register"}
  \/ /\ Moves(w, {"ask"}, "check") /\ loc[w].seen = "pending"
     /\ status' = [status EXCEPT ![p] = "failed"]
     /\ UNCHANGED <<delivered, applied>>
  \/ /\ Moves(w, {"claim"}, "look") /\ status[p] = "pending"
     /\ status' = [status EXCEPT ![p] = "succeeded"]
     /\ UNCHANGED <<delivered, applied>>
  \/ /\ pc[w] \in {"create", "extend"}
     /\ pc'[w] = "mark" \/ (pc'[w] = "idle" /\ "lost" \in Faults)
     /\ applied' = [applied EXCEPT ![p] = @ + 1]
     /\ UNCHANGED <<status, delivered>>
  \/ /\ Moves(w, {"mark"}, "cabinet")
     /\ delivered' = [delivered EXCEPT ![p] = TRUE]
     /\ UNCHANGED <<status, applied>>

LEMMA FinishOthers ==
  ASSUME RowInv, NEW w \in Workers, Finish(w)
  PROVE  OthersStay(w) /\ pc'[w] = "idle"
BY FinishEffect DEF OthersStay, RowInv

LEMMA GotoOthers ==
  ASSUME RowInv, NEW w \in Workers, NEW stage \in Stages, Goto(w, stage)
  PROVE  OthersStay(w) /\ pc'[w] = stage /\ job' = job
BY GotoEffect DEF OthersStay, RowInv

LEMMA ConfirmRowEffect ==
  ASSUME RowInv, NEW w \in Workers, Confirm(w) \/ Check(w)
  PROVE  OthersStay(w) /\ RowEffect(w) /\ (pc'[w] = "idle" \/ job' = job)
<1>. USE DEF RowEffect, SameRow, Moves
<1>0. {"check", "claim", "look"} \subseteq Stages
  BY DEF Stages
<1>1. CASE AskFailed(w)
  BY <1>1, FinishOthers DEF AskFailed, Abort, rows, outside
<1>2. CASE AskCanceled(w)
  BY <1>0, <1>2, GotoOthers DEF AskCanceled, outside
<1>3. CASE AskMismatch(w)
  BY <1>0, <1>3, GotoOthers DEF AskMismatch, rows, outside
<1>4. CASE AskOther(w)
  BY <1>0, <1>4, GotoOthers DEF AskOther, rows, outside
<1>5. CASE Claim(w)
  BY <1>0, <1>5, GotoOthers DEF Claim, outside
<1>6. CASE Check(w)
  BY <1>0, <1>6, GotoOthers, FinishOthers DEF Check, rows, outside
<1>. QED BY <1>1, <1>2, <1>3, <1>4, <1>5, <1>6 DEF Confirm

LEMMA DeliverRowEffect ==
  ASSUME RowInv, NEW w \in Workers,
         Deliver(w) \/ CabinetFailed(w) \/ DbFailed(w)
  PROVE  OthersStay(w) /\ RowEffect(w) /\ (pc'[w] = "idle" \/ job' = job)
<1>. USE DEF RowEffect, SameRow, Moves
<1>0. {"create", "mark", "cabinet", "letter", "register"} \subseteq Stages
  BY DEF Stages
<1>1. CASE LookFound(w)
  BY <1>1 DEF LookFound, OthersStay, RowInv, TypeOK, rows, outside
<1>2. CASE LookNotFound(w)
  BY <1>0, <1>2, GotoOthers, FinishOthers
     DEF LookNotFound, Abort, rows, outside
<1>3. CASE PanelFailed(w)
  BY <1>3, FinishOthers DEF PanelFailed, rows, outside
<1>4. CASE CreateUser(w) \/ SetExpiry(w)
  <2>1. /\ pc[w] \in {"create", "extend"}
        /\ \E id \in Nat : Answered(w, id)
        /\ applied' = [applied EXCEPT ![job[w]] = @ + 1]
        /\ UNCHANGED <<status, delivered>>
    BY <1>4, ExtensionEffect DEF rows
  <2>2. CASE \E id \in Nat : Marks(w, id)
    BY <2>1, <2>2, MarksEffect DEF Marks
  <2>3. CASE Fault("lost") /\ Finish(w)
    BY <2>1, <2>3, FinishOthers DEF Fault
  <2>. QED BY <2>1, <2>2, <2>3 DEF Answered, Marks
<1>5. CASE MarkDelivered(w)
  BY <1>0, <1>5, GotoOthers DEF MarkDelivered, outside
<1>6. CASE OpenCabinet(w) \/ Notify(w)
  BY <1>0, <1>6, GotoOthers DEF OpenCabinet, Notify, outside
<1>7. CASE \/ Register(w) \/ Uncaught(w)
           \/ CabinetFailed(w) \/ DbFailed(w)
  BY <1>7, FinishOthers
     DEF Register, Uncaught, CabinetFailed, DbFailed, Fault,
         rows, outside
<1>. QED BY <1>1, <1>2, <1>3, <1>4, <1>5, <1>6, <1>7 DEF Deliver

LEMMA StepRowEffect ==
  ASSUME RowInv, NEW w \in Workers, Step(w)
  PROVE  /\ pc[w] # "idle" /\ job[w] \in Payments
         /\ OthersStay(w) /\ RowEffect(w) /\ (pc'[w] = "idle" \/ job' = job)
<1>1. pc[w] # "idle"
  BY DEF Step, Confirm, Check, Deliver, AskFailed, AskCanceled, AskMismatch,
         AskOther, Claim, LookFound, LookNotFound, PanelFailed, CreateUser,
         SetExpiry, Uncaught, MarkDelivered, OpenCabinet,
         Notify, Register, CabinetFailed, DbFailed
<1>. QED BY <1>1, JobIsPayment, ConfirmRowEffect, DeliverRowEffect DEF Step

(* In one process no two workers are on the same payment.                  *)
LEMMA OneWorkerPerPayment ==
  ASSUME RowInv, OneApi, NEW v \in Workers, NEW w \in Workers, v # w,
         pc[v] # "idle", pc[w] # "idle"
  PROVE  job[v] # job[w]
<1>1. holder[Lock(v, job[v])] = v /\ holder[Lock(w, job[w])] = w
  BY DEF RowInv, Busy
<1>. QED BY <1>1 DEF OneApi, Lock

LEMMA StepLockInv ==
  ASSUME LockInv, OneApi, NEW w \in Workers, Step(w)
  PROVE  LockInv'
<1>. DEFINE p == job[w]
<1>0. RowInv /\ RowInv'
  BY StepRowInv DEF LockInv
<1>1. /\ pc[w] # "idle" /\ p \in Payments
      /\ OthersStay(w) /\ RowEffect(w) /\ (pc'[w] = "idle" \/ job' = job)
  BY <1>0, StepRowEffect
<1>2. /\ status \in [Payments -> Statuses] /\ delivered \in [Payments -> BOOLEAN]
      /\ \A v \in Workers : pc[v] # "idle" => job[v] \in Payments
  BY <1>0 DEF RowInv, TypeOK, Busy
<1>3. \A q \in Payments : q # p =>
        status'[q] = status[q] /\ delivered'[q] = delivered[q]
  BY <1>1, <1>2 DEF RowEffect, SameRow
<1>4. \A v \in Workers : v # w /\ pc[v] # "idle" =>
        /\ pc'[v] = pc[v] /\ job'[v] = job[v] /\ loc'[v] = loc[v]
        /\ status'[job[v]] = status[job[v]]
  BY <1>0, <1>1, <1>2, <1>3, OneWorkerPerPayment DEF OthersStay
<1>5. \A v \in Workers : v # w /\ pc[v] = "idle" => pc'[v] = "idle"
  BY <1>1 DEF OthersStay
<1>6. /\ pc'[w] # "ask"
      /\ pc'[w] = "claim" => status'[p] = "pending"
      /\ pc'[w] \in {"look", "create", "extend", "mark"} =>
           status'[p] = "succeeded"
      /\ delivered'[p] => status'[p] = "succeeded"
  BY <1>1, <1>2 DEF LockInv, SeenIsCurrent, OnlyClaimedDelivered, RowEffect,
                    SameRow, Moves
<1>7. SeenIsCurrent'
  BY <1>1, <1>4, <1>5, <1>6 DEF LockInv, SeenIsCurrent
<1>8. OnlyClaimedDelivered'
  BY <1>1, <1>3, <1>4, <1>5, <1>6 DEF LockInv, OnlyClaimedDelivered
<1>. QED BY <1>0, <1>7, <1>8 DEF LockInv

LEMMA InitLockInv == Init => LockInv
BY InitRowInv DEF Init, LockInv, SeenIsCurrent, OnlyClaimedDelivered

(* Everybody else: the row of a payment changes only before anybody works  *)
(* on it, and who takes its lock has just read it.                         *)
LEMMA StartLockInv ==
  ASSUME LockInv, NEW p \in Payments, Start(p) \/ StartRefused(p)
  PROVE  LockInv'
<1>0. RowInv /\ RowInv'
  BY StartRowInv DEF LockInv
<1>1. status[p] = "absent" /\ ~known[p] /\ UNCHANGED <<delivered, pc, job, loc>>
  BY <1>0 DEF Start, StartRefused, Absent, RowInv, Registered, local
<1>2. \A q \in Payments : q # p => status'[q] = status[q]
  BY <1>0 DEF Start, StartRefused, RowInv, TypeOK
<1>3. \A w \in Workers : pc[w] # "idle" => job[w] \in Payments /\ job[w] # p
  BY <1>0, <1>1 DEF RowInv, Busy
<1>4. SeenIsCurrent'
  BY <1>1, <1>2, <1>3 DEF LockInv, SeenIsCurrent
<1>5. OnlyClaimedDelivered'
  BY <1>1, <1>2, <1>3 DEF LockInv, OnlyClaimedDelivered
<1>. QED BY <1>0, <1>4, <1>5 DEF LockInv

LEMMA TakeLockInv ==
  ASSUME LockInv, NEW w \in Workers, NEW p \in Payments, known[p], Take(w, p),
         UNCHANGED rows, RowInv'
  PROVE  LockInv'
<1>1. /\ pc'[w] = "ask" /\ job'[w] = p /\ loc'[w].seen = status[p]
      /\ \A v \in Workers : v # w =>
           pc'[v] = pc[v] /\ job'[v] = job[v] /\ loc'[v] = loc[v]
      /\ UNCHANGED <<status, delivered>>
  BY TakeEffect DEF LockInv, RowInv, rows
<1>2. SeenIsCurrent'
  BY <1>1 DEF LockInv, SeenIsCurrent
<1>3. OnlyClaimedDelivered'
  BY <1>1 DEF LockInv, OnlyClaimedDelivered
<1>. QED BY <1>2, <1>3 DEF LockInv

LEMMA WebhookLockInv ==
  ASSUME LockInv, NEW w \in Workers, NEW p \in Payments, Webhook(w, p)
  PROVE  LockInv'
BY TakeLockInv, WebhookRowInv DEF Webhook, LockInv

LEMMA VisitLockInv ==
  ASSUME LockInv, NEW p \in Payments, Visit(p)
  PROVE  LockInv'
<1>1. known[p]
  BY DEF Visit, LockInv, RowInv, Registered
<1>. QED BY <1>1, TakeLockInv, VisitRowInv DEF Visit, LockInv

LEMMA CrashLockInv ==
  ASSUME LockInv, NEW r \in Replicas, Crash(r)
  PROVE  LockInv'
<1>0. RowInv'
  BY CrashRowInv DEF LockInv
<1>1. /\ UNCHANGED <<status, delivered>>
      /\ \A w \in Workers :
           \/ pc'[w] = "idle"
           \/ pc'[w] = pc[w] /\ job'[w] = job[w] /\ loc'[w] = loc[w]
  BY DEF Crash, rows
<1>2. SeenIsCurrent'
  BY <1>1 DEF LockInv, SeenIsCurrent
<1>3. OnlyClaimedDelivered'
  BY <1>1 DEF LockInv, OnlyClaimedDelivered
<1>. QED BY <1>0, <1>2, <1>3 DEF LockInv

LEMMA StillLockInv ==
  ASSUME LockInv, RowInv', UNCHANGED <<status, delivered, pc, job, loc>>
  PROVE  LockInv'
BY DEF LockInv, SeenIsCurrent, OnlyClaimedDelivered

LEMMA OutsideLockInv ==
  ASSUME LockInv, NEW p \in Payments, Pay(p) \/ Reverse(p) \/ Age(p)
  PROVE  LockInv'
<1>1. RowInv'
  BY KassaRowInv, AgeRowInv DEF LockInv
<1>2. UNCHANGED <<status, delivered, pc, job, loc>>
  BY DEF Pay, Reverse, Age, rows, local
<1>. QED BY <1>1, <1>2, StillLockInv

LEMMA NextLockInv == OneApi /\ LockInv /\ [Next]_vars => LockInv'
<1>. SUFFICES ASSUME OneApi, LockInv, [Next]_vars PROVE LockInv'
  OBVIOUS
<1>1. CASE Next
  <2>1. CASE \E p \in Payments : \/ Start(p) \/ StartRefused(p) \/ Visit(p)
                                 \/ \E w \in Workers : Webhook(w, p)
    BY <2>1, StartLockInv, VisitLockInv, WebhookLockInv
  <2>2. CASE \E p \in Payments : Pay(p) \/ Reverse(p) \/ Age(p)
    BY <2>2, OutsideLockInv
  <2>3. CASE \E age \in {"fresh", "stale"} : BeginSweep(age)
    <3>1. RowInv'
      BY <2>3, BeginSweepRowInv DEF LockInv
    <3>. QED BY <2>3, <3>1, StillLockInv DEF BeginSweep, rows
  <2>4. CASE \E w \in Workers : Step(w)
    BY <2>4, StepLockInv
  <2>5. CASE \E r \in Replicas : Crash(r)
    BY <2>5, CrashLockInv
  <2>6. CASE \E b \in Buyers : RemoveAccount(b)
    <3>1. RowInv'
      BY <2>6, RemoveRowInv DEF LockInv
    <3>. QED BY <2>6, <3>1, StillLockInv DEF RemoveAccount, rows, local
  <2>. QED BY <1>1, <2>1, <2>2, <2>3, <2>4, <2>5, <2>6 DEF Next
<1>2. CASE UNCHANGED vars
  <2>1. RowInv'
    BY NextRowInv DEF LockInv
  <2>. QED BY <1>2, <2>1, StillLockInv DEF vars
<1>. QED BY <1>1, <1>2

(* In one process a final payment stays what it is, whatever fails.        *)
FinalStays(p) == /\ delivered[p] => delivered'[p] /\ status'[p] = "succeeded"
                 /\ status[p] = "failed" => status'[p] = "failed"

LEMMA StepFinalStays ==
  ASSUME LockInv, NEW w \in Workers, Step(w), NEW p \in Payments
  PROVE  FinalStays(p)
<1>1. RowInv /\ (delivered[p] => status[p] = "succeeded")
  BY DEF LockInv, OnlyClaimedDelivered
<1>2. /\ pc[w] # "idle" /\ job[w] \in Payments /\ RowEffect(w)
      /\ status \in [Payments -> Statuses] /\ delivered \in [Payments -> BOOLEAN]
  BY <1>1, StepRowEffect DEF RowInv, TypeOK
<1>3. CASE p # job[w]
  BY <1>1, <1>2, <1>3 DEF RowEffect, SameRow, FinalStays
<1>4. CASE p = job[w]
  BY <1>1, <1>2, <1>4 DEF RowEffect, SameRow, Moves, FinalStays, LockInv,
                          SeenIsCurrent, OnlyClaimedDelivered
<1>. QED BY <1>3, <1>4

LEMMA NextFinalStays ==
  ASSUME LockInv, [Next]_vars, NEW p \in Payments
  PROVE  FinalStays(p)
<1>1. delivered[p] => status[p] = "succeeded"
  BY DEF LockInv, OnlyClaimedDelivered
<1>2. CASE UNCHANGED <<status, delivered>>
  BY <1>1, <1>2 DEF FinalStays
<1>3. ASSUME NEW q \in Payments, Start(q) \/ StartRefused(q)
      PROVE  FinalStays(p)
  BY <1>1, <1>3 DEF Start, StartRefused, Absent, FinalStays, LockInv, RowInv,
                    TypeOK
<1>4. CASE \E w \in Workers : Step(w)
  BY <1>4, StepFinalStays
<1>. QED BY <1>2, <1>3, <1>4
         DEF Next, Pay, Reverse, Age, Visit, Webhook, BeginSweep, Crash,
             RemoveAccount, rows, vars

(* With one process of the api: the lock keeps the row as the worker read  *)
(* it across the call to the kassa, and no final payment is taken up again.*)
THEOREM RowsStayFinal ==
  ASSUME OneApi PROVE Spec => FinalStaysFinal
<1>1. Init => LockInv
  BY InitLockInv
<1>2. LockInv /\ [Next]_vars => LockInv'
  BY NextLockInv
<1>3. LockInv /\ [Next]_vars =>
        [\A p \in Payments :
           /\ delivered[p] => delivered'[p] /\ status'[p] = "succeeded"
           /\ status[p] = "failed" => status'[p] = "failed"]_vars
  BY NextFinalStays DEF FinalStays
<1>. QED BY <1>1, <1>2, <1>3, PTL DEF Spec, FinalStaysFinal
-----------------------------------------------------------------------------
(* One process, and no delivery cut in half: extended exactly when marked. *)
LEMMA StepOnceInv ==
  ASSUME OnceInv, OneApi, Whole, NEW w \in Workers, Step(w)
  PROVE  OnceInv'
<1>. DEFINE p == job[w]
<1>0. LockInv /\ LockInv' /\ RowInv
  BY StepLockInv DEF OnceInv, LockInv
<1>1. /\ pc[w] # "idle" /\ p \in Payments
      /\ OthersStay(w) /\ RowEffect(w) /\ (pc'[w] = "idle" \/ job' = job)
  BY <1>0, StepRowEffect
<1>2. /\ status \in [Payments -> Statuses] /\ delivered \in [Payments -> BOOLEAN]
      /\ applied \in [Payments -> Nat]
      /\ \A v \in Workers : pc[v] # "idle" => job[v] \in Payments
  BY <1>0 DEF RowInv, TypeOK, Busy
<1>3. \A q \in Payments : q # p => /\ status'[q] = status[q]
                                   /\ delivered'[q] = delivered[q]
                                   /\ applied'[q] = applied[q]
  BY <1>1, <1>2 DEF RowEffect, SameRow
<1>4. \A v \in Workers : v # w =>
        /\ pc'[v] = pc[v] /\ job'[v] = job[v]
        /\ pc[v] # "idle" => job[v] # p
  BY <1>0, <1>1, OneWorkerPerPayment DEF OthersStay
<1>5. /\ "lost" \notin Faults /\ "db" \notin Faults
  BY DEF Whole
<1>6. /\ pc[w] \in {"look", "create", "extend"} =>
           ~delivered[p] /\ applied[p] = 0
      /\ pc[w] = "mark" => ~delivered[p] /\ applied[p] = 1
      /\ status[p] # "succeeded" => applied[p] = 0
      /\ applied[p] \in {0, 1}
      /\ delivered[p] => applied[p] = 1 /\ status[p] = "succeeded"
      /\ applied[p] = 1 /\ ~delivered[p] => pc[w] = "mark"
      /\ pc[w] = "ask" => loc[w].seen = status[p]
      /\ pc[w] \in {"look", "create", "extend", "mark"} =>
           status[p] = "succeeded"
  <2>1. ASSUME applied[p] = 1, ~delivered[p] PROVE pc[w] = "mark"
    <3>1. PICK v \in Workers : pc[v] = "mark" /\ job[v] = p
      BY <1>1, <2>1 DEF OnceInv, ExtendedWhenMarked
    <3>. QED BY <3>1, <1>4
  <2>. QED BY <1>0, <1>1, <2>1 DEF OnceInv, ExtendedWhenMarked, LockInv,
                                   SeenIsCurrent, OnlyClaimedDelivered
<1>7. /\ pc'[w] \in {"look", "create", "extend"} =>
           ~delivered'[p] /\ applied'[p] = 0
      /\ pc'[w] = "mark" => ~delivered'[p] /\ applied'[p] = 1
      /\ status'[p] # "succeeded" => applied'[p] = 0
      /\ applied'[p] \in {0, 1}
      /\ delivered'[p] => applied'[p] = 1
      /\ applied'[p] = 1 /\ ~delivered'[p] => pc'[w] = "mark" /\ job'[w] = p
  <2>1. status[p] \in Statuses /\ delivered[p] \in BOOLEAN
    BY <1>1, <1>2
  <2>2. CASE SameRow
    BY <2>1, <2>2, <1>1, <1>2, <1>5, <1>6 DEF RowEffect, SameRow, Moves
  <2>3. CASE UNCHANGED applied /\ ~SameRow
    BY <2>1, <2>3, <1>1, <1>2, <1>6 DEF RowEffect, SameRow, Moves
  <2>4. CASE ~UNCHANGED applied
    BY <2>1, <2>4, <1>1, <1>2, <1>5, <1>6 DEF RowEffect, SameRow, Moves
  <2>. QED BY <2>2, <2>3, <2>4
<1>8. ASSUME NEW q \in Payments, q # p, applied'[q] = 1, ~delivered'[q]
      PROVE  \E v \in Workers : pc'[v] = "mark" /\ job'[v] = q
  <2>1. PICK v \in Workers : pc[v] = "mark" /\ job[v] = q
    BY <1>3, <1>8 DEF OnceInv, ExtendedWhenMarked
  <2>. QED BY <2>1, <1>4, <1>8
<1>9. ASSUME NEW q \in Payments
      PROVE  /\ status'[q] # "succeeded" => applied'[q] = 0
             /\ applied'[q] \in {0, 1}
             /\ delivered'[q] => applied'[q] = 1
             /\ applied'[q] = 1 /\ ~delivered'[q] =>
                  \E v \in Workers : pc'[v] = "mark" /\ job'[v] = q
  BY <1>3, <1>7, <1>8 DEF OnceInv, ExtendedWhenMarked
<1>10. ASSUME NEW v \in Workers
       PROVE  /\ pc'[v] \in {"look", "create", "extend"} =>
                   ~delivered'[job'[v]] /\ applied'[job'[v]] = 0
              /\ pc'[v] = "mark" =>
                   ~delivered'[job'[v]] /\ applied'[job'[v]] = 1
  <2>1. CASE v = w
    BY <2>1, <1>1, <1>7
  <2>2. CASE v # w /\ pc[v] # "idle"
    <3>1. /\ pc'[v] = pc[v] /\ job'[v] = job[v]
          /\ job[v] \in Payments /\ job[v] # p
      BY <2>2, <1>2, <1>4
    <3>2. delivered'[job[v]] = delivered[job[v]]
          /\ applied'[job[v]] = applied[job[v]]
      BY <3>1, <1>3
    <3>. QED BY <3>1, <3>2 DEF OnceInv, ExtendedWhenMarked
  <2>3. CASE v # w /\ pc[v] = "idle"
    BY <2>3, <1>4
  <2>. QED BY <2>1, <2>2, <2>3
<1>. QED BY <1>0, <1>9, <1>10 DEF OnceInv, ExtendedWhenMarked

LEMMA StartOnceInv ==
  ASSUME OnceInv, NEW p \in Payments, Start(p) \/ StartRefused(p)
  PROVE  OnceInv'
<1>0. LockInv' /\ RowInv
  BY StartLockInv DEF OnceInv, LockInv
<1>1. status[p] = "absent" /\ UNCHANGED <<delivered, applied, pc, job>>
  BY DEF Start, StartRefused, Absent, local
<1>2. \A q \in Payments : q # p => status'[q] = status[q]
  BY <1>0 DEF Start, StartRefused, RowInv, TypeOK
<1>. QED BY <1>0, <1>1, <1>2 DEF OnceInv, ExtendedWhenMarked

(* Taking a lock does not disturb whoever is between the panel and the row.*)
LEMMA TakeOnceInv ==
  ASSUME OnceInv, LockInv', NEW w \in Workers, NEW p \in Payments, known[p],
         Take(w, p), UNCHANGED <<rows, outside>>
  PROVE  OnceInv'
<1>1. /\ pc[w] = "idle" /\ pc'[w] = "ask"
      /\ \A v \in Workers : v # w => pc'[v] = pc[v] /\ job'[v] = job[v]
      /\ UNCHANGED <<status, delivered, applied>>
  BY TakeEffect DEF Take, OnceInv, LockInv, RowInv, rows, outside
<1>2. ASSUME NEW v \in Workers, pc'[v] # "ask" \/ pc[v] # "idle"
      PROVE  pc'[v] = pc[v] /\ job'[v] = job[v]
  BY <1>1, <1>2
<1>3. ASSUME NEW q \in Payments, applied[q] = 1, ~delivered[q]
      PROVE  \E v \in Workers : pc'[v] = "mark" /\ job'[v] = q
  <2>1. PICK v \in Workers : pc[v] = "mark" /\ job[v] = q
    BY <1>3 DEF OnceInv, ExtendedWhenMarked
  <2>. QED BY <2>1, <1>2
<1>. QED BY <1>1, <1>2, <1>3 DEF OnceInv, ExtendedWhenMarked

LEMMA NextOnceInv ==
  OneApi /\ Whole /\ OnceInv /\ [Next]_vars => OnceInv'
<1>. SUFFICES ASSUME OneApi, Whole, OnceInv, [Next]_vars PROVE OnceInv'
  OBVIOUS
<1>0. LockInv'
  BY NextLockInv DEF OnceInv
<1>1. CASE UNCHANGED <<status, delivered, applied, pc, job>>
  BY <1>0, <1>1 DEF OnceInv, ExtendedWhenMarked
<1>2. CASE \E p \in Payments : Start(p) \/ StartRefused(p)
  BY <1>2, StartOnceInv
<1>3. ASSUME NEW w \in Workers, NEW p \in Payments, Webhook(w, p)
      PROVE  OnceInv'
  BY <1>0, <1>3, TakeOnceInv DEF Webhook
<1>4. ASSUME NEW p \in Payments, Visit(p)
      PROVE  OnceInv'
  <2>1. known[p]
    BY <1>4 DEF Visit, OnceInv, LockInv, RowInv, Registered
  <2>. QED BY <1>0, <1>4, <2>1, TakeOnceInv DEF Visit
<1>5. CASE \E w \in Workers : Step(w)
  BY <1>5, StepOnceInv
<1>6. \A r \in Replicas : ~Crash(r)
  BY DEF Crash, Fault, Whole
<1>. QED BY <1>1, <1>2, <1>3, <1>4, <1>5, <1>6
         DEF Next, Pay, Reverse, Age, BeginSweep, RemoveAccount, rows, outside,
             local, vars

LEMMA InitOnceInv == Init => OnceInv
BY InitLockInv DEF Init, OnceInv, ExtendedWhenMarked

(* With one process, and while no answer of the panel is lost and nothing  *)
(* cuts a delivery in half, a payment extends the subscription once at     *)
(* most, however many notifications and sweeps carry it.                   *)
THEOREM PaymentExtendsOnce ==
  ASSUME OneApi, Whole PROVE Spec => []ExtendedOnce
<1>1. Init => OnceInv
  BY InitOnceInv
<1>2. OnceInv /\ [Next]_vars => OnceInv'
  BY NextOnceInv
<1>3. OnceInv => ExtendedOnce
  BY DEF OnceInv, ExtendedWhenMarked, ExtendedOnce
<1>. QED BY <1>1, <1>2, <1>3, PTL DEF Spec
-----------------------------------------------------------------------------
(* The refinement: a step of a worker moves one payment one stage on, or   *)
(* none.                                                                   *)
Bar == [p \in Payments |-> Stage(p)]

LEMMA StageMoves ==
  ASSUME NEW p \in Payments,
         \A q \in Payments : q # p => /\ status'[q] = status[q]
                                      /\ delivered'[q] = delivered[q]
                                      /\ applied'[q] = applied[q],
         \/ Stage(p)' = Stage(p)
         \/ Stage(p) = "new" /\ Stage(p)' \in {"pending", "failed"}
         \/ Stage(p) = "pending" /\ Stage(p)' \in {"failed", "paid"}
         \/ Stage(p) = "paid" /\ Stage(p)' = "extended"
         \/ Stage(p) = "extended" /\ Stage(p)' = "delivered"
  PROVE  [Lifecycle!Next]_Bar
<1>1. \A q \in Payments : q # p => Stage(q)' = Stage(q)
  BY DEF Stage
<1>2. Bar' = [Bar EXCEPT ![p] = Stage(p)'] /\ Bar[p] = Stage(p)
  BY <1>1 DEF Bar
<1>3. CASE Stage(p)' = Stage(p)
  BY <1>1, <1>3 DEF Bar
<1>4. CASE Stage(p)' # Stage(p)
  <2>1. <<Bar[p], Bar'[p]>> \in Lifecycle!Moves
    BY <1>2, <1>4 DEF Lifecycle!Moves, Bar
  <2>2. Bar' = [Bar EXCEPT ![p] = Bar'[p]]
    BY <1>2 DEF Bar
  <2>. QED BY <2>1, <2>2 DEF Lifecycle!Next, Bar
<1>. QED BY <1>3, <1>4

LEMMA StepRefines ==
  ASSUME OnceInv, OnceInv', OneApi, NEW w \in Workers, Step(w)
  PROVE  [Lifecycle!Next]_Bar
<1>0. RowInv /\ LockInv
  BY DEF OnceInv, LockInv
<1>1. PICK p \in Payments : p = job[w] /\ pc[w] # "idle" /\ RowEffect(w)
  BY <1>0, StepRowEffect
<1>2. /\ status \in [Payments -> Statuses] /\ delivered \in [Payments -> BOOLEAN]
      /\ applied \in [Payments -> Nat]
  BY <1>0 DEF RowInv, TypeOK
<1>3. \A q \in Payments : q # p => /\ status'[q] = status[q]
                                   /\ delivered'[q] = delivered[q]
                                   /\ applied'[q] = applied[q]
  BY <1>1, <1>2 DEF RowEffect, SameRow
<1>4. /\ status[p] # "succeeded" => applied[p] = 0
      /\ applied[p] \in {0, 1}
      /\ pc[w] \in {"create", "extend", "mark"} => status[p] = "succeeded"
      /\ pc[w] \in {"create", "extend"} => ~delivered[p] /\ applied[p] = 0
      /\ pc[w] = "mark" => applied[p] = 1 /\ ~delivered[p]
      /\ pc[w] = "ask" => loc[w].seen = status[p]
  BY <1>0, <1>1 DEF OnceInv, ExtendedWhenMarked, LockInv, SeenIsCurrent,
                    OnlyClaimedDelivered
<1>5. CASE SameRow
  BY <1>1, <1>3, <1>5, StageMoves DEF SameRow, Stage
<1>6. CASE ~SameRow
  <2>1. \/ /\ status[p] = "pending" /\ status'[p] \in {"failed", "succeeded"}
           /\ delivered'[p] = delivered[p] /\ applied'[p] = applied[p]
        \/ /\ status[p] = "succeeded" /\ ~delivered[p] /\ applied[p] = 0
           /\ status'[p] = "succeeded" /\ ~delivered'[p] /\ applied'[p] = 1
        \/ /\ status[p] = "succeeded" /\ ~delivered[p] /\ applied[p] = 1
           /\ status'[p] = "succeeded" /\ delivered'[p] /\ applied'[p] = 1
    BY <1>1, <1>2, <1>4, <1>6 DEF RowEffect, SameRow, Moves
  <2>2. \/ Stage(p) = "pending" /\ Stage(p)' \in {"failed", "paid"}
        \/ Stage(p) = "paid" /\ Stage(p)' = "extended"
        \/ Stage(p) = "extended" /\ Stage(p)' = "delivered"
    BY <2>1, <1>4 DEF Stage
  <2>. QED BY <1>1, <1>3, <2>2, StageMoves
<1>. QED BY <1>5, <1>6

LEMMA StartRefines ==
  ASSUME OnceInv, NEW p \in Payments, Start(p) \/ StartRefused(p)
  PROVE  [Lifecycle!Next]_Bar
<1>1. /\ status[p] = "absent" /\ status'[p] \in {"pending", "failed"}
      /\ \A q \in Payments : q # p => status'[q] = status[q]
      /\ UNCHANGED <<delivered, applied>>
  BY DEF Start, StartRefused, Absent, OnceInv, LockInv, RowInv, TypeOK
<1>2. Stage(p) = "new" /\ Stage(p)' \in {"pending", "failed"}
  BY <1>1 DEF Stage
<1>. QED BY <1>1, <1>2, StageMoves

LEMMA NextRefines ==
  OneApi /\ Whole /\ OnceInv /\ [Next]_vars => [Lifecycle!Next]_Bar
<1>. SUFFICES ASSUME OneApi, Whole, OnceInv, [Next]_vars
              PROVE  [Lifecycle!Next]_Bar
  OBVIOUS
<1>1. CASE UNCHANGED <<status, delivered, applied>>
  BY <1>1 DEF Bar, Stage
<1>2. CASE \E p \in Payments : Start(p) \/ StartRefused(p)
  BY <1>2, StartRefines
<1>3. CASE \E w \in Workers : Step(w)
  BY <1>3, NextOnceInv, StepRefines
<1>. QED BY <1>1, <1>2, <1>3
         DEF Next, Pay, Reverse, Age, Visit, Webhook, BeginSweep, Crash,
             RemoveAccount, rows, outside, vars

(* With one process, and while no delivery is cut in half, the checkout    *)
(* takes every payment through PaymentLifecycle: one extension per         *)
(* payment, after the money and before the mark, none undone.              *)
THEOREM CheckoutImplementsLifecycle ==
  ASSUME OneApi, Whole PROVE Spec => ImplementsLifecycle
<1>1. Init => OnceInv
  BY InitOnceInv
<1>2. Init => Lifecycle!Init
  BY DEF Init, Lifecycle!Init, Stage
<1>3. OnceInv /\ [Next]_vars => OnceInv'
  BY NextOnceInv
<1>4. OnceInv /\ [Next]_vars => [Lifecycle!Next]_Bar
  BY NextRefines
<1>. QED BY <1>1, <1>2, <1>3, <1>4, PTL
         DEF Spec, ImplementsLifecycle, Lifecycle!Spec, Bar
-----------------------------------------------------------------------------
(* The panel.  What a step of a worker does to the buyer's account, to the *)
(* reward and to the owner's messages; whom it takes its payment from.     *)
SameAccount == UNCHANGED <<account, expiry, reward, applied>>

PanelEffect(w) == LET p == job[w] b == BuyerOf[p] IN
  \/ /\ pc[w] \in {"ask", "claim", "check"} /\ SameAccount
     /\ pc'[w] \in {"idle", "claim", "check", "look"}
     /\ pc'[w] # "idle" => loc'[w] = loc[w]
  \/ /\ pc[w] = "look" /\ pc'[w] = "create" /\ SameAccount
     /\ loc'[w] = loc[w]
  \/ /\ pc[w] = "look" /\ pc'[w] = "extend" /\ SameAccount
     /\ account[b] # "none"
     /\ loc'[w].base = Later(expiry[b], Today)
     /\ loc'[w].wasPaid = (account[b] = "PAID")
     /\ loc'[w].uid = uid[b]
  \/ /\ pc[w] \in {"look", "create", "extend"} /\ pc'[w] = "idle"
     /\ SameAccount
     /\ \/ "outage" \in alerts'[p]
        \/ pc[w] = "look" /\ ("db" \in Faults \/ ~PanelSet)
        \/ pc[w] = "extend" /\ (account[b] = "none" \/ uid[b] # loc[w].uid)
  \/ /\ \/ pc[w] = "create" /\ account[b] = "none"
           /\ expiry' = [expiry EXCEPT ![b] = Today + Days]
        \/ pc[w] = "extend"
           /\ expiry' = [expiry EXCEPT ![b] = loc[w].base + Days]
     /\ account' = [account EXCEPT ![b] = "PAID"]
     /\ applied' = [applied EXCEPT ![p] = @ + 1]
     /\ UNCHANGED reward
     /\ \/ pc'[w] = "mark" /\ loc'[w].wasPaid = loc[w].wasPaid
        \/ pc'[w] = "idle" /\ "lost" \in Faults /\ "outage" \in alerts'[p]
  \/ /\ \/ pc[w] = "mark" /\ pc'[w] = "cabinet"
        \/ pc[w] = "cabinet" /\ pc'[w] = "letter"
        \/ pc[w] = "letter" /\ pc'[w] = "register"
     /\ SameAccount /\ loc'[w] = loc[w]
     /\ pc[w] = "letter" => "purchase" \in alerts'[p]
  \/ /\ pc[w] = "register" /\ pc'[w] = "idle"
     /\ reward' = [reward EXCEPT ![p] =
                     IF loc[w].wasPaid THEN "renewal" ELSE "first"]
     /\ UNCHANGED <<account, expiry, applied>>
  \/ /\ pc'[w] = "idle" /\ SameAccount
     /\ \/ pc[w] \in {"mark", "letter", "register"} /\ "db" \in Faults
        \/ pc[w] = "cabinet" /\ "cabinet" \in Faults

LEMMA AlertEffect ==
  ASSUME RowInv, NEW p \in Payments, NEW kind, Alert(p, kind)
  PROVE  /\ kind \in alerts'[p]
         /\ \A q \in Payments : alerts[q] \subseteq alerts'[q]
BY DEF Alert, RowInv, TypeOK

LEMMA ConfirmPanelEffect ==
  ASSUME RowInv, NEW w \in Workers, Confirm(w) \/ Check(w), job[w] \in Payments
  PROVE  /\ PanelEffect(w) /\ UNCHANGED <<uid, start>>
         /\ \A q \in Payments : alerts[q] \subseteq alerts'[q]
<1>. USE DEF PanelEffect, SameAccount
<1>0. {"check", "claim", "look"} \subseteq Stages
  BY DEF Stages
<1>1. CASE AskFailed(w)
  BY <1>1, FinishOthers DEF AskFailed, Abort, rows, outside
<1>2. CASE AskCanceled(w)
  <2>1. \A q \in Payments : alerts[q] \subseteq alerts'[q]
    BY <1>2, AlertEffect DEF AskCanceled
  <2>. QED BY <1>0, <1>2, <2>1, GotoEffect DEF AskCanceled, RowInv, outside
<1>3. CASE AskMismatch(w)
  BY <1>0, <1>3, GotoEffect, AlertEffect DEF AskMismatch, RowInv, rows, outside
<1>4. CASE AskOther(w)
  BY <1>0, <1>4, GotoEffect DEF AskOther, RowInv, rows, outside
<1>5. CASE Claim(w)
  BY <1>0, <1>5, GotoEffect DEF Claim, RowInv, outside
<1>6. CASE Check(w)
  BY <1>0, <1>6, GotoEffect, FinishOthers DEF Check, RowInv, rows, outside
<1>. QED BY <1>1, <1>2, <1>3, <1>4, <1>5, <1>6 DEF Confirm

LEMMA LookFoundEffect ==
  ASSUME RowInv, NEW w \in Workers, LookFound(w)
  PROVE  /\ loc'[w].base = Later(expiry[BuyerOf[job[w]]], Today)
         /\ loc'[w].wasPaid = (account[BuyerOf[job[w]]] = "PAID")
         /\ loc'[w].uid = uid[BuyerOf[job[w]]]
<1>1. \A paid \in BOOLEAN : paid = (account[BuyerOf[job[w]]] = "PAID") =>
        loc' = [loc EXCEPT ![w] = [@ EXCEPT
                  !.base = Later(expiry[BuyerOf[job[w]]], Today),
                  !.wasPaid = paid, !.uid = uid[BuyerOf[job[w]]]]]
  BY DEF LookFound
<1>2. PICK paid \in BOOLEAN : paid = (account[BuyerOf[job[w]]] = "PAID")
  OBVIOUS
<1>3. loc[w] \in [seen : Statuses, base : Nat, wasPaid : BOOLEAN, uid : Nat]
      /\ w \in DOMAIN loc
  BY DEF RowInv, TypeOK
<1>4. loc'[w] = [loc[w] EXCEPT !.base = Later(expiry[BuyerOf[job[w]]], Today),
                              !.wasPaid = paid, !.uid = uid[BuyerOf[job[w]]]]
  BY <1>1, <1>2, <1>3
<1>. QED BY <1>2, <1>3, <1>4

LEMMA ExtensionPanelEffect ==
  ASSUME RowInv, NEW w \in Workers, CreateUser(w) \/ SetExpiry(w)
  PROVE  /\ PanelEffect(w) /\ UNCHANGED <<uid, start>>
         /\ \A q \in Payments : alerts[q] \subseteq alerts'[q]
<1>1. /\ pc[w] \in {"create", "extend"} /\ job[w] \in Payments
      /\ account' = [account EXCEPT ![BuyerOf[job[w]]] = "PAID"]
      /\ applied' = [applied EXCEPT ![job[w]] = @ + 1]
      /\ UNCHANGED <<reward, uid, start>>
  BY ExtensionEffect DEF rows
<1>2. \/ pc[w] = "create" /\ account[BuyerOf[job[w]]] = "none"
         /\ expiry' = [expiry EXCEPT ![BuyerOf[job[w]]] = Today + Days]
      \/ pc[w] = "extend"
         /\ expiry' = [expiry EXCEPT ![BuyerOf[job[w]]] = loc[w].base + Days]
  BY DEF CreateUser, SetExpiry
<1>3. /\ \/ pc'[w] = "mark" /\ loc'[w].wasPaid = loc[w].wasPaid
         \/ pc'[w] = "idle" /\ "lost" \in Faults /\ "outage" \in alerts'[job[w]]
      /\ \A q \in Payments : alerts[q] \subseteq alerts'[q]
  <2>1. PICK id \in Nat : Answered(w, id)
    BY ExtensionEffect
  <2>2. CASE Marks(w, id)
    <3>1. pc'[w] = "mark" /\ UNCHANGED alerts
      BY <2>2, MarksEffect DEF Marks
    <3>2. loc' = [loc EXCEPT ![w] = [@ EXCEPT !.uid = id]]
      BY <2>2 DEF Marks
    <3>3. loc[w] \in [seen : Statuses, base : Nat, wasPaid : BOOLEAN, uid : Nat]
          /\ w \in DOMAIN loc
      BY DEF RowInv, TypeOK
    <3>4. loc'[w] = [loc[w] EXCEPT !.uid = id]
      BY <3>2, <3>3
    <3>5. loc'[w].wasPaid = loc[w].wasPaid
      BY <3>3, <3>4
    <3>. QED BY <3>1, <3>5
  <2>3. CASE Fault("lost") /\ Alert(job[w], "outage") /\ Finish(w)
    BY <1>1, <2>3, FinishOthers, AlertEffect DEF Fault
  <2>. QED BY <2>1, <2>2, <2>3 DEF Answered, Marks
<1>. QED BY <1>1, <1>2, <1>3 DEF PanelEffect

LEMMA DeliverPanelEffect ==
  ASSUME RowInv, NEW w \in Workers, job[w] \in Payments,
         Deliver(w) \/ CabinetFailed(w) \/ DbFailed(w)
  PROVE  /\ PanelEffect(w) /\ UNCHANGED <<uid, start>>
         /\ \A q \in Payments : alerts[q] \subseteq alerts'[q]
<1>0. {"create", "mark", "cabinet", "letter", "register"} \subseteq Stages
  BY DEF Stages
<1>1. CASE LookFound(w)
  <2>1. pc'[w] = "extend"
    BY <1>1 DEF LookFound, RowInv, TypeOK
  <2>. QED BY <1>1, <2>1, LookFoundEffect
           DEF LookFound, Found, PanelEffect, SameAccount, rows, outside
<1>2. CASE LookNotFound(w)
  BY <1>0, <1>2, GotoEffect, FinishOthers, AlertEffect
     DEF LookNotFound, Abort, PanelEffect, SameAccount, RowInv, rows, outside
<1>3. CASE PanelFailed(w)
  BY <1>3, FinishOthers, AlertEffect
     DEF PanelFailed, PanelEffect, SameAccount, rows, outside
<1>4. CASE CreateUser(w) \/ SetExpiry(w)
  BY <1>4, ExtensionPanelEffect
<1>5. CASE Uncaught(w)
  BY <1>5, FinishOthers
     DEF Uncaught, PanelEffect, SameAccount, rows, outside
<1>6. CASE MarkDelivered(w) \/ OpenCabinet(w)
  BY <1>0, <1>6, GotoEffect DEF MarkDelivered, OpenCabinet, PanelEffect,
     SameAccount, RowInv, outside
<1>7. CASE Notify(w)
  <2>1. pc[w] = "letter" /\ pc'[w] = "register" /\ loc'[w] = loc[w]
    BY <1>0, <1>7, GotoEffect DEF Notify, RowInv
  <2>2. SameAccount /\ UNCHANGED <<uid, start>>
    BY <1>7 DEF Notify, SameAccount, outside
  <2>3. /\ "purchase" \in alerts'[job[w]]
        /\ \A q \in Payments : alerts[q] \subseteq alerts'[q]
    BY <1>7, AlertEffect DEF Notify
  <2>. QED BY <2>1, <2>2, <2>3 DEF PanelEffect
<1>8. CASE Register(w)
  BY <1>8, FinishOthers DEF Register, PanelEffect, outside
<1>9. CASE CabinetFailed(w) \/ DbFailed(w)
  <2>1. pc'[w] = "idle" /\ SameAccount /\ UNCHANGED <<uid, start, alerts>>
    BY <1>9, FinishOthers
       DEF CabinetFailed, DbFailed, SameAccount, rows, outside
  <2>2. \/ pc[w] \in {"ask", "claim", "check"}
        \/ pc[w] \in {"look", "mark", "letter", "register"} /\ "db" \in Faults
        \/ pc[w] = "cabinet" /\ "cabinet" \in Faults
    BY <1>9 DEF CabinetFailed, DbFailed, Fault
  <2>. QED BY <2>1, <2>2 DEF PanelEffect
<1>. QED BY <1>1, <1>2, <1>3, <1>4, <1>5, <1>6, <1>7, <1>8, <1>9 DEF Deliver

LEMMA StepPanelEffect ==
  ASSUME RowInv, NEW w \in Workers, Step(w)
  PROVE  /\ PanelEffect(w) /\ UNCHANGED <<uid, start>>
         /\ \A q \in Payments : alerts[q] \subseteq alerts'[q]
<1>1. job[w] \in Payments
  BY StepRowEffect
<1>. QED BY <1>1, ConfirmPanelEffect, DeliverPanelEffect DEF Step

(* Everybody else, faults aside: payments are made and paid, sweeps begin, *)
(* locks are taken.                                                        *)
Aside ==
  /\ UNCHANGED <<delivered, account, expiry, uid, start, reward, alerts, applied,
                 together>>
  /\ \A p \in Payments : status'[p] = "succeeded" => status[p] = "succeeded"
  /\ \A w \in Workers : \/ pc'[w] = pc[w] /\ job'[w] = job[w] /\ loc'[w] = loc[w]
                        \/ /\ pc[w] = "idle" /\ pc'[w] = "ask"
                           /\ loc'[w].wasPaid = loc[w].wasPaid

LEMMA TakeAside ==
  ASSUME RowInv, NEW w \in Workers, NEW p \in Payments, known[p], Take(w, p),
         UNCHANGED <<rows, outside, alerts>>
  PROVE  Aside
<1>1. /\ pc[w] = "idle" /\ pc'[w] = "ask"
      /\ \A v \in Workers : v # w =>
           pc'[v] = pc[v] /\ job'[v] = job[v] /\ loc'[v] = loc[v]
  BY TakeEffect DEF Take, RowInv, rows
<1>2. loc'[w].wasPaid = loc[w].wasPaid
  <2>1. loc' = [loc EXCEPT ![w] = [@ EXCEPT !.seen = status[p]]]
    BY DEF Take
  <2>2. loc[w] \in [seen : Statuses, base : Nat, wasPaid : BOOLEAN, uid : Nat]
        /\ w \in DOMAIN loc
    BY DEF RowInv, TypeOK
  <2>3. loc'[w] = [loc[w] EXCEPT !.seen = status[p]]
    BY <2>1, <2>2
  <2>. QED BY <2>2, <2>3
<1>. QED BY <1>1, <1>2 DEF Aside, rows, outside

LEMMA NextSplit ==
  ASSUME RowInv, [Next]_vars
  PROVE  \/ Aside
         \/ \E w \in Workers : Step(w)
         \/ "crash" \in Faults /\ \E r \in Replicas : Crash(r)
         \/ "removed" \in Faults /\ \E b \in Buyers : RemoveAccount(b)
<1>1. ASSUME NEW p \in Payments, Start(p) \/ StartRefused(p) PROVE Aside
  <2>1. status'[p] \in {"pending", "failed"}
        /\ \A q \in Payments : q # p => status'[q] = status[q]
    BY <1>1 DEF Start, StartRefused, RowInv, TypeOK
  <2>. QED BY <1>1, <2>1 DEF Start, StartRefused, Aside, local
<1>2. ASSUME NEW p \in Payments, Pay(p) \/ Reverse(p) \/ Age(p) PROVE Aside
  BY <1>2 DEF Pay, Reverse, Age, Aside, rows, outside, local
<1>3. ASSUME NEW p \in Payments, Visit(p) PROVE Aside
  <2>1. known[p] /\ Sweeper \in Workers
    BY <1>3 DEF Visit, RowInv, Registered
  <2>. QED BY <1>3, <2>1, TakeAside DEF Visit
<1>4. ASSUME NEW p \in Payments, NEW w \in Workers, Webhook(w, p) PROVE Aside
  BY <1>4, TakeAside DEF Webhook
<1>5. ASSUME NEW age, BeginSweep(age) PROVE Aside
  BY <1>5 DEF BeginSweep, Aside, rows, outside
<1>6. ASSUME UNCHANGED vars PROVE Aside
  BY <1>6 DEF vars, Aside
<1>. QED BY <1>1, <1>2, <1>3, <1>4, <1>5, <1>6
         DEF Next, Crash, RemoveAccount, Fault

(* A worker that carries a payment still does after a step aside, or after *)
(* a step of another.                                                      *)
LEMMA AsideOnTheWay ==
  ASSUME Aside, NEW p, NEW stages, stages \cap {"idle", "ask"} = {},
         OnTheWay(p, stages)
  PROVE  OnTheWay(p, stages)'
<1>1. PICK w \in Workers : job[w] = p /\ pc[w] \in stages
  BY DEF OnTheWay
<1>. QED BY <1>1 DEF Aside, OnTheWay

LEMMA StepOnTheWay ==
  ASSUME NEW w \in Workers, OthersStay(w), NEW p, NEW stages,
         OnTheWay(p, stages), job[w] = p /\ pc[w] \in stages => FALSE
  PROVE  OnTheWay(p, stages)'
BY DEF OnTheWay, OthersStay
-----------------------------------------------------------------------------
(* The announcement.                                                       *)
LEMMA StepAnnouncement ==
  ASSUME RowInv, AnnouncementToCome, Faults \cap {"crash", "db", "cabinet"} = {},
         NEW w \in Workers, Step(w)
  PROVE  AnnouncementToCome'
<1>. SUFFICES ASSUME NEW p \in Payments, delivered'[p],
                     "purchase" \notin alerts'[p]
              PROVE  OnTheWay(p, {"cabinet", "letter"})'
  BY DEF AnnouncementToCome
<1>1. /\ pc[w] # "idle" /\ job[w] \in Payments /\ OthersStay(w) /\ RowEffect(w)
      /\ pc'[w] = "idle" \/ job' = job
      /\ PanelEffect(w) /\ "purchase" \notin alerts[p]
      /\ delivered \in [Payments -> BOOLEAN]
  BY StepRowEffect, StepPanelEffect DEF RowInv, TypeOK
<1>2. CASE delivered[p] /\ ~(job[w] = p /\ pc[w] \in {"cabinet", "letter"})
  BY <1>1, <1>2, StepOnTheWay DEF AnnouncementToCome
<1>3. CASE job[w] = p /\ pc[w] \in {"cabinet", "letter"}
  <2>1. pc'[w] = "letter"
    BY <1>1, <1>3 DEF PanelEffect
  <2>. QED BY <1>1, <1>3, <2>1 DEF OnTheWay
<1>4. CASE ~delivered[p]
  <2>1. job[w] = p /\ pc'[w] = "cabinet"
    BY <1>1, <1>4 DEF RowEffect, SameRow, Moves
  <2>. QED BY <1>1, <2>1 DEF OnTheWay
<1>. QED BY <1>2, <1>3, <1>4

(* While no transaction fails, no cabinet fails to open and no process is  *)
(* stopped between the mark and the letters, every delivery is announced:  *)
(* deliver() reaches _soobshchit_o_pokupke whatever the mail server says.  *)
THEOREM DeliveriesAnnounced ==
  ASSUME Faults \cap {"crash", "db", "cabinet"} = {}
  PROVE  Spec => []DeliveryAnnounced
<1>1. Init => AnnouncementToCome
  BY DEF Init, AnnouncementToCome
<1>2. RowInv /\ AnnouncementToCome /\ [Next]_vars => AnnouncementToCome'
  <2>. SUFFICES ASSUME RowInv, AnnouncementToCome, [Next]_vars
                PROVE  AnnouncementToCome'
    OBVIOUS
  <2>1. CASE Aside
    <3>1. UNCHANGED <<delivered, alerts>>
      BY <2>1 DEF Aside
    <3>. QED BY <2>1, <3>1, AsideOnTheWay DEF AnnouncementToCome
  <2>2. CASE \E b \in Buyers : RemoveAccount(b)
    BY <2>2 DEF RemoveAccount, AnnouncementToCome, OnTheWay, rows, local
  <2>. QED BY <2>1, <2>2, NextSplit, StepAnnouncement
<1>3. AnnouncementToCome => DeliveryAnnounced
  BY DEF AnnouncementToCome, DeliveryAnnounced, OnTheWay, Idle
<1>. QED BY <1>1, <1>2, <1>3, RowInvariant, PTL DEF Spec
-----------------------------------------------------------------------------
(* The message to the owner.                                               *)
LEMMA StepDelivery ==
  ASSUME RowInv, DeliveryToCome, AccountStands,
         PanelSet, Faults \cap {"removed", "crash", "db"} = {},
         NEW w \in Workers, Step(w)
  PROVE  DeliveryToCome'
<1>. DEFINE stages == {"look", "create", "extend", "mark"}
<1>. SUFFICES ASSUME NEW p \in Payments, status'[p] = "succeeded",
                     ~delivered'[p], "outage" \notin alerts'[p]
              PROVE  OnTheWay(p, stages)'
  BY DEF DeliveryToCome
<1>1. /\ pc[w] # "idle" /\ job[w] \in Payments /\ OthersStay(w) /\ RowEffect(w)
      /\ pc'[w] = "idle" \/ job' = job
      /\ PanelEffect(w) /\ "outage" \notin alerts[p]
      /\ status \in [Payments -> Statuses] /\ delivered \in [Payments -> BOOLEAN]
  BY StepRowEffect, StepPanelEffect DEF RowInv, TypeOK
<1>2. ~delivered[p]
  BY <1>1 DEF RowEffect, SameRow
<1>3. CASE status[p] = "succeeded" /\ ~(job[w] = p /\ pc[w] \in stages)
  BY <1>1, <1>2, <1>3, StepOnTheWay DEF DeliveryToCome
<1>4. CASE job[w] = p /\ pc[w] \in {"look", "create", "extend"}
  <2>1. pc'[w] \in stages
    BY <1>1, <1>4 DEF PanelEffect, AccountStands
  <2>. QED BY <1>1, <1>4, <2>1 DEF OnTheWay
<1>5. CASE job[w] = p /\ pc[w] = "mark"
  <2>1. delivered'[p]
    BY <1>1, <1>5 DEF RowEffect, Moves
  <2>. QED BY <2>1
<1>6. CASE status[p] # "succeeded"
  <2>1. job[w] = p /\ pc'[w] = "look"
    BY <1>1, <1>6 DEF RowEffect, SameRow, Moves
  <2>. QED BY <1>1, <2>1 DEF OnTheWay
<1>. QED BY <1>3, <1>4, <1>5, <1>6

LEMMA StepAccount ==
  ASSUME RowInv, AccountStands, NEW w \in Workers, Step(w)
  PROVE  AccountStands'
<1>1. /\ job[w] \in Payments /\ OthersStay(w)
      /\ pc'[w] = "idle" \/ job' = job
      /\ PanelEffect(w) /\ UNCHANGED uid
      /\ account \in [Buyers -> {"none", "TRIAL", "PAID"}]
  BY StepRowEffect, StepPanelEffect DEF RowInv, TypeOK
<1>2. \A b \in Buyers : account[b] # "none" => account'[b] # "none"
  BY <1>1 DEF PanelEffect, SameAccount
<1>3. ASSUME NEW v \in Workers, v # w, pc'[v] = "extend"
      PROVE  /\ account'[BuyerOf[job'[v]]] # "none"
             /\ uid[BuyerOf[job'[v]]] = loc'[v].uid
  <2>1. pc[v] = "extend" /\ job'[v] = job[v] /\ loc'[v] = loc[v]
    BY <1>1, <1>3 DEF OthersStay
  <2>2. job[v] \in Payments
    BY <2>1, JobIsPayment
  <2>. QED BY <1>2, <2>1, <2>2 DEF AccountStands
<1>4. ASSUME pc'[w] = "extend"
      PROVE  /\ account'[BuyerOf[job'[w]]] # "none"
             /\ uid[BuyerOf[job'[w]]] = loc'[w].uid
  BY <1>1, <1>4 DEF PanelEffect, SameAccount
<1>. QED BY <1>1, <1>3, <1>4 DEF AccountStands

(* While the panel is configured, no account is removed in it, no          *)
(* transaction fails and no process stops, a paid subscription that did    *)
(* not come about is told to the owner, with a squad or without one, in    *)
(* any number of processes and when the panel's answer is lost: every way  *)
(* out of deliver() before the mark sends the message.                     *)
THEOREM OwnerIsTold ==
  ASSUME PanelSet, Faults \cap {"removed", "crash", "db"} = {}
  PROVE  Spec => []OwnerTold
<1>. DEFINE Inv == DeliveryToCome /\ AccountStands
<1>1. Init => Inv
  BY DEF Init, DeliveryToCome, AccountStands
<1>2. RowInv /\ Inv /\ [Next]_vars => Inv'
  <2>. SUFFICES ASSUME RowInv, Inv, [Next]_vars PROVE Inv'
    OBVIOUS
  <2>1. CASE Aside
    <3>1. UNCHANGED <<delivered, account, uid, alerts>>
          /\ \A p \in Payments : status'[p] = "succeeded" => status[p] = "succeeded"
      BY <2>1 DEF Aside
    <3>2. DeliveryToCome'
      BY <2>1, <3>1, AsideOnTheWay DEF DeliveryToCome
    <3>3. AccountStands'
      BY <2>1, <3>1 DEF Aside, AccountStands
    <3>. QED BY <3>2, <3>3
  <2>. QED BY <2>1, NextSplit, StepDelivery, StepAccount
<1>3. Inv => OwnerTold
  BY DEF DeliveryToCome, OwnerTold, OnTheWay, Idle
<1>. QED BY <1>1, <1>2, <1>3, RowInvariant, PTL DEF Spec
-----------------------------------------------------------------------------
(* The days.                                                               *)
LEMMA ExpiryTypes ==
  ASSUME RowInv
  PROVE  /\ expiry \in [Buyers -> Nat]
         /\ \A b \in Buyers : start[b].expiry \in Nat /\ Left(b) \in Nat
         /\ \A b \in Buyers : Left(b) >= start[b].expiry /\ Left(b) >= Today
         /\ \A w \in Workers : loc[w].base \in Nat
<1>1. \A b \in Buyers : start[b].expiry \in Nat
  BY DEF RowInv, TypeOK
<1>. QED BY <1>1 DEF RowInv, TypeOK, Left, Later, Today

(* What is due for S when the extensions of T overlapped.                  *)
Owed(S, T) == Cardinality(S \ T) + IF S \cap T = {} THEN 0 ELSE 1

LEMMA OwedType ==
  ASSUME NEW S, NEW T, IsFiniteSet(S)
  PROVE  /\ Owed(S, T) \in Nat /\ Cardinality(S \ T) \in Nat
         /\ Cardinality(S \ T) <= Owed(S, T)
<1>1. Cardinality(S \ T) \in Nat
  BY FS_Subset, FS_CardinalityType
<1>. QED BY <1>1 DEF Owed

(* Less is due for fewer payments.                                         *)
LEMMA OwedFewer ==
  ASSUME NEW S, NEW T, IsFiniteSet(S), NEW R \in SUBSET S
  PROVE  Owed(R, T) \in Nat /\ Owed(R, T) <= Owed(S, T)
<1>1. R \ T \subseteq S \ T /\ IsFiniteSet(S \ T)
  BY FS_Subset
<1>2. Cardinality(R \ T) <= Cardinality(S \ T)
  BY <1>1, FS_Subset
<1>3. Owed(R, T) \in Nat /\ Owed(S, T) \in Nat /\ Cardinality(R \ T) \in Nat
      /\ Cardinality(S \ T) \in Nat
  BY OwedType, FS_Subset
<1>4. S \cap T = {} => R \cap T = {}
  OBVIOUS
<1>. QED BY <1>2, <1>3, <1>4 DEF Owed

(* One payment more makes one day more due; in T, one beside those apart.  *)
LEMMA OwedMore ==
  ASSUME NEW S, NEW T, IsFiniteSet(S), NEW p
  PROVE  /\ IsFiniteSet(S \cup {p})
         /\ Owed(S \cup {p}, T) \in Nat
         /\ Owed(S \cup {p}, T) <= Owed(S, T) + 1
         /\ p \in T => /\ (S \cup {p}) \ T = S \ T
                       /\ Owed(S \cup {p}, T) = Cardinality(S \ T) + 1
<1>1. IsFiniteSet(S \cup {p}) /\ IsFiniteSet(S \ T)
  BY FS_AddElement, FS_Subset
<1>2. Owed(S, T) \in Nat /\ Owed(S \cup {p}, T) \in Nat /\ Cardinality(S \ T) \in Nat
  BY <1>1, OwedType
<1>3. CASE p \in T
  <2>1. (S \cup {p}) \ T = S \ T /\ (S \cup {p}) \cap T # {}
    BY <1>3
  <2>. QED BY <1>1, <1>2, <2>1 DEF Owed
<1>4. CASE p \notin T
  <2>1. (S \cup {p}) \ T = (S \ T) \cup {p} /\ (S \cup {p}) \cap T = S \cap T
    BY <1>4
  <2>2. Cardinality((S \ T) \cup {p}) <= Cardinality(S \ T) + 1
    <3>1. Cardinality((S \ T) \cup {p}) = IF p \in S \ T THEN Cardinality(S \ T)
                                         ELSE Cardinality(S \ T) + 1
      BY <1>1, FS_AddElement
    <3>. QED BY <1>2, <3>1
  <2>3. Cardinality((S \ T) \cup {p}) \in Nat
    BY <1>1, FS_AddElement, FS_CardinalityType
  <2>. QED BY <1>1, <1>2, <1>4, <2>1, <2>2, <2>3 DEF Owed
<1>. QED BY <1>3, <1>4

(* Nor is more due when more of them overlap.                              *)
LEMMA OwedTogether ==
  ASSUME NEW S, NEW T, NEW U, IsFiniteSet(S), T \subseteq U
  PROVE  /\ Owed(S, U) <= Owed(S, T)
         /\ Cardinality(S \ U) <= Cardinality(S \ T)
<1>1. IsFiniteSet(S \ T) /\ S \ U \subseteq S \ T
  BY FS_Subset
<1>2. Cardinality(S \ U) <= Cardinality(S \ T)
  BY <1>1, FS_Subset
<1>3. Cardinality(S \ U) \in Nat /\ Cardinality(S \ T) \in Nat
  BY OwedType
<1>4. CASE S \cap U = {}
  BY <1>2, <1>3, <1>4 DEF Owed
<1>5. CASE S \cap T # {}
  BY <1>2, <1>3, <1>5 DEF Owed
<1>6. CASE S \cap U # {} /\ S \cap T = {}
  <2>1. PICK e \in S \cap U : e \in S \ T
    BY <1>6
  <2>2. /\ IsFiniteSet((S \ T) \ {e})
        /\ Cardinality((S \ T) \ {e}) = Cardinality(S \ T) - 1
    BY <1>1, <2>1, FS_RemoveElement
  <2>3. S \ U \subseteq (S \ T) \ {e}
    BY <1>1, <2>1
  <2>4. Cardinality(S \ U) <= Cardinality(S \ T) - 1
    <3>1. Cardinality(S \ U) <= Cardinality((S \ T) \ {e})
      BY <2>2, <2>3, FS_Subset
    <3>. QED BY <2>2, <3>1
  <2>. QED BY <1>2, <1>3, <1>6, <2>4 DEF Owed
<1>. QED BY <1>4, <1>5, <1>6

(* A step of a worker reads the end of the subscription, extends it, or    *)
(* has to do with neither.                                                 *)
Reads(w) == LET b == BuyerOf[job[w]] IN
  /\ pc'[w] = "extend" /\ job' = job
  /\ account[b] # "none"
  /\ loc'[w].base = Later(expiry[b], Today)
  /\ Joins(w)
  /\ UNCHANGED <<account, expiry, applied>>

Adds(w) == LET p == job[w] b == BuyerOf[p] IN
  /\ \/ pc[w] = "create" /\ account[b] = "none"
        /\ expiry' = [expiry EXCEPT ![b] = Today + Days]
     \/ pc[w] = "extend" /\ expiry' = [expiry EXCEPT ![b] = loc[w].base + Days]
  /\ pc'[w] \in {"mark", "idle"}
  /\ account' = [account EXCEPT ![b] = "PAID"]
  /\ applied' = [applied EXCEPT ![p] = @ + 1]
  /\ UNCHANGED together

LEMMA StepTogether ==
  ASSUME RowInv, NEW w \in Workers, Step(w)
  PROVE  IF pc[w] = "look" /\ pc'[w] = "extend" THEN Joins(w) ELSE UNCHANGED together
<1>1. CASE LookFound(w)
  <2>1. pc'[w] = "extend"
    BY <1>1 DEF LookFound, RowInv, TypeOK
  <2>. QED BY <1>1, <2>1 DEF LookFound
<1>2. ASSUME UNCHANGED together, pc[w] = "look" => pc'[w] \in {"idle", "create"}
      PROVE  IF pc[w] = "look" /\ pc'[w] = "extend" THEN Joins(w)
             ELSE UNCHANGED together
  BY <1>2
<1>3. CASE CreateUser(w) \/ SetExpiry(w)
  BY <1>2, <1>3, ExtensionEffect
<1>4. CASE LookNotFound(w)
  <2>1. "create" \in Stages
    BY DEF Stages
  <2>. QED BY <1>2, <1>4, <2>1, GotoOthers, FinishOthers
           DEF LookNotFound, Abort, outside
<1>5. CASE \/ PanelFailed(w) \/ Uncaught(w)
           \/ CabinetFailed(w) \/ DbFailed(w)
  BY <1>2, <1>5, FinishOthers
     DEF PanelFailed, Uncaught, CabinetFailed, DbFailed,
         outside
<1>. QED BY <1>1, <1>2, <1>3, <1>4, <1>5
         DEF Step, Confirm, Deliver, AskFailed, AskCanceled, AskMismatch, AskOther,
             Claim, Check, MarkDelivered, OpenCabinet, Notify, Register, outside

LEMMA DaysSplit ==
  ASSUME RowInv, NEW w \in Workers, Step(w)
  PROVE  \/ Reads(w)
         \/ Adds(w)
         \/ /\ UNCHANGED <<account, expiry, applied, together>>
            /\ pc'[w] \notin {"extend", "mark"}
<1>1. /\ PanelEffect(w) /\ (pc'[w] = "idle" \/ job' = job)
      /\ IF pc[w] = "look" /\ pc'[w] = "extend" THEN Joins(w)
         ELSE UNCHANGED together
  BY StepRowEffect, StepPanelEffect, StepTogether
<1>. QED BY <1>1 DEF PanelEffect, SameAccount, Reads, Adds

(* What DaysInv says of one buyer.                                         *)
BuyerDays(b) ==
  /\ IsFiniteSet(Extended(b)) /\ expiry[b] >= start[b].expiry
  /\ Extended(b) # {} => expiry[b] >= Left(b) + Owed(Extended(b), together)

WorkerDays(w, b) ==
  /\ loc[w].base >= Left(b) + Cardinality(Extended(b) \ together)
  /\ job[w] \notin together =>
       /\ loc[w].base >= expiry[b]
       /\ \A v \in Workers : v # w /\ pc[v] = "extend" => BuyerOf[job[v]] # b

DaysByParts ==
  /\ \A b \in Buyers : BuyerDays(b)
  /\ \A w \in Workers : pc[w] = "extend" => WorkerDays(w, BuyerOf[job[w]])

LEMMA DaysParts == RowInv => (DaysOnTop <=> DaysByParts)
<1>. SUFFICES ASSUME RowInv PROVE DaysOnTop <=> DaysByParts
  OBVIOUS
<1>1. \A b \in Buyers : IsFiniteSet(Extended(b)) =>
        /\ DaysDue(Extended(b)) = Owed(Extended(b), together)
        /\ Days * Cardinality(Apart(b)) = Cardinality(Extended(b) \ together)
  <2>. TAKE b \in Buyers
  <2>. HAVE IsFiniteSet(Extended(b))
  <2>1. /\ Owed(Extended(b), together) \in Nat
        /\ Cardinality(Extended(b) \ together) \in Nat
    BY OwedType
  <2>. QED BY <2>1 DEF DaysDue, Owed, Apart, Days
<1>2. \A w \in Workers : pc[w] = "extend" => BuyerOf[job[w]] \in Buyers
  BY JobIsPayment
<1>. QED BY <1>1, <1>2 DEF DaysOnTop, DaysByParts, BuyerDays, WorkerDays

(* A worker beside a step that leaves its buyer's account as it was.       *)
LEMMA WorkerDaysKept ==
  ASSUME NEW v \in Workers, NEW c \in Buyers, c = BuyerOf[job[v]], WorkerDays(v, c),
         job'[v] = job[v], loc'[v] = loc[v], Left(c)' = Left(c),
         expiry'[c] = expiry[c], Extended(c)' = Extended(c), UNCHANGED together,
         \A u \in Workers : pc'[u] = "extend" => pc[u] = "extend" /\ job'[u] = job[u]
  PROVE  WorkerDays(v, BuyerOf[job[v]])'
<1>1. BuyerOf[job'[v]] = c
  OBVIOUS
<1>2. loc'[v].base >= Left(c)' + Cardinality(Extended(c)' \ together')
  BY DEF WorkerDays
<1>3. ASSUME job'[v] \notin together'
      PROVE  /\ loc'[v].base >= expiry'[c]
             /\ \A u \in Workers : u # v /\ pc'[u] = "extend" => BuyerOf[job'[u]] # c
  BY <1>3 DEF WorkerDays
<1>. QED BY <1>1, <1>2, <1>3 DEF WorkerDays

(* Reading the end of the subscription: what overlaps from now on is due   *)
(* once, and the end read is as it is now.                                 *)
LEMMA ReadsDays ==
  ASSUME RowInv, DaysInv, NEW w \in Workers, NEW p \in Payments, NEW b \in Buyers,
         p = job[w], b = BuyerOf[p], pc[w] # "idle", OthersStay(w), Reads(w),
         UNCHANGED start
  PROVE  /\ \A c \in Buyers : BuyerDays(c)'
         /\ \A v \in Workers : pc'[v] = "extend" => WorkerDays(v, BuyerOf[job[v]])'
<1>1. /\ expiry \in [Buyers -> Nat]
      /\ \A c \in Buyers : /\ start[c].expiry \in Nat /\ Left(c) \in Nat
                           /\ Left(c) >= start[c].expiry /\ Left(c) >= Today
      /\ \A v \in Workers : loc[v].base \in Nat
  BY ExpiryTypes
<1>2. /\ \A c \in Buyers : BuyerDays(c)
      /\ \A v \in Workers : pc[v] = "extend" => WorkerDays(v, BuyerOf[job[v]])
  BY DaysParts DEF DaysInv, DaysByParts
<1>3. /\ together \subseteq together' /\ job' = job
      /\ UNCHANGED <<account, expiry, applied>>
      /\ \A c \in Buyers : Extended(c)' = Extended(c) /\ Left(c)' = Left(c)
      /\ \A v \in Workers : v # w => pc'[v] = pc[v] /\ loc'[v] = loc[v]
      /\ loc'[w].base = Later(expiry[b], Today)
  BY DEF Reads, Joins, Extended, Left, OthersStay
<1>4. \A c \in Buyers :
        /\ Owed(Extended(c), together) \in Nat
        /\ Owed(Extended(c), together') \in Nat
        /\ Cardinality(Extended(c) \ together) \in Nat
        /\ Cardinality(Extended(c) \ together') \in Nat
        /\ Owed(Extended(c), together') <= Owed(Extended(c), together)
        /\ Cardinality(Extended(c) \ together') <= Cardinality(Extended(c) \ together)
        /\ Cardinality(Extended(c) \ together) <= Owed(Extended(c), together)
  BY <1>2, <1>3, OwedType, OwedTogether DEF BuyerDays
<1>5. ASSUME NEW c \in Buyers PROVE BuyerDays(c)'
  <2>1. BuyerDays(c) /\ expiry[c] \in Nat /\ Left(c) \in Nat
    BY <1>1, <1>2
  <2>2. /\ Owed(Extended(c), together) \in Nat /\ Owed(Extended(c), together') \in Nat
        /\ Owed(Extended(c), together') <= Owed(Extended(c), together)
    BY <1>4
  <2>3. Extended(c) # {} => expiry[c] >= Left(c) + Owed(Extended(c), together')
    BY <2>1, <2>2 DEF BuyerDays
  <2>4. /\ Extended(c)' = Extended(c) /\ Left(c)' = Left(c)
        /\ expiry' = expiry /\ start' = start
    BY <1>3
  <2>. QED BY <2>1, <2>3, <2>4 DEF BuyerDays
<1>6. WorkerDays(w, BuyerOf[job[w]])'
  <2>1. loc'[w].base >= Left(b) + Cardinality(Extended(b) \ together)
    <3>1. CASE Extended(b) = {}
      <4>1. Cardinality(Extended(b) \ together) = 0
        <5>1. Extended(b) \ together = {}
          BY <3>1
        <5>. QED BY <5>1, FS_EmptySet
      <4>2. Later(expiry[b], Today) >= Left(b)
        <5>1. expiry[b] >= start[b].expiry
          BY <1>2 DEF BuyerDays
        <5>. QED BY <1>1, <5>1 DEF Left, Later, Today
      <4>. QED BY <1>1, <1>3, <4>1, <4>2
    <3>2. CASE Extended(b) # {}
      <4>1. expiry[b] >= Left(b) + Owed(Extended(b), together)
        BY <1>2, <3>2 DEF BuyerDays
      <4>2. loc'[w].base >= expiry[b] /\ loc'[w].base \in Nat /\ expiry[b] \in Nat
        BY <1>1, <1>3 DEF Later, Today
      <4>3. /\ Owed(Extended(b), together) \in Nat /\ Left(b) \in Nat
            /\ Cardinality(Extended(b) \ together) \in Nat
            /\ Cardinality(Extended(b) \ together) <= Owed(Extended(b), together)
        BY <1>1, <1>4
      <4>. QED BY <4>1, <4>2, <4>3
    <3>. QED BY <3>1, <3>2
  <2>2. loc'[w].base >= Left(b) + Cardinality(Extended(b) \ together')
    <3>1. loc'[w].base \in Nat /\ Left(b) \in Nat
      BY <1>1, <1>3 DEF Later, Today
    <3>2. /\ Cardinality(Extended(b) \ together) \in Nat
          /\ Cardinality(Extended(b) \ together') \in Nat
          /\ Cardinality(Extended(b) \ together') <= Cardinality(Extended(b) \ together)
      BY <1>4
    <3>. QED BY <2>1, <3>1, <3>2
  <2>3. loc'[w].base >= expiry[b]
    BY <1>1, <1>3 DEF Later, Today
  <2>4. ASSUME p \notin together', NEW v \in Workers, v # w, pc'[v] = "extend",
               BuyerOf[job[v]] = b
        PROVE  FALSE
    <3>1. v \in Beside(w)
      BY <1>3, <2>4 DEF Beside
    <3>. QED BY <2>4, <3>1 DEF Reads, Joins
  <2>5. BuyerOf[job'[w]] = b /\ job'[w] = p
    BY <1>3
  <2>. QED BY <1>3, <2>2, <2>3, <2>4, <2>5 DEF WorkerDays
<1>7. ASSUME NEW v \in Workers, v # w, pc'[v] = "extend"
      PROVE  WorkerDays(v, BuyerOf[job[v]])'
  <2>. DEFINE c == BuyerOf[job[v]]
  <2>1. pc[v] = "extend" /\ loc'[v] = loc[v] /\ c \in Buyers
    BY <1>3, <1>7, JobIsPayment
  <2>2. WorkerDays(v, c)
    BY <1>2, <2>1
  <2>3. loc[v].base >= Left(c) + Cardinality(Extended(c) \ together')
    <3>1. loc[v].base \in Nat /\ Left(c) \in Nat
      BY <1>1, <2>1
    <3>2. /\ Cardinality(Extended(c) \ together) \in Nat
          /\ Cardinality(Extended(c) \ together') \in Nat
          /\ Cardinality(Extended(c) \ together') <= Cardinality(Extended(c) \ together)
      BY <1>4, <2>1
    <3>. QED BY <2>2, <3>1, <3>2 DEF WorkerDays
  <2>4. CASE c = b
    <3>1. job[v] \in together'
      <4>1. v \in Beside(w)
        BY <2>1, <2>4 DEF Beside
      <4>. QED BY <4>1 DEF Reads, Joins
    <3>. QED BY <1>3, <2>1, <2>3, <3>1 DEF WorkerDays
  <2>5. CASE c # b
    <3>1. \A u \in Workers : BuyerOf[job[u]] = c => pc'[u] = pc[u]
      BY <1>3, <2>5
    <3>2. /\ Extended(c)' = Extended(c) /\ Left(c)' = Left(c)
          /\ UNCHANGED <<expiry, job>> /\ together \subseteq together'
      BY <1>3, <2>1
    <3>. QED BY <2>1, <2>2, <2>3, <3>1, <3>2 DEF WorkerDays
  <2>. QED BY <2>4, <2>5
<1>. QED BY <1>5, <1>6, <1>7

(* Extending: the new day goes on top of what was read.                    *)
LEMMA AddsDays ==
  ASSUME RowInv, DaysInv, NEW w \in Workers, NEW p \in Payments, NEW b \in Buyers,
         p = job[w], b = BuyerOf[p], pc[w] # "idle", OthersStay(w), Adds(w),
         UNCHANGED start, expiry' \in [Buyers -> Nat]
  PROVE  /\ \A c \in Buyers : BuyerDays(c)'
         /\ \A v \in Workers : pc'[v] = "extend" =>
              job'[v] = job[v] /\ WorkerDays(v, BuyerOf[job[v]])'
<1>1. /\ expiry \in [Buyers -> Nat]
      /\ \A c \in Buyers : /\ start[c].expiry \in Nat /\ Left(c) \in Nat
                           /\ Left(c) >= start[c].expiry /\ Left(c) >= Today
      /\ \A v \in Workers : loc[v].base \in Nat
      /\ applied \in [Payments -> Nat]
  BY ExpiryTypes DEF RowInv, TypeOK
<1>2. /\ \A c \in Buyers : BuyerDays(c)
      /\ \A v \in Workers : pc[v] = "extend" => WorkerDays(v, BuyerOf[job[v]])
  BY DaysParts DEF DaysInv, DaysByParts
<1>3. /\ UNCHANGED together /\ pc'[w] # "extend"
      /\ \A c \in Buyers : Left(c)' = Left(c)
      /\ \A c \in Buyers : c # b => expiry'[c] = expiry[c]
      /\ \A v \in Workers : v # w =>
           pc'[v] = pc[v] /\ job'[v] = job[v] /\ loc'[v] = loc[v]
  BY <1>1 DEF Adds, Left, OthersStay
<1>4. /\ Extended(b)' = Extended(b) \cup {p}
      /\ \A c \in Buyers : c # b => Extended(c)' = Extended(c)
  <2>1. applied'[p] > 0 /\ \A q \in Payments : q # p => applied'[q] = applied[q]
    BY <1>1 DEF Adds
  <2>. QED BY <2>1 DEF Extended
<1>5. /\ IsFiniteSet(Extended(b)) /\ IsFiniteSet(Extended(b)')
      /\ Left(b) \in Nat
      /\ Owed(Extended(b), together) \in Nat /\ Owed(Extended(b)', together) \in Nat
      /\ Cardinality(Extended(b) \ together) \in Nat
      /\ Owed(Extended(b)', together) <= Owed(Extended(b), together) + 1
      /\ p \in together =>
           /\ Extended(b)' \ together = Extended(b) \ together
           /\ Owed(Extended(b)', together) = Cardinality(Extended(b) \ together) + 1
  <2>1. IsFiniteSet(Extended(b)) /\ Left(b) \in Nat
    BY <1>1, <1>2 DEF BuyerDays
  <2>2. /\ Owed(Extended(b), together) \in Nat
        /\ Cardinality(Extended(b) \ together) \in Nat
    BY <2>1, OwedType
  <2>3. /\ IsFiniteSet(Extended(b) \cup {p})
        /\ Owed(Extended(b) \cup {p}, together) \in Nat
        /\ Owed(Extended(b) \cup {p}, together) <= Owed(Extended(b), together) + 1
        /\ p \in together =>
             /\ (Extended(b) \cup {p}) \ together = Extended(b) \ together
             /\ Owed(Extended(b) \cup {p}, together)
                  = Cardinality(Extended(b) \ together) + 1
    BY <2>1, OwedMore
  <2>. QED BY <1>4, <2>1, <2>2, <2>3
<1>6. Extended(b) = {} => Owed(Extended(b), together) = 0
  <2>1. Extended(b) = {} => Extended(b) \ together = {} /\ Extended(b) \cap together = {}
    OBVIOUS
  <2>. QED BY <2>1, FS_EmptySet DEF Owed
<1>7. CASE pc[w] = "create"
  <2>1. /\ account[b] = "none" /\ start[b].expiry = 0 /\ Extended(b) = {}
        /\ \A v \in Workers : pc[v] = "extend" => BuyerOf[job[v]] # b
        /\ expiry'[b] = Today + Days
    BY <1>1, <1>7 DEF Adds, DaysInv, AccountOnce
  <2>2. Left(b) = Today
    BY <2>1 DEF Left, Later, Today
  <2>3. BuyerDays(b)'
    BY <1>1, <1>3, <1>5, <1>6, <2>1, <2>2 DEF BuyerDays, Days, Today
  <2>4. ASSUME NEW c \in Buyers, c # b PROVE BuyerDays(c)'
    BY <1>2, <1>3, <1>4, <2>4 DEF BuyerDays
  <2>5. ASSUME NEW v \in Workers, pc'[v] = "extend"
        PROVE  job'[v] = job[v] /\ WorkerDays(v, BuyerOf[job[v]])'
    <3>1. /\ v # w /\ pc[v] = "extend" /\ job'[v] = job[v] /\ loc'[v] = loc[v]
          /\ BuyerOf[job[v]] \in Buyers /\ BuyerOf[job[v]] # b
      BY <1>3, <2>1, <2>5, JobIsPayment
    <3>2. \A u \in Workers : pc'[u] = "extend" => pc[u] = "extend" /\ job'[u] = job[u]
      BY <1>3
    <3>3. WorkerDays(v, BuyerOf[job[v]])
      BY <1>2, <3>1
    <3>. QED BY <1>3, <1>4, <3>1, <3>2, <3>3, WorkerDaysKept
  <2>. QED BY <2>3, <2>4, <2>5
<1>8. CASE pc[w] = "extend"
  <2>1. WorkerDays(w, b) /\ expiry'[b] = loc[w].base + 1 /\ loc[w].base \in Nat
    BY <1>1, <1>2, <1>8 DEF Adds, Days
  <2>2. expiry'[b] >= Left(b) + Owed(Extended(b)', together)
    <3>1. CASE p \in together
      BY <1>1, <1>5, <2>1, <3>1 DEF WorkerDays
    <3>2. CASE p \notin together /\ Extended(b) = {}
      <4>1. loc[w].base >= Left(b)
        BY <1>1, <1>5, <2>1 DEF WorkerDays
      <4>. QED BY <1>1, <1>5, <1>6, <2>1, <3>2, <4>1
    <3>3. CASE p \notin together /\ Extended(b) # {}
      <4>1. /\ loc[w].base >= expiry[b] /\ expiry[b] \in Nat
            /\ expiry[b] >= Left(b) + Owed(Extended(b), together)
        BY <1>1, <1>2, <2>1, <3>3 DEF WorkerDays, BuyerDays
      <4>. QED BY <1>1, <1>5, <2>1, <4>1
    <3>. QED BY <3>1, <3>2, <3>3
  <2>3. BuyerDays(b)'
    <3>1. expiry'[b] >= start[b].expiry
      BY <1>1, <1>5, <2>1 DEF WorkerDays
    <3>. QED BY <1>3, <1>5, <2>2, <3>1 DEF BuyerDays
  <2>4. ASSUME NEW c \in Buyers, c # b PROVE BuyerDays(c)'
    BY <1>2, <1>3, <1>4, <2>4 DEF BuyerDays
  <2>5. ASSUME NEW v \in Workers, pc'[v] = "extend"
        PROVE  job'[v] = job[v] /\ WorkerDays(v, BuyerOf[job[v]])'
    <3>0. PICK c \in Buyers : c = BuyerOf[job[v]]
      BY <1>2, <1>3, <2>5, JobIsPayment
    <3>1. /\ v # w /\ pc[v] = "extend" /\ job'[v] = job[v] /\ loc'[v] = loc[v]
          /\ WorkerDays(v, c)
      BY <1>2, <1>3, <2>5, <3>0
    <3>2. \A u \in Workers : pc'[u] = "extend" => pc[u] = "extend" /\ job'[u] = job[u]
      BY <1>3
    <3>3. CASE c # b
      <4>1. /\ Left(c)' = Left(c) /\ expiry'[c] = expiry[c]
            /\ Extended(c)' = Extended(c) /\ UNCHANGED together
        BY <1>3, <1>4, <3>3
      <4>. QED BY <3>0, <3>1, <3>2, <4>1, WorkerDaysKept
    <3>4. CASE c = b
      <4>1. job[v] \in together /\ p \in together
        BY <1>8, <2>1, <3>0, <3>1, <3>4 DEF WorkerDays
      <4>. QED BY <1>3, <1>5, <3>0, <3>1, <3>4, <4>1 DEF WorkerDays
    <3>. QED BY <3>3, <3>4
  <2>. QED BY <2>3, <2>4, <2>5
<1>. QED BY <1>7, <1>8 DEF Adds

LEMMA StepDays ==
  ASSUME RowInv, DaysInv, NEW w \in Workers, Step(w)
  PROVE  DaysInv'
<1>p. PICK p \in Payments, b \in Buyers : p = job[w] /\ b = BuyerOf[p]
  BY StepRowEffect
<1>1. /\ pc[w] # "idle" /\ p = job[w] /\ b = BuyerOf[p]
      /\ OthersStay(w) /\ RowEffect(w) /\ (pc'[w] = "idle" \/ job' = job)
      /\ UNCHANGED start
      /\ applied \in [Payments -> Nat] /\ delivered \in [Payments -> BOOLEAN]
      /\ account \in [Buyers -> {"none", "TRIAL", "PAID"}]
  BY <1>p, StepRowEffect, StepPanelEffect DEF RowInv, TypeOK
<1>2. RowInv' /\ expiry' \in [Buyers -> Nat]
  BY StepRowInv DEF RowInv, TypeOK
<1>3. /\ \A q \in Payments : applied[q] > 0 => applied'[q] > 0
      /\ \A c \in Buyers : account[c] # "none" => account'[c] # "none"
      /\ \A q \in Payments : applied[q] = 0 /\ applied'[q] > 0 =>
           q = p /\ account'[b] # "none"
      /\ pc'[w] = "mark" => applied'[p] > 0
      /\ pc'[w] = "extend" => account[b] # "none"
  BY <1>1, DaysSplit DEF Reads, Adds
<1>4. ExtendedFirst'
  <2>1. ASSUME NEW q \in Payments, delivered'[q] PROVE applied'[q] > 0
    <3>1. delivered[q] \/ (q = p /\ pc[w] = "mark")
      BY <1>1, <2>1 DEF RowEffect, SameRow, Moves
    <3>. QED BY <1>1, <1>3, <3>1 DEF DaysInv, ExtendedFirst
  <2>2. ASSUME NEW v \in Workers, pc'[v] = "mark" PROVE applied'[job'[v]] > 0
    <3>1. CASE v = w
      BY <1>1, <1>3, <2>2, <3>1
    <3>2. CASE v # w
      <4>1. pc[v] = "mark" /\ job'[v] = job[v] /\ job[v] \in Payments
        BY <1>1, <2>2, <3>2, JobIsPayment DEF OthersStay
      <4>. QED BY <1>3, <4>1 DEF DaysInv, ExtendedFirst
    <3>. QED BY <3>1, <3>2
  <2>. QED BY <2>1, <2>2 DEF ExtendedFirst
<1>5. AccountOnce'
  <2>. SUFFICES ASSUME NEW c \in Buyers, account'[c] = "none"
                PROVE  /\ start[c].expiry = 0 /\ Extended(c)' = {}
                       /\ \A v \in Workers : pc'[v] = "extend" => BuyerOf[job'[v]] # c
    BY <1>1 DEF AccountOnce
  <2>1. /\ account[c] = "none" /\ start[c].expiry = 0 /\ Extended(c) = {}
        /\ \A v \in Workers : pc[v] = "extend" => BuyerOf[job[v]] # c
    BY <1>1, <1>3 DEF DaysInv, AccountOnce
  <2>2. Extended(c)' = {}
    <3>1. \A q \in Payments : BuyerOf[q] = c => applied[q] = 0
      BY <1>1, <2>1 DEF Extended
    <3>2. \A q \in Payments : BuyerOf[q] = c => ~(applied'[q] > 0)
      BY <1>1, <1>3, <2>1, <3>1
    <3>. QED BY <3>2 DEF Extended
  <2>3. ASSUME NEW v \in Workers, pc'[v] = "extend" PROVE BuyerOf[job'[v]] # c
    BY <1>1, <1>3, <2>1, <2>3 DEF OthersStay
  <2>. QED BY <2>1, <2>2, <2>3
<1>6. /\ \A c \in Buyers : BuyerDays(c)'
      /\ \A v \in Workers : pc'[v] = "extend" =>
           job'[v] = job[v] /\ WorkerDays(v, BuyerOf[job[v]])'
  <2>1. CASE Reads(w)
    <3>1. job' = job
      BY <2>1 DEF Reads
    <3>. QED BY <1>1, <2>1, <3>1, ReadsDays
  <2>2. CASE Adds(w)
    BY <1>1, <1>2, <2>2, AddsDays
  <2>3. CASE UNCHANGED <<account, expiry, applied, together>> /\ pc'[w] # "extend"
    <3>1. /\ \A c \in Buyers : BuyerDays(c)
          /\ \A v \in Workers : pc[v] = "extend" => WorkerDays(v, BuyerOf[job[v]])
      BY DaysParts DEF DaysInv, DaysByParts
    <3>2. \A c : Extended(c)' = Extended(c) /\ Left(c)' = Left(c)
      BY <1>1, <2>3 DEF Extended, Left
    <3>3. \A v \in Workers : pc'[v] = "extend" =>
            pc[v] = "extend" /\ job'[v] = job[v] /\ loc'[v] = loc[v]
      BY <1>1, <2>3 DEF OthersStay
    <3>4. \A c \in Buyers : BuyerDays(c)'
      BY <1>1, <2>3, <3>1, <3>2 DEF BuyerDays
    <3>5. ASSUME NEW v \in Workers, pc'[v] = "extend"
          PROVE  WorkerDays(v, BuyerOf[job[v]])'
      BY <2>3, <3>1, <3>2, <3>3, <3>5 DEF WorkerDays
    <3>. QED BY <3>3, <3>4, <3>5
  <2>. QED BY <2>1, <2>2, <2>3, DaysSplit
<1>7. DaysOnTop'
  <2>1. (RowInv => (DaysOnTop <=> DaysByParts))'
    BY DaysParts, PTL
  <2>2. DaysByParts'
    BY <1>6 DEF DaysByParts
  <2>. QED BY <1>2, <2>1, <2>2
<1>. QED BY <1>4, <1>5, <1>7 DEF DaysInv

(* Unless the account is removed in the panel, the days of every delivered *)
(* payment are on top of what was left of the subscription, of those whose *)
(* extensions overlapped the days of one at least, in any number of        *)
(* processes and whatever else fails.                                      *)
THEOREM DeliveredDaysArrive ==
  ASSUME "removed" \notin Faults PROVE Spec => []PaidDaysArrive
<1>1. Init => DaysInv
  <2>. SUFFICES ASSUME Init PROVE DaysInv
    OBVIOUS
  <2>1. /\ \A b \in Buyers : start[b].expiry = expiry[b] /\ expiry[b] \in {0, 2}
        /\ \A b \in Buyers : account[b] = "none" => expiry[b] = 0
        /\ \A w \in Workers : pc[w] = "idle"
        /\ \A p \in Payments : ~delivered[p]
        /\ \A b : Extended(b) = {}
    BY DEF Init, Today, Extended
  <2>. QED BY <2>1, FS_EmptySet DEF DaysInv, ExtendedFirst, AccountOnce, DaysOnTop
<1>2. RowInv /\ DaysInv /\ [Next]_vars => DaysInv'
  <2>. SUFFICES ASSUME RowInv, DaysInv, [Next]_vars PROVE DaysInv'
    OBVIOUS
  <2>1. ASSUME UNCHANGED <<delivered, account, expiry, start, applied, together>>,
               \A w \in Workers : pc'[w] \in {"extend", "mark"} =>
                 pc'[w] = pc[w] /\ job'[w] = job[w] /\ loc'[w] = loc[w]
        PROVE  DaysInv'
    <3>1. \A b : /\ Extended(b)' = Extended(b) /\ Left(b)' = Left(b)
                 /\ Apart(b)' = Apart(b)
      BY <2>1 DEF Extended, Left, Apart
    <3>2. ExtendedFirst' /\ AccountOnce'
      BY <2>1, <3>1 DEF DaysInv, ExtendedFirst, AccountOnce
    <3>3. DaysOnTop'
      BY <2>1, <3>1 DEF DaysInv, DaysOnTop, DaysDue
    <3>. QED BY <3>2, <3>3 DEF DaysInv
  <2>2. CASE Aside
    BY <2>1, <2>2 DEF Aside
  <2>3. ASSUME NEW r \in Replicas, Crash(r) PROVE DaysInv'
    BY <2>1, <2>3 DEF Crash, rows, outside
  <2>. QED BY <2>2, <2>3, NextSplit, StepDays
<1>3. RowInv /\ DaysInv => PaidDaysArrive
  <2>. SUFFICES ASSUME RowInv, DaysInv, NEW b \in Buyers, DeliveredTo(b) # {}
                PROVE  expiry[b] >= Left(b) + DaysDue(DeliveredTo(b))
    BY DEF PaidDaysArrive
  <2>1. DeliveredTo(b) \subseteq Extended(b)
    BY DEF DeliveredTo, Extended, DaysInv, ExtendedFirst
  <2>2. /\ IsFiniteSet(Extended(b)) /\ expiry[b] \in Nat /\ Left(b) \in Nat
        /\ expiry[b] >= Left(b) + Owed(Extended(b), together)
    BY <2>1, DaysParts, ExpiryTypes DEF DaysInv, DaysByParts, BuyerDays
  <2>3. /\ Owed(DeliveredTo(b), together) \in Nat /\ Owed(Extended(b), together) \in Nat
        /\ Owed(DeliveredTo(b), together) <= Owed(Extended(b), together)
    BY <2>1, <2>2, OwedFewer, OwedType
  <2>4. DaysDue(DeliveredTo(b)) = Owed(DeliveredTo(b), together)
    BY <2>3 DEF DaysDue, Owed, Days
  <2>. QED BY <2>2, <2>3, <2>4
<1>. QED BY <1>1, <1>2, <1>3, RowInvariant, PTL DEF Spec
-----------------------------------------------------------------------------
(* No day that nobody paid for.                                            *)
LEMMA ExtendedPaid ==
  ASSUME OnceInv, NEW b \in Buyers
  PROVE  ExtendedBy(b) \subseteq PaidBy(b)
<1>1. \A p \in Payments : status[p] # "succeeded" => applied[p] = 0
  BY DEF OnceInv, ExtendedWhenMarked
<1>2. \A p \in Payments : applied[p] = 1 => status[p] = "succeeded"
  BY <1>1
<1>. QED BY <1>2 DEF ExtendedBy, PaidBy

LEMMA ExtendedArePaid ==
  ASSUME OnceInv, NEW b \in Buyers, IsFiniteSet(PaidBy(b))
  PROVE  /\ IsFiniteSet(ExtendedBy(b))
         /\ Cardinality(ExtendedBy(b)) \in Nat /\ Cardinality(PaidBy(b)) \in Nat
         /\ Cardinality(ExtendedBy(b)) <= Cardinality(PaidBy(b))
<1>1. ExtendedBy(b) \subseteq PaidBy(b)
  BY ExtendedPaid
<1>2. /\ IsFiniteSet(ExtendedBy(b))
      /\ Cardinality(ExtendedBy(b)) <= Cardinality(PaidBy(b))
  BY <1>1, FS_Subset
<1>. QED BY <1>2, FS_CardinalityType

LEMMA StepPaidFor ==
  ASSUME OnceInv, OneApi, Whole, DaysPaidFor, NEW w \in Workers, Step(w)
  PROVE  DaysPaidFor'
<1>0. RowInv /\ LockInv
  BY DEF OnceInv, LockInv
<1>p. PICK p \in Payments, b \in Buyers : p = job[w] /\ b = BuyerOf[p]
  BY <1>0, StepRowEffect
<1>1. /\ pc[w] # "idle" /\ p = job[w] /\ b = BuyerOf[p]
      /\ OthersStay(w) /\ RowEffect(w)
      /\ pc'[w] = "idle" \/ job' = job
      /\ PanelEffect(w) /\ UNCHANGED start
      /\ status \in [Payments -> Statuses] /\ applied \in [Payments -> Nat]
  BY <1>0, <1>p, StepRowEffect, StepPanelEffect DEF RowInv, TypeOK
<1>2. /\ expiry \in [Buyers -> Nat]
      /\ \A c \in Buyers : Left(c) \in Nat /\ Left(c) >= Today
      /\ \A v \in Workers : loc[v].base \in Nat
  BY <1>0, ExpiryTypes
<1>3. \A c \in Buyers : UNCHANGED Left(c)
  BY <1>1 DEF Left
<1>4. ASSUME NEW c \in Buyers
      PROVE  /\ IsFiniteSet(ExtendedBy(c))
             /\ Cardinality(ExtendedBy(c)) \in Nat
             /\ expiry[c] <= PaidUntil[c] /\ PaidUntil[c] \in Nat
             /\ PaidUntil[c] = Left(c) + Cardinality(ExtendedBy(c))
  <2>1. /\ IsFiniteSet(ExtendedBy(c)) /\ Cardinality(ExtendedBy(c)) \in Nat
    BY ExtendedArePaid DEF DaysPaidFor
  <2>. QED BY <1>2, <2>1 DEF DaysPaidFor, PaidUntil, Days
<1>5. ASSUME NEW c \in Buyers PROVE IsFiniteSet(PaidBy(c)')
  <2>1. PaidBy(c)' \subseteq PaidBy(c) \cup {p}
    BY <1>1 DEF PaidBy, RowEffect, SameRow
  <2>2. IsFiniteSet(PaidBy(c) \cup {p})
    BY FS_AddElement DEF DaysPaidFor
  <2>. QED BY <2>1, <2>2, FS_Subset
(* The days paid for only grow, by those of this payment.                  *)
<1>6. CASE \/ SameAccount /\ UNCHANGED applied /\ pc'[w] # "mark"
           \/ /\ pc[w] = "register" /\ pc'[w] = "idle"
              /\ UNCHANGED <<expiry, applied>>
  <2>1. \A c \in Buyers : expiry'[c] = expiry[c] /\ PaidUntil'[c] = PaidUntil[c]
    BY <1>3, <1>6 DEF PaidUntil, ExtendedBy, SameAccount
  <2>2. ASSUME NEW v \in Workers, v # w, pc'[v] = "extend"
        PROVE  loc'[v].base <= PaidUntil'[BuyerOf[job'[v]]]
    <3>1. pc[v] = "extend" /\ job'[v] = job[v] /\ loc'[v] = loc[v]
      BY <1>1, <2>2 DEF OthersStay
    <3>2. BuyerOf[job[v]] \in Buyers
      BY <1>0, <3>1, JobIsPayment
    <3>. QED BY <2>1, <3>1, <3>2 DEF DaysPaidFor
  <2>3. ASSUME pc'[w] = "extend" PROVE loc'[w].base <= PaidUntil'[BuyerOf[job'[w]]]
    <3>1. loc'[w].base = Later(expiry[b], Today) /\ job' = job
      BY <1>1, <2>3 DEF PanelEffect
    <3>2. Today <= PaidUntil[b] /\ expiry[b] <= PaidUntil[b]
      BY <1>1, <1>2, <1>4 DEF Today
    <3>. QED BY <1>1, <2>1, <3>1, <3>2 DEF Later
  <2>. QED BY <1>5, <2>1, <2>2, <2>3 DEF DaysPaidFor
<1>7. CASE /\ pc'[w] = "mark"
           /\ applied' = [applied EXCEPT ![p] = @ + 1]
           /\ \/ pc[w] = "create" /\ expiry' = [expiry EXCEPT ![b] = Today + Days]
              \/ pc[w] = "extend"
                 /\ expiry' = [expiry EXCEPT ![b] = loc[w].base + Days]
  <2>1. applied[p] = 0 /\ applied'[p] = 1
    BY <1>1, <1>7 DEF OnceInv, ExtendedWhenMarked
  <2>2. /\ ExtendedBy(b)' = ExtendedBy(b) \cup {p} /\ p \notin ExtendedBy(b)
        /\ \A c \in Buyers : c # b => ExtendedBy(c)' = ExtendedBy(c)
    BY <1>1, <1>7, <2>1 DEF ExtendedBy
  <2>3. Cardinality(ExtendedBy(b)') = Cardinality(ExtendedBy(b)) + 1
    <3>1. Cardinality(ExtendedBy(b) \cup {p}) = Cardinality(ExtendedBy(b)) + 1
      BY <1>4, <2>2, FS_AddElement
    <3>. QED BY <2>2, <3>1
  <2>4. /\ PaidUntil'[b] = PaidUntil[b] + 1
        /\ \A c \in Buyers : c # b => PaidUntil'[c] = PaidUntil[c]
    <3>1. PaidUntil'[b] = Left(b) + (Cardinality(ExtendedBy(b)) + 1)
      BY <1>1, <1>2, <1>3, <1>4, <2>3 DEF PaidUntil, Days
    <3>2. \A c \in Buyers : c # b => PaidUntil'[c] = PaidUntil[c]
      BY <1>3, <2>2 DEF PaidUntil
    <3>. QED BY <1>1, <1>2, <1>4, <3>1, <3>2
  <2>5. \A c \in Buyers : expiry'[c] <= PaidUntil'[c] /\ PaidUntil[c] <= PaidUntil'[c]
    <3>1. expiry'[b] <= PaidUntil[b] + 1
      <4>1. Today <= PaidUntil[b]
        BY <1>1, <1>2, <1>4 DEF Today
      <4>2. pc[w] = "extend" => loc[w].base <= PaidUntil[b]
        BY <1>1 DEF DaysPaidFor
      <4>. QED BY <1>1, <1>2, <1>4, <1>7, <4>1, <4>2 DEF Days, Today
    <3>2. ASSUME NEW c \in Buyers, c # b
          PROVE  expiry'[c] <= PaidUntil'[c] /\ PaidUntil[c] <= PaidUntil'[c]
      BY <1>2, <1>4, <1>7, <2>4, <3>2
    <3>. QED BY <1>1, <1>4, <2>4, <3>1, <3>2
  <2>6. ASSUME NEW v \in Workers, pc'[v] = "extend"
        PROVE  loc'[v].base <= PaidUntil'[BuyerOf[job'[v]]]
    <3>1. pc[v] = "extend" /\ job'[v] = job[v] /\ loc'[v] = loc[v]
      BY <1>1, <1>7, <2>6 DEF OthersStay
    <3>2. BuyerOf[job[v]] \in Buyers
      BY <1>0, <3>1, JobIsPayment
    <3>3. loc[v].base <= PaidUntil[BuyerOf[job[v]]]
      BY <3>1 DEF DaysPaidFor
    <3>4. PaidUntil'[BuyerOf[job[v]]] \in Nat
      BY <1>1, <1>4, <2>4, <3>2
    <3>. QED BY <1>2, <1>4, <2>5, <3>1, <3>2, <3>3, <3>4
  <2>. QED BY <1>5, <2>5, <2>6 DEF DaysPaidFor
<1>8. "lost" \notin Faults
  BY DEF Whole
<1>9. UNCHANGED applied \/ (pc[w] \in {"create", "extend"} /\ pc'[w] = "mark")
  BY <1>1, <1>8 DEF RowEffect, SameRow
<1>10. CASE UNCHANGED applied /\ pc'[w] # "mark"
  <2>1. SameAccount \/ (pc[w] = "register" /\ pc'[w] = "idle" /\ UNCHANGED expiry)
    BY <1>1, <1>8, <1>10 DEF PanelEffect
  <2>. QED BY <1>6, <1>10, <2>1
<1>11. CASE pc'[w] = "mark"
  BY <1>1, <1>7, <1>11 DEF PanelEffect
<1>. QED BY <1>9, <1>10, <1>11

(* With one process, and while no answer of the panel is lost and nothing  *)
(* cuts a delivery in half, the days in the panel never exceed those left  *)
(* and those paid for, however notifications, sweeps and the payments of   *)
(* one buyer overlap.                                                      *)
THEOREM OnlyPaidDays ==
  ASSUME OneApi, Whole PROVE Spec => []NoUnpaidDays
<1>. DEFINE Inv == OnceInv /\ DaysPaidFor
<1>1. Init => Inv
  <2>. SUFFICES ASSUME Init PROVE DaysPaidFor
    BY InitOnceInv
  <2>1. RowInv /\ \A b \in Buyers : expiry[b] = start[b].expiry
    BY InitRowInv DEF Init
  <2>2. /\ expiry \in [Buyers -> Nat]
        /\ \A b \in Buyers : Left(b) \in Nat /\ Left(b) >= start[b].expiry
    BY <2>1, ExpiryTypes
  <2>3. ASSUME NEW b \in Buyers
        PROVE  IsFiniteSet(PaidBy(b)) /\ expiry[b] <= PaidUntil[b]
    <3>1. PaidBy(b) = {} /\ ExtendedBy(b) = {}
      BY DEF Init, PaidBy, ExtendedBy
    <3>2. PaidUntil[b] = Left(b)
      <4>1. Cardinality(ExtendedBy(b)) = 0
        BY <3>1, FS_EmptySet
      <4>. QED BY <2>2, <4>1 DEF PaidUntil, Days
    <3>. QED BY <2>1, <2>2, <3>1, <3>2, FS_EmptySet
  <2>. QED BY <2>3 DEF Init, DaysPaidFor
<1>2. Inv /\ [Next]_vars => Inv'
  <2>. SUFFICES ASSUME Inv, [Next]_vars PROVE DaysPaidFor'
    BY NextOnceInv
  <2>0. RowInv
    BY DEF OnceInv, LockInv
  <2>1. ASSUME UNCHANGED <<start, applied>>,
               \A b \in Buyers : expiry'[b] = expiry[b] \/ expiry'[b] = 0,
               \A p \in Payments :
                 status'[p] = "succeeded" => status[p] = "succeeded",
               \A w \in Workers : pc'[w] = "extend" =>
                 pc[w] = "extend" /\ job'[w] = job[w] /\ loc'[w] = loc[w]
        PROVE  DaysPaidFor'
    <3>1. UNCHANGED PaidUntil
      BY <2>1 DEF PaidUntil, Left, ExtendedBy
    <3>2. ASSUME NEW b \in Buyers PROVE IsFiniteSet(PaidBy(b)')
      <4>1. PaidBy(b)' \subseteq PaidBy(b)
        BY <2>1 DEF PaidBy
      <4>. QED BY <4>1, FS_Subset DEF DaysPaidFor
    <3>3. \A b \in Buyers : PaidUntil[b] >= 0
      <4>1. \A b \in Buyers : Cardinality(ExtendedBy(b)) \in Nat /\ Left(b) \in Nat
        BY <2>0, ExpiryTypes, ExtendedArePaid DEF DaysPaidFor
      <4>. QED BY <4>1 DEF PaidUntil, Days
    <3>. QED BY <2>1, <3>1, <3>2, <3>3 DEF DaysPaidFor
  <2>2. CASE Aside
    BY <2>1, <2>2 DEF Aside
  <2>3. CASE \E b \in Buyers : RemoveAccount(b)
    <3>1. \A b \in Buyers : expiry'[b] = expiry[b] \/ expiry'[b] = 0
      BY <2>0, <2>3 DEF RemoveAccount, RowInv, TypeOK
    <3>. QED BY <2>1, <2>3, <3>1 DEF RemoveAccount, rows, local
  <2>4. "crash" \notin Faults
    BY DEF Whole
  <2>. QED BY <2>0, <2>2, <2>3, <2>4, NextSplit, StepPaidFor
<1>3. Inv => NoUnpaidDays
  <2>. SUFFICES ASSUME Inv, NEW b \in Buyers
                PROVE  expiry[b] <= Left(b) + Days * Cardinality(PaidBy(b))
    BY DEF NoUnpaidDays, Left
  <2>1. expiry[b] \in Nat /\ Left(b) \in Nat
    BY ExpiryTypes DEF OnceInv, LockInv
  <2>2. /\ Cardinality(ExtendedBy(b)) \in Nat /\ Cardinality(PaidBy(b)) \in Nat
        /\ Cardinality(ExtendedBy(b)) <= Cardinality(PaidBy(b))
    BY ExtendedArePaid DEF DaysPaidFor
  <2>3. expiry[b] <= Left(b) + Days * Cardinality(ExtendedBy(b))
    BY DEF DaysPaidFor, PaidUntil
  <2>. QED BY <2>1, <2>2, <2>3 DEF Days
<1>. QED BY <1>1, <1>2, <1>3, PTL DEF Spec
-----------------------------------------------------------------------------
(* The first purchase.                                                     *)
LEMMA StepLeaves ==
  ASSUME RowInv, NEW w \in Workers, Step(w), pc'[w] = "idle"
  PROVE  loc'[w] = Blank
<1>1. Finish(w) => loc'[w] = Blank
  BY DEF Finish, RowInv, TypeOK
<1>2. \A stage \in Stages : Goto(w, stage) => stage = "idle"
  BY GotoOthers
<1>3. {"check", "claim", "look", "create", "cabinet", "letter", "register"}
        \subseteq Stages \ {"idle"}
  BY DEF Stages
<1>4. Confirm(w) \/ Check(w) => Finish(w)
  BY <1>2, <1>3 DEF Confirm, AskFailed, Abort, AskCanceled, AskMismatch,
                    AskOther, Claim, Check
<1>5. CreateUser(w) \/ SetExpiry(w) => Finish(w)
  <2>. SUFFICES ASSUME CreateUser(w) \/ SetExpiry(w) PROVE Finish(w)
    OBVIOUS
  <2>1. PICK id \in Nat : Answered(w, id)
    BY ExtensionEffect
  <2>. QED BY <2>1, MarksEffect DEF Answered, Marks
<1>6. ~LookFound(w)
  BY DEF LookFound, RowInv, TypeOK
<1>. QED BY <1>1, <1>2, <1>3, <1>4, <1>5, <1>6
         DEF Step, Deliver, LookNotFound, Abort, PanelFailed,
             Uncaught, MarkDelivered, OpenCabinet, Notify, Register, CabinetFailed, DbFailed

LEMMA StepFirst ==
  ASSUME OnceInv, OneApi, Faults = {}, FirstToCome, NEW w \in Workers, Step(w)
  PROVE  FirstToCome'
<1>. DEFINE tail == {"cabinet", "letter", "register"}
            early == {"idle", "ask", "claim", "check", "look", "create"}
<1>0. RowInv /\ LockInv
  BY DEF OnceInv, LockInv
<1>p. PICK p \in Payments, b \in Buyers : p = job[w] /\ b = BuyerOf[p]
  BY <1>0, StepRowEffect
<1>1. /\ pc[w] # "idle" /\ p = job[w] /\ b = BuyerOf[p]
      /\ OthersStay(w) /\ RowEffect(w)
      /\ pc'[w] = "idle" \/ job' = job
      /\ PanelEffect(w) /\ UNCHANGED start
      /\ account \in [Buyers -> {"none", "TRIAL", "PAID"}]
      /\ delivered \in [Payments -> BOOLEAN]
      /\ reward \in [Payments -> {"none", "first", "renewal"}]
  BY <1>0, <1>p, StepRowEffect, StepPanelEffect DEF RowInv, TypeOK
<1>2. pc'[w] = "idle" => loc'[w].wasPaid = FALSE
  BY <1>0, StepLeaves DEF Blank
(* What the invariant says of this worker.                                 *)
<1>3. /\ pc[w] \in {"extend", "mark"} \cup tail =>
           /\ loc[w].wasPaid => account[b] = "PAID"
           /\ start[b].tag = "PAID" => loc[w].wasPaid
      /\ pc[w] \in early => ~loc[w].wasPaid
      /\ pc[w] = "mark" => account[b] = "PAID" /\ ~delivered[p]
      /\ pc[w] \in tail => delivered[p] /\ reward[p] = "none"
      /\ start[b].tag = "PAID" => account[b] = "PAID"
      /\ reward[p] # "none" => delivered[p]
  BY <1>1 DEF FirstToCome, OnceInv, ExtendedWhenMarked
(* Rewards are given once, deliveries and paid accounts stay.              *)
<1>4. /\ \A q \in Payments : reward'[q] = reward[q]
           \/ /\ q = p /\ pc[w] = "register" /\ pc'[w] = "idle"
              /\ reward'[p] = IF loc[w].wasPaid THEN "renewal" ELSE "first"
      /\ \A c \in Buyers : account'[c] = account[c]
           \/ /\ c = b /\ account'[b] = "PAID" /\ pc'[w] = "mark"
              /\ ~loc'[w].wasPaid \/ account[b] = "PAID"
  <2>1. CASE SameAccount
    BY <2>1 DEF SameAccount
  <2>2. CASE pc[w] = "register"
    BY <1>1, <2>2 DEF PanelEffect, SameAccount
  <2>3. CASE /\ pc[w] = "create" \/ pc[w] = "extend"
             /\ account' = [account EXCEPT ![b] = "PAID"]
             /\ UNCHANGED reward
             /\ pc'[w] = "mark" /\ loc'[w].wasPaid = loc[w].wasPaid
    <3>1. ~loc[w].wasPaid \/ account[b] = "PAID"
      BY <1>3, <2>3
    <3>. QED BY <1>1, <2>3, <3>1
  <2>. QED BY <1>1, <2>1, <2>2, <2>3 DEF PanelEffect
<1>5. \A q \in Payments :
        \/ delivered'[q] = delivered[q]
        \/ q = p /\ pc[w] = "mark" /\ pc'[w] = "cabinet" /\ delivered'[p]
  BY <1>1 DEF RowEffect, SameRow, Moves
<1>6. \A v \in Workers : v # w =>
        /\ pc'[v] = pc[v] /\ job'[v] = job[v] /\ loc'[v] = loc[v]
        /\ pc[v] # "idle" => job[v] \in Payments /\ job[v] # p
  BY <1>0, <1>1, OneWorkerPerPayment, JobIsPayment DEF OthersStay
(* This worker after the step.                                             *)
<1>7. /\ pc'[w] \in {"extend", "mark"} \cup tail =>
           /\ job' = job
           /\ loc'[w].wasPaid => account'[b] = "PAID"
           /\ start[b].tag = "PAID" => loc'[w].wasPaid
      /\ pc'[w] \in early => ~loc'[w].wasPaid
      /\ pc'[w] = "mark" => account'[b] = "PAID"
      /\ pc'[w] \in tail => delivered'[p] /\ reward'[p] = "none"
  <2>1. CASE pc'[w] = "extend"
    <3>1. /\ loc'[w].wasPaid = (account[b] = "PAID") /\ job' = job
          /\ UNCHANGED account
      BY <1>1, <2>1 DEF PanelEffect, SameAccount
    <3>. QED BY <1>3, <2>1, <3>1
  <2>2. CASE pc'[w] = "mark"
    <3>1. /\ pc[w] \in {"create", "extend"} /\ account'[b] = "PAID"
          /\ loc'[w].wasPaid = loc[w].wasPaid /\ job' = job
          /\ pc[w] = "create" => account[b] = "none"
      BY <1>1, <2>2 DEF PanelEffect
    <3>. QED BY <1>3, <2>2, <3>1
  <2>3. CASE pc'[w] \in tail
    <3>1. /\ pc[w] \in {"mark", "cabinet", "letter"} /\ SameAccount
          /\ loc'[w] = loc[w] /\ job' = job
      BY <1>1, <2>3 DEF PanelEffect
    <3>2. delivered'[p] /\ reward'[p] = "none"
      BY <1>1, <1>3, <2>3, <3>1 DEF RowEffect, SameRow, Moves, SameAccount
    <3>. QED BY <1>3, <2>3, <3>1, <3>2 DEF SameAccount
  <2>4. CASE pc'[w] \in early
    BY <1>1, <1>2, <1>3, <2>4 DEF PanelEffect
  <2>5. pc'[w] \in Stages
    BY <1>0, StepRowInv DEF RowInv, TypeOK
  <2>. QED BY <2>1, <2>2, <2>3, <2>4, <2>5 DEF Stages
<1>8. ASSUME NEW v \in Workers
      PROVE  LET c == BuyerOf[job'[v]] IN
             /\ pc'[v] \in {"extend", "mark"} \cup tail =>
                  /\ loc'[v].wasPaid => account'[c] = "PAID"
                  /\ start[c].tag = "PAID" => loc'[v].wasPaid
             /\ pc'[v] \in early => ~loc'[v].wasPaid
             /\ pc'[v] = "mark" => account'[c] = "PAID"
             /\ pc'[v] \in tail => delivered'[job'[v]] /\ reward'[job'[v]] = "none"
  <2>1. CASE v = w
    BY <1>1, <1>7, <2>1
  <2>2. CASE v # w
    <3>1. pc'[v] = pc[v] /\ job'[v] = job[v] /\ loc'[v] = loc[v]
      BY <1>6, <2>2
    <3>2. pc[v] \in early => ~loc[v].wasPaid
      BY DEF FirstToCome
    <3>3. CASE pc[v] \in {"extend", "mark"} \cup tail
      <4>1. PICK q \in Payments, c \in Buyers :
              q = job[v] /\ q # p /\ c = BuyerOf[q]
        BY <1>6, <2>2, <3>3
      <4>2. /\ loc[v].wasPaid => account[c] = "PAID"
            /\ start[c].tag = "PAID" => loc[v].wasPaid
            /\ pc[v] = "mark" => account[c] = "PAID"
            /\ pc[v] \in tail => delivered[q] /\ reward[q] = "none"
        BY <3>3, <4>1 DEF FirstToCome
      <4>3. /\ account[c] = "PAID" => account'[c] = "PAID"
            /\ delivered'[q] = delivered[q] /\ reward'[q] = reward[q]
        BY <1>4, <1>5, <4>1
      <4>. QED BY <3>1, <3>3, <4>1, <4>2, <4>3
    <3>. QED BY <3>1, <3>2, <3>3
  <2>. QED BY <2>1, <2>2
<1>9. ASSUME NEW q \in Payments
      PROVE  /\ delivered'[q] => account'[BuyerOf[q]] = "PAID"
             /\ reward'[q] # "none" => delivered'[q]
             /\ reward'[q] = "first" => start[BuyerOf[q]].tag # "PAID"
  <2>1. /\ delivered[q] => account[BuyerOf[q]] = "PAID"
        /\ reward[q] # "none" => delivered[q]
        /\ reward[q] = "first" => start[BuyerOf[q]].tag # "PAID"
        /\ BuyerOf[q] \in Buyers
    BY DEF FirstToCome
  <2>2. delivered'[q] => account'[BuyerOf[q]] = "PAID"
    BY <1>1, <1>3, <1>4, <1>5, <2>1
  <2>3. reward'[q] # "none" => delivered'[q]
    BY <1>1, <1>3, <1>4, <1>5, <2>1
  <2>4. reward'[q] = "first" => start[BuyerOf[q]].tag # "PAID"
    BY <1>1, <1>3, <1>4, <2>1
  <2>. QED BY <2>2, <2>3, <2>4
<1>10. ASSUME NEW c \in Buyers, start[c].tag # "PAID", account'[c] = "PAID"
       PROVE  \/ \E q \in Payments : BuyerOf[q] = c /\ reward'[q] = "first"
              \/ \E v \in Workers :
                   /\ pc'[v] \in {"mark"} \cup tail /\ ~loc'[v].wasPaid
                   /\ BuyerOf[job'[v]] = c
  <2>1. CASE account[c] # "PAID"
    <3>1. c = b /\ pc'[w] = "mark" /\ ~loc'[w].wasPaid
      BY <1>4, <1>10, <2>1
    <3>. QED BY <1>1, <1>7, <3>1
  <2>2. CASE \E q \in Payments : BuyerOf[q] = c /\ reward[q] = "first"
    <3>1. PICK q \in Payments : BuyerOf[q] = c /\ reward[q] = "first"
      BY <2>2
    <3>2. reward'[q] = "first"
      BY <1>3, <1>4, <3>1
    <3>. QED BY <3>1, <3>2
  <2>3. CASE \E v \in Workers : FirstInHand(v) /\ BuyerOf[job[v]] = c
    <3>1. PICK v \in Workers : FirstInHand(v) /\ BuyerOf[job[v]] = c
      BY <2>3
    <3>2. CASE v # w
      BY <1>6, <3>1, <3>2 DEF FirstInHand
    <3>3. CASE v = w /\ pc[w] # "register"
      <4>1. pc'[w] \in tail /\ loc'[w] = loc[w] /\ job' = job
        BY <1>1, <3>1, <3>3 DEF FirstInHand, PanelEffect
      <4>. QED BY <3>1, <3>3, <4>1 DEF FirstInHand
    <3>4. CASE v = w /\ pc[w] = "register"
      <4>1. reward'[p] = "first"
        BY <1>1, <3>1, <3>4 DEF FirstInHand, PanelEffect
      <4>. QED BY <1>1, <3>1, <3>4, <4>1
    <3>. QED BY <3>2, <3>3, <3>4
  <2>. QED BY <1>10, <2>1, <2>2, <2>3 DEF FirstToCome
<1>11. \A c \in Buyers : start[c].tag = "PAID" => account'[c] = "PAID"
  BY <1>4 DEF FirstToCome
<1>. QED BY <1>1, <1>8, <1>9, <1>10, <1>11 DEF FirstToCome, FirstInHand

(* With one process and while nothing fails, the first purchase of a buyer *)
(* who had not paid is offered to the referral program as such and nobody  *)
(* who had is, however many of the buyer's payments are delivered at once: *)
(* the tag is read before the extension that changes it.                   *)
THEOREM FirstIsOffered ==
  ASSUME OneApi, Faults = {} PROVE Spec => []FirstPurchaseOffered
<1>0. Whole
  BY DEF Whole
<1>. DEFINE Inv == OnceInv /\ FirstToCome
<1>1. Init => Inv
  BY InitOnceInv DEF Init, FirstToCome, FirstInHand, Blank
<1>2. Inv /\ [Next]_vars => Inv'
  <2>. SUFFICES ASSUME Inv, [Next]_vars PROVE FirstToCome'
    BY <1>0, NextOnceInv
  <2>1. CASE Aside
    <3>1. /\ UNCHANGED <<delivered, account, start, reward>>
          /\ \A w \in Workers :
               \/ pc'[w] = pc[w] /\ job'[w] = job[w] /\ loc'[w] = loc[w]
               \/ /\ pc[w] = "idle" /\ pc'[w] = "ask"
                  /\ loc'[w].wasPaid = loc[w].wasPaid
      BY <2>1 DEF Aside
    <3>2. \A w \in Workers : FirstInHand(w) =>
            FirstInHand(w)' /\ job'[w] = job[w]
      BY <3>1 DEF FirstInHand
    <3>3. ASSUME NEW b \in Buyers, start[b].tag # "PAID", account[b] = "PAID"
          PROVE  \/ \E p \in Payments : BuyerOf[p] = b /\ reward[p] = "first"
                 \/ \E w \in Workers : FirstInHand(w)' /\ BuyerOf[job'[w]] = b
      BY <3>2, <3>3 DEF FirstToCome
    <3>. QED BY <3>1, <3>3 DEF FirstToCome
  <2>. QED BY <2>1, NextSplit, StepFirst DEF OnceInv, LockInv
<1>3. Inv => FirstPurchaseOffered
  <2>. SUFFICES ASSUME Inv, NEW b \in Buyers, start[b].tag # "PAID",
                       NEW q \in Payments, BuyerOf[q] = b, delivered[q],
                       \A p \in Payments : BuyerOf[p] = b => Idle(p)
                PROVE  \E p \in Payments : BuyerOf[p] = b /\ reward[p] = "first"
    BY DEF FirstToCome, FirstPurchaseOffered
  <2>1. account[b] = "PAID"
    BY DEF FirstToCome
  <2>2. ASSUME NEW w \in Workers, FirstInHand(w) PROVE BuyerOf[job[w]] # b
    <3>1. job[w] \in Payments
      BY <2>2, JobIsPayment DEF FirstInHand, OnceInv, LockInv
    <3>. QED BY <3>1 DEF Idle
  <2>. QED BY <2>1, <2>2 DEF FirstToCome
<1>. QED BY <1>1, <1>2, <1>3, PTL DEF Spec
=============================================================================
