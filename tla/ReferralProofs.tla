--------------------------- MODULE ReferralProofs ---------------------------
(***************************************************************************)
(* RewardInv is an invariant of Referral for any number of friends,        *)
(* registrars, workers and administrators, whatever fails.  A worker is    *)
(* disturbed by the others only in ways its stage allows for: they add     *)
(* marks and extensions, never take them away, and make no row held again. *)
(* On it rest that a held row has been tried by nobody (Untried), the cap  *)
(* (CapInv) and that nobody is extended twice but by a fault (GivenInv).   *)
(***************************************************************************)
EXTENDS Referral, FiniteSetTheorems, TLAPS

(* What a step of anybody may do to a row another worker has copied.       *)
Monotone == \A r \in Rewards :
  /\ status[r] # "none" => status'[r] # "none" /\ generous'[r] = generous[r]
  /\ status'[r] = "held" => status[r] \in {"held", "none"}
  /\ friendMark[r] => friendMark'[r]
  /\ inviterMark[r] => inviterMark'[r]
  /\ friendGot'[r] >= friendGot[r] /\ inviterGot'[r] >= inviterGot[r]

LEMMA OthersKeep ==
  ASSUME TypeOK, Monotone, NEW w \in Workers, WorkerOK(w),
         TypeOK', pc'[w] = pc[w], job'[w] = job[w], loc'[w] = loc[w]
  PROVE  WorkerOK(w)'
<1>1. CASE pc[w] = "idle"
  BY <1>1 DEF WorkerOK, Inside
<1>2. CASE pc[w] # "idle"
  <2>. DEFINE r == job[w]
  <2>1. r \in Rewards /\ status[r] # "none"
    BY <1>2 DEF WorkerOK
  <2>2. /\ status'[r] # "none" /\ generous'[r] = generous[r]
        /\ status'[r] = "held" => status[r] = "held"
        /\ friendMark[r] => friendMark'[r]
        /\ inviterMark[r] => inviterMark'[r]
        /\ friendGot[r] > 0 => friendGot'[r] > 0
        /\ inviterGot[r] > 0 => inviterGot'[r] > 0
    BY <2>1 DEF Monotone, TypeOK
  <2>. QED BY <2>1, <2>2 DEF WorkerOK, Inside, OwesFriend, OwesInviter, Kind
<1>. QED BY <1>1, <1>2

LEMMA RewardsFinite == IsFiniteSet(Rewards)
<1>1. IsFiniteSet(Friends) /\ IsFiniteSet(Renewing)
  BY FriendsAssumption, FS_Subset
<1>2. IsFiniteSet({"first"}) /\ IsFiniteSet({"renewal"})
  BY FS_Singleton
<1>3. IsFiniteSet(Friends \X {"first"}) /\ IsFiniteSet(Renewing \X {"renewal"})
  BY <1>1, <1>2, FS_Product
<1>. QED BY <1>3, FS_Union DEF Rewards

LEMMA WrittenCounted == Cardinality(Written) \in Nat
<1>1. Written \in SUBSET Rewards
  BY DEF Written
<1>. QED BY <1>1, RewardsFinite, FS_Subset, FS_CardinalityType

(* The rows somebody else does not touch.                                  *)
LEMMA RowsKept ==
  ASSUME NEW r \in Rewards, RowOK(r),
         UNCHANGED <<status[r], generous[r], friendMark[r], inviterMark[r],
                     friendGot[r], inviterGot[r]>>
  PROVE  RowOK(r)'
BY DEF RowOK, Kind

LEMMA InitRewardInv == Init => RewardInv
<1>. SUFFICES ASSUME Init PROVE RewardInv
  OBVIOUS
<1>1. NoCopy \in Copies /\ NoPlan \in Plans /\ NoRequest \in Requests
  BY DEF NoCopy, NoPlan, NoRequest, Copies, Plans, Requests, Statuses
<1>2. TypeOK
  BY <1>1, BoundsAssumption DEF Init, TypeOK, Statuses, Stages
<1>3. Placed
  BY DEF Init, Placed, Written, NoPlan, NoRequest
<1>4. \A r \in Rewards : RowOK(r)
  BY DEF Init, RowOK
<1>5. \A w \in Workers : WorkerOK(w)
  BY DEF Init, WorkerOK, Inside
<1>. QED BY <1>2, <1>3, <1>4, <1>5 DEF RewardInv
-----------------------------------------------------------------------------
(* Steps that leave the rows alone and move no worker.                     *)
LEMMA NothingWorked ==
  ASSUME RewardInv, TypeOK', Placed', UNCHANGED <<status, generous, friendMark,
         inviterMark, friendGot, inviterGot, pc, job, loc>>
  PROVE  RewardInv'
<1>1. \A r \in Rewards : RowOK(r)'
  BY RowsKept DEF RewardInv
<1>2. \A w \in Workers : WorkerOK(w)'
  <2>1. Monotone
    BY DEF Monotone, RewardInv, TypeOK
  <2>. QED BY <2>1, OthersKeep DEF RewardInv
<1>. QED BY <1>1, <1>2 DEF RewardInv

LEMMA RegisterStep ==
  ASSUME RewardInv, NEW g \in Registrars, NEW r \in Rewards, Register(g, r)
  PROVE  RewardInv'
<1>. DEFINE plan == [NoPlan EXCEPT !.at = "panel", !.on = r]
<1>1. plan \in Plans
  BY DEF NoPlan, Plans
<1>2. TypeOK'
  BY <1>1 DEF RewardInv, TypeOK, Register, rows, got, working
<1>3. Placed'
  BY <1>1 DEF RewardInv, TypeOK, Placed, Register, rows, got, working, Written, NoPlan
<1>. QED BY <1>2, <1>3, NothingWorked DEF Register, rows, got, working

LEMMA PlanStep ==
  ASSUME RewardInv, NEW g \in Registrars, Validate(g) \/ Count(g) \/ RegisterFailed(g)
  PROVE  RewardInv'
<1>1. \E plan \in Plans : /\ reg' = [reg EXCEPT ![g] = plan]
                          /\ plan.at # "idle" => plan.on = reg[g].on /\ reg[g].at # "idle"
                          /\ plan.at = "insert" => plan.as # "none"
  <2>1. NoPlan \in Plans /\ NoPlan.at = "idle"
    BY DEF NoPlan, Plans
  <2>2. reg[g] \in Plans
    BY DEF RewardInv, TypeOK
  <2>3. CASE Validate(g)
    <3>1. /\ [reg[g] EXCEPT !.at = "count", !.generous = TRUE] \in Plans
          /\ [reg[g] EXCEPT !.at = "insert", !.as = "pending"] \in Plans
      BY <2>2 DEF Plans
    <3>2. CASE reg' = [reg EXCEPT ![g] = NoPlan]
      BY <3>2, <2>1
    <3>3. CASE reg' = [reg EXCEPT ![g].at = "count", ![g].generous = TRUE]
      <4>. DEFINE plan == [reg[g] EXCEPT !.at = "count", !.generous = TRUE]
      <4>1. plan.on = reg[g].on /\ (plan.at = "insert" => plan.as # "none")
        BY <2>2 DEF Plans
      <4>2. reg' = [reg EXCEPT ![g] = plan]
        BY <3>3
      <4>. QED BY <2>3, <3>1, <4>1, <4>2 DEF Validate
    <3>4. CASE reg' = [reg EXCEPT ![g].at = "insert", ![g].as = "pending"]
      <4>. DEFINE plan == [reg[g] EXCEPT !.at = "insert", !.as = "pending"]
      <4>1. plan.on = reg[g].on /\ (plan.at = "insert" => plan.as # "none")
        BY <2>2 DEF Plans
      <4>2. reg' = [reg EXCEPT ![g] = plan]
        BY <3>4
      <4>. QED BY <2>3, <3>1, <4>1, <4>2 DEF Validate
    <3>. QED BY <2>3, <3>2, <3>3, <3>4 DEF Validate
  <2>4. CASE Count(g)
    <3>. DEFINE as == IF Cardinality(Counted) >= Cap THEN "held" ELSE "pending"
                plan == [reg[g] EXCEPT !.at = "insert", !.as = as]
    <3>1. plan \in Plans /\ plan.on = reg[g].on /\ plan.as # "none"
      BY <2>2 DEF Plans
    <3>2. reg' = [reg EXCEPT ![g] = plan] /\ reg[g].at = "count"
      BY <2>4 DEF Count
    <3>. QED BY <3>1, <3>2
  <2>5. CASE RegisterFailed(g)
    BY <2>5, <2>1 DEF RegisterFailed
  <2>. QED BY <2>3, <2>4, <2>5
<1>2. /\ UNCHANGED <<rows, ripe, got, working, scheduled, queue, admin, released>>
      /\ faults' \in 0..MaxFaults
  <2>1. faults \in 0..MaxFaults /\ MaxFaults \in Nat
    BY BoundsAssumption DEF RewardInv, TypeOK
  <2>. QED BY <2>1 DEF Validate, Count, RegisterFailed, Fault
<1>3. TypeOK'
  BY <1>1, <1>2 DEF RewardInv, TypeOK, rows, got, working
<1>4. Placed'
  BY <1>1, <1>2 DEF RewardInv, TypeOK, Placed, rows, got, working, Written
<1>. QED BY <1>2, <1>3, <1>4, NothingWorked DEF rows, got, working
-----------------------------------------------------------------------------
LEMMA Step ==
  ASSUME RewardInv, NEW w \in Workers, TypeOK', Placed', Monotone,
         \A v \in Workers \ {w} : UNCHANGED <<pc[v], job[v], loc[v]>>,
         WorkerOK(w)', \A r \in Rewards : RowOK(r)'
  PROVE  RewardInv'
<1>1. \A v \in Workers : WorkerOK(v)'
  BY OthersKeep DEF RewardInv
<1>. QED BY <1>1 DEF RewardInv

(* The working variables keep their types, and only w moves.               *)
Moves(w) ==
  /\ pc' \in [Workers -> Stages]
  /\ job' \in [Workers -> Rewards \cup {NoReward}]
  /\ loc' \in [Workers -> Copies]
  /\ zamok' \in [Workers -> Objects \cup {NoLock}]
  /\ locks' \in [Rewards -> Objects \cup {NoLock}]
  /\ \A v \in Workers \ {w} : UNCHANGED <<pc[v], job[v], loc[v]>>

LEMMA LeaveMoves ==
  ASSUME TypeOK, NEW w \in Workers, NEW forget \in BOOLEAN, Leave(w, forget)
  PROVE  Moves(w) /\ pc'[w] = "idle"
<1>1. NoCopy \in Copies
  BY DEF NoCopy, Copies, Statuses
<1>2. locks' \in [Rewards -> Objects \cup {NoLock}]
  BY DEF Leave, TypeOK
<1>. QED BY <1>1, <1>2 DEF Leave, Moves, TypeOK, Stages

LEMMA GotoMoves ==
  ASSUME TypeOK, NEW w \in Workers, NEW stage \in Stages, NEW copy \in Copies,
         Goto(w, stage, copy)
  PROVE  Moves(w) /\ pc'[w] = stage /\ job'[w] = job[w] /\ loc'[w] = copy
BY DEF Goto, Moves, TypeOK

(* Where process() goes by its copy, nothing is owed that comes before.    *)
LEMMA ProceedMoves ==
  ASSUME TypeOK, NEW w \in Workers, NEW copy \in Copies, Proceed(w, copy)
  PROVE  /\ Moves(w)
         /\ \/ pc'[w] = "idle"
            \/ /\ job'[w] = job[w] /\ loc'[w] = copy
               /\ pc'[w] \in {"friend", "inviter", "finish"}
               /\ pc'[w] # "friend" => copy.status # "held" /\ ~OwesFriend(job[w], copy)
               /\ pc'[w] = "finish" => ~OwesInviter(job[w], copy)
<1>1. {"friend", "inviter", "finish"} \subseteq Stages
  BY DEF Stages
<1>2. CASE OwesFriend(job[w], copy)
  BY <1>1, <1>2, GotoMoves DEF Proceed
<1>3. CASE ~OwesFriend(job[w], copy) /\ copy.status = "held"
  BY <1>3, LeaveMoves DEF Proceed
<1>4. CASE ~OwesFriend(job[w], copy) /\ copy.status # "held" /\ OwesInviter(job[w], copy)
  BY <1>1, <1>4, GotoMoves DEF Proceed
<1>5. CASE ~OwesFriend(job[w], copy) /\ copy.status # "held" /\ ~OwesInviter(job[w], copy)
  BY <1>1, <1>5, GotoMoves DEF Proceed
<1>. QED BY <1>2, <1>3, <1>4, <1>5
-----------------------------------------------------------------------------
LEMMA InsertStep ==
  ASSUME RewardInv, NEW g \in Registrars, Insert(g)
  PROVE  RewardInv'
<1>. DEFINE r == reg[g].on
<1>1. /\ r \in Rewards /\ reg[g] \in Plans /\ NoPlan \in Plans /\ NoPlan.at = "idle"
  <2>1. reg[g].at = "insert"
    BY DEF Insert
  <2>2. r \in Rewards
    BY <2>1 DEF RewardInv, Placed
  <2>3. reg[g] \in Plans
    BY DEF RewardInv, TypeOK
  <2>. QED BY <2>2, <2>3 DEF NoPlan, Plans
<1>3. UNCHANGED <<friendMark, inviterMark, attempts, ripe, got, working, queue, admin,
                  released, faults>>
  BY DEF Insert
<1>4. /\ reg' = [reg EXCEPT ![g] = NoPlan]
      /\ reg' \in [Registrars -> Plans]
  BY <1>1 DEF Insert, RewardInv, TypeOK
<1>5. CASE status[r] # "none"
  <2>1. UNCHANGED <<status, generous, born, scheduled>>
    BY <1>5 DEF Insert
  <2>2. TypeOK'
    BY <1>3, <1>4, <2>1 DEF RewardInv, TypeOK, got, working
  <2>3. Placed'
    BY <1>1, <1>3, <1>4, <2>1 DEF RewardInv, TypeOK, Placed, got, working, Written
  <2>. QED BY <1>3, <2>1, <2>2, <2>3, NothingWorked DEF got, working
<1>6. CASE status[r] = "none"
  <2>. DEFINE p == reg[g]
  <2>1. /\ status' = [status EXCEPT ![r] = p.as]
        /\ generous' = [generous EXCEPT ![r] = p.generous]
        /\ born' = [born EXCEPT ![r] = Cardinality(Written) + 1]
        /\ scheduled' = [scheduled EXCEPT ![r] = @ + 1]
    BY <1>6 DEF Insert
  <2>2. p.as \in {"pending", "held"} /\ p.generous \in BOOLEAN
    BY <1>1 DEF RewardInv, Placed, Insert, Plans
  <2>3. TypeOK'
    <3>1. Cardinality(Written) + 1 \in Nat
      BY WrittenCounted
    <3>. QED BY <1>1, <1>3, <1>4, <2>1, <2>2, <3>1
      DEF RewardInv, TypeOK, got, working, Statuses
  <2>4. status' \in [Rewards -> Statuses] /\ status'[r] # "none"
        /\ \A q \in Rewards : q # r => status'[q] = status[q] /\ generous'[q] = generous[q]
    BY <1>1, <2>1, <2>2, <2>3 DEF RewardInv, TypeOK
  <2>5. Placed'
    BY <1>1, <1>3, <1>4, <2>1, <2>4 DEF RewardInv, TypeOK, Placed, Written
  <2>6. Monotone
    BY <1>1, <1>3, <1>6, <2>1, <2>4 DEF Monotone, RewardInv, TypeOK, got
  <2>7. \A q \in Rewards : RowOK(q)'
    <3>. SUFFICES ASSUME NEW q \in Rewards PROVE RowOK(q)'
      OBVIOUS
    <3>1. CASE q = r
      BY <1>1, <1>3, <1>6, <2>1, <2>2, <3>1 DEF RowOK, RewardInv, TypeOK, got, Kind
    <3>2. CASE q # r
      BY <1>3, <2>4, <3>2, RowsKept DEF RewardInv, got
    <3>. QED BY <3>1, <3>2
  <2>8. \A w \in Workers : WorkerOK(w)'
    BY <1>3, <2>3, <2>6, OthersKeep DEF RewardInv, working
  <2>. QED BY <2>3, <2>5, <2>7, <2>8 DEF RewardInv
<1>. QED BY <1>5, <1>6
-----------------------------------------------------------------------------
LEMMA RipenStep ==
  ASSUME RewardInv, Ripen
  PROVE  RewardInv'
<1>1. TypeOK'
  BY DEF RewardInv, TypeOK, Ripen, rows, got, working
<1>2. Placed'
  BY DEF RewardInv, Placed, Ripen, rows, got, working, Written
<1>. QED BY <1>1, <1>2, NothingWorked DEF Ripen, rows, got, working

LEMMA SweepStep ==
  ASSUME RewardInv, BeginSweep
  PROVE  RewardInv'
<1>1. Due \subseteq Written /\ Written \subseteq Rewards
  BY DEF Due, Written
<1>2. TypeOK'
  BY <1>1 DEF RewardInv, TypeOK, BeginSweep, rows, got, working
<1>3. Placed'
  BY <1>1 DEF RewardInv, Placed, BeginSweep, rows, got, working, Written
<1>. QED BY <1>2, <1>3, NothingWorked DEF BeginSweep, rows, got, working

(* A worker that opens a reward which is there waits for the lock.         *)
LEMMA OpenMoves ==
  ASSUME TypeOK, NEW w \in Workers, NEW r \in Rewards, Open(w, r)
  PROVE  Moves(w) /\ pc'[w] = "wait" /\ job'[w] = r
<1>1. /\ zamok' \in [Workers -> Objects \cup {NoLock}]
      /\ locks' \in [Rewards -> Objects \cup {NoLock}]
  <2>1. CASE locks[r] # NoLock
    BY <2>1 DEF Open, TypeOK
  <2>2. CASE locks[r] = NoLock
    <3>1. Unused # {} => (CHOOSE o \in Unused : TRUE) \in Unused
      OBVIOUS
    <3>2. Unused \subseteq Objects
      BY DEF Unused
    <3>. DEFINE o == CHOOSE u \in Unused : TRUE
    <3>3. /\ o \in Objects
          /\ locks' = [locks EXCEPT ![r] = o]
          /\ zamok' = [zamok EXCEPT ![w] = o]
      BY <2>2, <3>1, <3>2 DEF Open, NewLock
    <3>. HIDE DEF o
    <3>. QED BY <3>3 DEF TypeOK
  <2>. QED BY <2>1, <2>2
<1>2. pc' \in [Workers -> Stages] /\ job' \in [Workers -> Rewards \cup {NoReward}]
  BY DEF Open, TypeOK, Stages
<1>. QED BY <1>1, <1>2 DEF Open, Moves, TypeOK

(* Whoever opens a row changes none.                                       *)
LEMMA OpenKeeps ==
  ASSUME RewardInv, NEW w \in Workers, NEW r \in Rewards, Open(w, r), status[r] # "none",
         TypeOK', Placed', UNCHANGED <<rows, got>>
  PROVE  RewardInv'
<1>1. Moves(w) /\ pc'[w] = "wait" /\ job'[w] = r
  BY OpenMoves DEF RewardInv
<1>2. WorkerOK(w)'
  BY <1>1 DEF WorkerOK, Inside, rows
<1>3. Monotone
  BY DEF Monotone, RewardInv, TypeOK, rows, got
<1>4. \A q \in Rewards : RowOK(q)'
  BY RowsKept DEF RewardInv, rows, got
<1>. QED BY <1>1, <1>2, <1>3, <1>4, Step DEF Moves

LEMMA StartTaskStep ==
  ASSUME RewardInv, NEW w \in Workers, NEW r \in Rewards, StartTask(w, r)
  PROVE  RewardInv'
<1>1. Moves(w) /\ Open(w, r)
  BY OpenMoves DEF RewardInv, StartTask
<1>2. status[r] # "none"
  BY DEF RewardInv, Placed, StartTask
<1>3. scheduled' \in [Rewards -> Nat] /\ \A q \in Rewards : scheduled'[q] <= scheduled[q]
  BY DEF RewardInv, TypeOK, StartTask
<1>4. UNCHANGED <<rows, ripe, got, queue, reg, admin, released, faults>>
  BY DEF StartTask
<1>5. TypeOK'
  BY <1>1, <1>3, <1>4 DEF RewardInv, TypeOK, Moves, rows, got
<1>6. Placed'
  BY <1>3, <1>4 DEF RewardInv, TypeOK, Placed, Written, rows
<1>. QED BY <1>1, <1>2, <1>4, <1>5, <1>6, OpenKeeps

LEMMA VisitStep ==
  ASSUME RewardInv, NEW r \in Rewards, Visit(r)
  PROVE  RewardInv'
<1>0. Sweeper \in Workers
  BY WorkersAssumption
<1>1. Moves(Sweeper) /\ Open(Sweeper, r)
  BY <1>0, OpenMoves DEF RewardInv, Visit
<1>2. status[r] # "none"
  BY DEF RewardInv, Placed, Written, Visit
<1>3. queue' \subseteq queue
  BY DEF Visit
<1>4. UNCHANGED <<rows, ripe, got, scheduled, reg, admin, released, faults>>
  BY DEF Visit
<1>5. TypeOK'
  BY <1>1, <1>3, <1>4 DEF RewardInv, TypeOK, Moves, rows, got
<1>6. Placed'
  BY <1>3, <1>4 DEF RewardInv, TypeOK, Placed, Written, rows
<1>. QED BY <1>0, <1>1, <1>2, <1>4, <1>5, <1>6, OpenKeeps
-----------------------------------------------------------------------------
(* What is about to be worked on stays there when no row goes away.        *)
LEMMA PlacedKept ==
  ASSUME RewardInv, UNCHANGED <<scheduled, queue, reg, admin>>,
         \A r \in Rewards : status[r] # "none" => status'[r] # "none"
  PROVE  Placed'
BY DEF RewardInv, TypeOK, Placed, Written

LEMMA IdleOK ==
  ASSUME NEW w \in Workers, pc'[w] = "idle"
  PROVE  WorkerOK(w)'
BY DEF WorkerOK, Inside

LEMMA ProceedOK ==
  ASSUME RewardInv, NEW w \in Workers, NEW copy \in Copies, Proceed(w, copy),
         pc[w] # "idle", UNCHANGED generous, status'[job[w]] # "none",
         copy.friendMark => friendMark'[job[w]],
         copy.inviterMark => inviterMark'[job[w]],
         copy.status # "held" => status'[job[w]] # "held"
  PROVE  WorkerOK(w)'
<1>. DEFINE r == job[w]
<1>1. r \in Rewards
  BY DEF RewardInv, WorkerOK
<1>2. CASE pc'[w] = "idle"
  BY <1>2, IdleOK
<1>3. CASE pc'[w] # "idle"
  <2>1. /\ job'[w] = r /\ loc'[w] = copy
        /\ pc'[w] \in {"friend", "inviter", "finish"}
        /\ pc'[w] # "friend" => copy.status # "held" /\ ~OwesFriend(r, copy)
        /\ pc'[w] = "finish" => ~OwesInviter(r, copy)
    BY <1>3, ProceedMoves DEF RewardInv
  <2>2. pc'[w] # "friend" => ~OwesFriend(job[w], loc[w])'
    BY <2>1 DEF OwesFriend
  <2>3. pc'[w] = "finish" => ~OwesInviter(job[w], loc[w])'
    BY <2>1 DEF OwesInviter
  <2>. QED BY <1>1, <2>1, <2>2, <2>3 DEF WorkerOK, Inside
<1>. QED BY <1>2, <1>3

LEMMA EnterStep ==
  ASSUME RewardInv, NEW w \in Workers, Enter(w)
  PROVE  RewardInv'
<1>. DEFINE r == job[w]
            copy == [status |-> status[r], friendMark |-> friendMark[r],
                     inviterMark |-> inviterMark[r], attempts |-> attempts[r]]
<1>1. pc[w] = "wait" /\ r \in Rewards /\ status[r] # "none"
  BY DEF RewardInv, WorkerOK, Enter
<1>2. UNCHANGED <<rows, ripe, got, scheduled, queue, reg, admin, released, faults>>
  BY DEF Enter
<1>3. Moves(w) /\ WorkerOK(w)'
  <2>1. CASE status[r] \in {"pending", "held"}
    <3>1. copy \in Copies
      BY <1>1 DEF RewardInv, TypeOK, Copies
    <3>2. Proceed(w, copy)
      BY <2>1 DEF Enter
    <3>3. /\ UNCHANGED generous /\ status'[r] # "none"
          /\ copy.friendMark => friendMark'[r]
          /\ copy.inviterMark => inviterMark'[r]
          /\ copy.status # "held" => status'[r] # "held"
      BY <1>1, <1>2 DEF rows
    <3>. HIDE DEF copy
    <3>4. Moves(w)
      BY <3>1, <3>2, ProceedMoves DEF RewardInv
    <3>5. WorkerOK(w)'
      BY <1>1, <3>1, <3>2, <3>3, ProceedOK
    <3>. QED BY <3>4, <3>5
  <2>2. CASE status[r] \notin {"pending", "held"}
    <3>1. Leave(w, TRUE)
      BY <2>2 DEF Enter
    <3>. QED BY <3>1, LeaveMoves, IdleOK DEF RewardInv
  <2>. QED BY <2>1, <2>2
<1>4. TypeOK'
  BY <1>2, <1>3 DEF RewardInv, TypeOK, Moves, rows, got
<1>5. Placed'
  BY <1>2, PlacedKept DEF rows
<1>6. Monotone
  BY <1>2 DEF Monotone, RewardInv, TypeOK, rows, got
<1>7. \A q \in Rewards : RowOK(q)'
  BY <1>2, RowsKept DEF RewardInv, rows, got
<1>. QED BY <1>3, <1>4, <1>5, <1>6, <1>7, Step DEF Moves

(* A worker extends a subscription for a row it may extend it for.         *)
LEMMA ExtendedKeeps ==
  ASSUME RewardInv, NEW w \in Workers, Extended(w)
  PROVE  /\ job[w] \in Rewards /\ status[job[w]] # "none"
         /\ pc[w] \in {"friend", "inviter"}
         /\ friendGot' \in [Rewards -> Nat] /\ inviterGot' \in [Rewards -> Nat]
         /\ pc[w] = "friend" => friendGot'[job[w]] > 0
         /\ pc[w] = "inviter" => inviterGot'[job[w]] > 0
         /\ \A r \in Rewards : /\ friendGot'[r] >= friendGot[r]
                               /\ inviterGot'[r] >= inviterGot[r]
                               /\ status[r] \in {"none", "held"} => inviterGot'[r] = inviterGot[r]
<1>1. pc[w] \in {"friend", "inviter"}
  BY DEF Extended
<1>2. job[w] \in Rewards /\ status[job[w]] # "none"
      /\ (pc[w] = "inviter" => status[job[w]] # "held")
  BY <1>1 DEF RewardInv, WorkerOK, Inside
<1>3. CASE pc[w] = "friend"
  BY <1>2, <1>3 DEF Extended, RewardInv, TypeOK
<1>4. CASE pc[w] = "inviter"
  BY <1>2, <1>4 DEF Extended, RewardInv, TypeOK
<1>. QED BY <1>1, <1>2, <1>3, <1>4

LEMMA GrantStep ==
  ASSUME RewardInv, NEW w \in Workers, Grant(w)
  PROVE  RewardInv'
<1>. DEFINE stage == IF pc[w] = "friend" THEN "friendSave" ELSE "inviterSave"
<1>1. UNCHANGED <<rows, ripe, scheduled, queue, reg, admin, released, faults>>
  BY DEF Grant
<1>2. Extended(w) /\ Goto(w, stage, loc[w])
  BY DEF Grant
<1>3. stage \in Stages /\ loc[w] \in Copies
  BY DEF RewardInv, TypeOK, Stages
<1>4. Moves(w) /\ pc'[w] = stage /\ job'[w] = job[w] /\ loc'[w] = loc[w]
  BY <1>2, <1>3, GotoMoves DEF RewardInv
<1>5. TypeOK'
  BY <1>1, <1>2, <1>4, ExtendedKeeps DEF RewardInv, TypeOK, Moves, rows
<1>6. Placed'
  BY <1>1, PlacedKept DEF rows
<1>7. Monotone
  BY <1>1, <1>2, ExtendedKeeps DEF Monotone, rows
<1>8. \A r \in Rewards : RowOK(r)'
  <2>. SUFFICES ASSUME NEW r \in Rewards PROVE RowOK(r)'
    OBVIOUS
  <2>1. /\ friendGot'[r] >= friendGot[r] /\ inviterGot'[r] >= inviterGot[r]
        /\ status[r] \in {"none", "held"} => inviterGot'[r] = inviterGot[r]
        /\ friendGot'[r] \in Nat /\ inviterGot'[r] \in Nat
    BY <1>2, ExtendedKeeps
  <2>2. friendGot[r] \in Nat /\ inviterGot[r] \in Nat /\ RowOK(r)
    BY DEF RewardInv, TypeOK
  <2>. QED BY <1>1, <2>1, <2>2 DEF RowOK, rows, Kind
<1>9. WorkerOK(w)'
  <2>1. WorkerOK(w)
    BY DEF RewardInv
  <2>2. CASE pc[w] = "friend"
    BY <1>1, <1>2, <1>4, <2>1, <2>2, ExtendedKeeps DEF WorkerOK, Inside, rows
  <2>3. CASE pc[w] = "inviter"
    BY <1>1, <1>2, <1>4, <2>1, <2>3, ExtendedKeeps
       DEF WorkerOK, Inside, rows, OwesFriend, Kind
  <2>. QED BY <1>2, <2>2, <2>3, ExtendedKeeps
<1>. QED BY <1>4, <1>5, <1>6, <1>7, <1>8, <1>9, Step DEF Moves
-----------------------------------------------------------------------------
(* Steps after which w is idle and the rows have changed at most in a way  *)
(* each of them allows.                                                    *)
LEMMA IdleStep ==
  ASSUME RewardInv, NEW w \in Workers, NEW forget \in BOOLEAN, Leave(w, forget),
         UNCHANGED <<generous, born, ripe, scheduled, queue, reg, admin, released>>,
         faults' \in 0..MaxFaults,
         status' \in [Rewards -> Statuses], attempts' \in [Rewards -> Nat],
         friendMark' \in [Rewards -> BOOLEAN], inviterMark' \in [Rewards -> BOOLEAN],
         friendGot' \in [Rewards -> Nat], inviterGot' \in [Rewards -> Nat],
         Monotone, \A r \in Rewards : RowOK(r)'
  PROVE  RewardInv'
<1>1. Moves(w) /\ pc'[w] = "idle"
  BY LeaveMoves DEF RewardInv
<1>2. TypeOK'
  BY <1>1 DEF RewardInv, TypeOK, Moves
<1>3. Placed'
  BY PlacedKept DEF Monotone
<1>. QED BY <1>1, <1>2, <1>3, IdleOK, Step DEF Moves

(* A failed attempt leaves the row as it was, or gives it up.              *)
LEMMA RecordKeeps ==
  ASSUME RewardInv, NEW w \in Workers, RecordFailure(w), job[w] \in Rewards,
         status[job[w]] # "none"
  PROVE  /\ \E forget \in BOOLEAN : Leave(w, forget)
         /\ status' \in [Rewards -> Statuses] /\ attempts' \in [Rewards -> Nat]
         /\ \A r \in Rewards : \/ status'[r] = status[r]
                               \/ status'[r] = "failed" /\ status[r] # "none"
<1>. DEFINE tries == loc[w].attempts + 1
<1>1. tries \in Nat
  BY DEF RewardInv, TypeOK, Copies
<1>2. (tries >= MaxAttempts) \in BOOLEAN
  OBVIOUS
<1>3. Leave(w, tries >= MaxAttempts)
  BY DEF RecordFailure
<1>4. /\ attempts' = [attempts EXCEPT ![job[w]] = tries]
      /\ status' = IF tries >= MaxAttempts THEN [status EXCEPT ![job[w]] = "failed"] ELSE status
  BY DEF RecordFailure
<1>. HIDE DEF tries
<1>5. status' \in [Rewards -> Statuses] /\ attempts' \in [Rewards -> Nat]
  BY <1>1, <1>4 DEF RewardInv, TypeOK, Statuses
<1>6. \A r \in Rewards : \/ status'[r] = status[r]
                         \/ status'[r] = "failed" /\ status[r] # "none"
  BY <1>4 DEF RewardInv, TypeOK
<1>. QED BY <1>2, <1>3, <1>5, <1>6

LEMMA GrantFailedStep ==
  ASSUME RewardInv, NEW w \in Workers, GrantFailed(w)
  PROVE  RewardInv'
<1>1. job[w] \in Rewards /\ status[job[w]] # "none"
  BY DEF RewardInv, WorkerOK, GrantFailed
<1>2. /\ UNCHANGED <<generous, friendMark, inviterMark, born, ripe, got, scheduled, queue, reg,
                     admin, released, faults>>
      /\ RecordFailure(w)
  BY DEF GrantFailed
<1>3. /\ status' \in [Rewards -> Statuses] /\ attempts' \in [Rewards -> Nat]
      /\ \A r \in Rewards : \/ status'[r] = status[r]
                            \/ status'[r] = "failed" /\ status[r] # "none"
  BY <1>1, <1>2, RecordKeeps
<1>4. Monotone
  BY <1>2, <1>3 DEF Monotone, RewardInv, TypeOK, got
<1>5. \A r \in Rewards : RowOK(r)'
  BY <1>2, <1>3 DEF RowOK, RewardInv, TypeOK, got, Kind
<1>6. PICK forget \in BOOLEAN : Leave(w, forget)
  BY <1>1, <1>2, RecordKeeps
<1>. QED BY <1>2, <1>3, <1>4, <1>5, <1>6, IdleStep DEF RewardInv, TypeOK, got

LEMMA AnswerLostStep ==
  ASSUME RewardInv, NEW w \in Workers, AnswerLost(w)
  PROVE  RewardInv'
<1>1. Extended(w) /\ RecordFailure(w)
  BY DEF AnswerLost
<1>2. /\ UNCHANGED <<generous, friendMark, inviterMark, born, ripe, scheduled, queue, reg,
                     admin, released>>
      /\ faults' \in 0..MaxFaults
  <2>1. faults \in 0..MaxFaults /\ MaxFaults \in Nat
    BY BoundsAssumption DEF RewardInv, TypeOK
  <2>. QED BY <2>1 DEF AnswerLost, Fault
<1>3. /\ job[w] \in Rewards /\ status[job[w]] # "none"
      /\ friendGot' \in [Rewards -> Nat] /\ inviterGot' \in [Rewards -> Nat]
      /\ \A r \in Rewards : /\ friendGot'[r] >= friendGot[r]
                            /\ inviterGot'[r] >= inviterGot[r]
                            /\ status[r] \in {"none", "held"} => inviterGot'[r] = inviterGot[r]
  BY <1>1, ExtendedKeeps
<1>4. /\ status' \in [Rewards -> Statuses] /\ attempts' \in [Rewards -> Nat]
      /\ \A r \in Rewards : \/ status'[r] = status[r]
                            \/ status'[r] = "failed" /\ status[r] # "none"
  BY <1>1, <1>3, RecordKeeps
<1>5. Monotone
  BY <1>2, <1>3, <1>4 DEF Monotone
<1>6. \A r \in Rewards : RowOK(r)'
  <2>. SUFFICES ASSUME NEW r \in Rewards PROVE RowOK(r)'
    OBVIOUS
  <2>1. friendGot[r] \in Nat /\ inviterGot[r] \in Nat /\ RowOK(r)
    BY DEF RewardInv, TypeOK
  <2>. QED BY <1>2, <1>3, <1>4, <2>1 DEF RowOK, Kind
<1>7. PICK forget \in BOOLEAN : Leave(w, forget)
  BY <1>1, <1>3, RecordKeeps
<1>. QED BY <1>2, <1>3, <1>4, <1>5, <1>6, <1>7, IdleStep DEF RewardInv, TypeOK

(* A mark is set after the extension it tells of.                          *)
LEMMA MarkedKeeps ==
  ASSUME RewardInv, NEW w \in Workers, Marked(w)
  PROVE  /\ pc[w] \in {"friendSave", "inviterSave"}
         /\ job[w] \in Rewards /\ status[job[w]] # "none"
         /\ friendMark' \in [Rewards -> BOOLEAN] /\ inviterMark' \in [Rewards -> BOOLEAN]
         /\ pc[w] = "friendSave" => friendMark'[job[w]]
         /\ pc[w] = "inviterSave" => inviterMark'[job[w]]
         /\ \A r \in Rewards : /\ friendMark[r] => friendMark'[r]
                               /\ inviterMark[r] => inviterMark'[r]
                               /\ friendMark'[r] => friendGot[r] > 0
                               /\ inviterMark'[r] => inviterGot[r] > 0
<1>1. pc[w] \in {"friendSave", "inviterSave"}
  BY DEF Marked
<1>2. /\ job[w] \in Rewards /\ status[job[w]] # "none"
      /\ pc[w] = "friendSave" => friendGot[job[w]] > 0
      /\ pc[w] = "inviterSave" => inviterGot[job[w]] > 0
  BY <1>1 DEF RewardInv, WorkerOK
<1>3. \A r \in Rewards : /\ friendMark[r] => friendGot[r] > 0
                         /\ inviterMark[r] => inviterGot[r] > 0
  BY DEF RewardInv, RowOK
<1>4. CASE pc[w] = "friendSave"
  BY <1>2, <1>3, <1>4 DEF Marked, RewardInv, TypeOK
<1>5. CASE pc[w] = "inviterSave"
  BY <1>2, <1>3, <1>5 DEF Marked, RewardInv, TypeOK
<1>. QED BY <1>1, <1>2, <1>4, <1>5

LEMMA SaveMarkStep ==
  ASSUME RewardInv, NEW w \in Workers, SaveMark(w)
  PROVE  RewardInv'
<1>. DEFINE r == job[w]
            copy == [loc[w] EXCEPT !.friendMark = @ \/ pc[w] = "friendSave",
                                   !.inviterMark = @ \/ pc[w] = "inviterSave"]
<1>1. /\ UNCHANGED <<status, generous, attempts, born, ripe, got, scheduled, queue, reg,
                     admin, released, faults>>
      /\ Marked(w) /\ Proceed(w, copy)
  BY DEF SaveMark
<1>2. /\ pc[w] \in {"friendSave", "inviterSave"} /\ r \in Rewards /\ status[r] # "none"
      /\ friendMark' \in [Rewards -> BOOLEAN] /\ inviterMark' \in [Rewards -> BOOLEAN]
      /\ pc[w] = "friendSave" => friendMark'[r]
      /\ pc[w] = "inviterSave" => inviterMark'[r]
      /\ \A q \in Rewards : /\ friendMark[q] => friendMark'[q]
                            /\ inviterMark[q] => inviterMark'[q]
                            /\ friendMark'[q] => friendGot[q] > 0
                            /\ inviterMark'[q] => inviterGot[q] > 0
  BY <1>1, MarkedKeeps
<1>3. /\ loc[w] \in Copies
      /\ loc[w].friendMark => friendMark[r]
      /\ loc[w].inviterMark => inviterMark[r]
      /\ loc[w].status # "held" => status[r] # "held"
  BY <1>2 DEF RewardInv, TypeOK, WorkerOK, Inside
<1>4. /\ copy \in Copies /\ copy.status = loc[w].status
      /\ copy.friendMark = (loc[w].friendMark \/ pc[w] = "friendSave")
      /\ copy.inviterMark = (loc[w].inviterMark \/ pc[w] = "inviterSave")
  BY <1>3 DEF Copies
<1>. HIDE DEF copy
<1>5. Moves(w)
  BY <1>1, <1>4, ProceedMoves DEF RewardInv
<1>6. /\ copy.friendMark => friendMark'[r]
      /\ copy.inviterMark => inviterMark'[r]
      /\ copy.status # "held" => status'[r] # "held"
  BY <1>1, <1>2, <1>3, <1>4
<1>7. WorkerOK(w)'
  BY <1>1, <1>2, <1>4, <1>6, ProceedOK
<1>8. TypeOK'
  BY <1>1, <1>2, <1>5 DEF RewardInv, TypeOK, Moves, got
<1>9. Placed'
  BY <1>1, PlacedKept
<1>10. Monotone
  BY <1>1, <1>2 DEF Monotone, RewardInv, TypeOK, got
<1>11. \A q \in Rewards : RowOK(q)'
  BY <1>1, <1>2 DEF RowOK, RewardInv, got, Kind
<1>. QED BY <1>5, <1>7, <1>8, <1>9, <1>10, <1>11, Step DEF Moves

(* A worker at its end owes nothing, so the row may be granted.            *)
LEMMA FinishKeeps ==
  ASSUME RewardInv, NEW w \in Workers, pc[w] = "finish",
         status' = [status EXCEPT ![job[w]] = "granted"],
         UNCHANGED <<generous, friendMark, inviterMark, got>>
  PROVE  /\ status' \in [Rewards -> Statuses]
         /\ Monotone /\ \A r \in Rewards : RowOK(r)'
<1>. DEFINE r == job[w]
<1>1. /\ r \in Rewards /\ status[r] # "none"
      /\ loc[w].friendMark => friendMark[r]
      /\ loc[w].inviterMark => inviterMark[r]
      /\ ~OwesFriend(r, loc[w]) /\ ~OwesInviter(r, loc[w])
  BY DEF RewardInv, WorkerOK, Inside
<1>2. status' \in [Rewards -> Statuses]
  BY DEF RewardInv, TypeOK, Statuses
<1>3. /\ status'[r] = "granted"
      /\ \A q \in Rewards : q # r => status'[q] = status[q]
  BY <1>1 DEF RewardInv, TypeOK
<1>4. Monotone
  BY <1>1, <1>3 DEF Monotone, RewardInv, TypeOK, got
<1>5. \A q \in Rewards : RowOK(q)'
  <2>. SUFFICES ASSUME NEW q \in Rewards PROVE RowOK(q)'
    OBVIOUS
  <2>1. RowOK(q)
    BY DEF RewardInv
  <2>2. CASE q = r
    BY <1>1, <1>3, <2>1, <2>2 DEF RowOK, OwesFriend, OwesInviter, Kind, got
  <2>3. CASE q # r
    BY <1>3, <2>1, <2>3 DEF RowOK, Kind, got
  <2>. QED BY <2>2, <2>3
<1>. QED BY <1>2, <1>4, <1>5

LEMMA FinishStep ==
  ASSUME RewardInv, NEW w \in Workers, Finish(w)
  PROVE  RewardInv'
<1>1. /\ UNCHANGED <<generous, friendMark, inviterMark, attempts, born, ripe, got, scheduled,
                     queue, reg, admin, released, faults>>
      /\ Leave(w, TRUE)
  BY DEF Finish
<1>2. /\ status' \in [Rewards -> Statuses]
      /\ Monotone /\ \A r \in Rewards : RowOK(r)'
  BY <1>1, FinishKeeps DEF Finish
<1>. QED BY <1>1, <1>2, IdleStep DEF RewardInv, TypeOK, got

LEMMA SaveFailedStep ==
  ASSUME RewardInv, NEW w \in Workers, SaveFailed(w)
  PROVE  RewardInv'
<1>1. /\ UNCHANGED <<generous, attempts, born, ripe, got, scheduled, queue, reg, admin, released>>
      /\ faults' \in 0..MaxFaults
  <2>1. faults \in 0..MaxFaults /\ MaxFaults \in Nat
    BY BoundsAssumption DEF RewardInv, TypeOK
  <2>. QED BY <2>1 DEF SaveFailed, Fault
<1>2. PICK forget \in BOOLEAN : Leave(w, forget)
  BY DEF SaveFailed
<1>3. /\ status' \in [Rewards -> Statuses]
      /\ friendMark' \in [Rewards -> BOOLEAN] /\ inviterMark' \in [Rewards -> BOOLEAN]
      /\ Monotone /\ \A r \in Rewards : RowOK(r)'
  <2>1. CASE UNCHANGED <<status, friendMark, inviterMark>>
    <3>1. Monotone
      BY <1>1, <2>1 DEF Monotone, RewardInv, TypeOK, got
    <3>2. \A r \in Rewards : RowOK(r)'
      BY <1>1, <2>1, RowsKept DEF RewardInv, got
    <3>. QED BY <2>1, <3>1, <3>2 DEF RewardInv, TypeOK
  <2>2. CASE Marked(w) /\ UNCHANGED status
    <3>1. Monotone
      BY <1>1, <2>2, MarkedKeeps DEF Monotone, RewardInv, TypeOK, got
    <3>2. \A r \in Rewards : RowOK(r)'
      <4>1. \A r \in Rewards : /\ friendMark[r] => friendMark'[r]
                               /\ inviterMark[r] => inviterMark'[r]
                               /\ friendMark'[r] => friendGot[r] > 0
                               /\ inviterMark'[r] => inviterGot[r] > 0
        BY <2>2, MarkedKeeps
      <4>. QED BY <1>1, <2>2, <4>1 DEF RowOK, RewardInv, got, Kind
    <3>. QED BY <2>2, <3>1, <3>2, MarkedKeeps DEF RewardInv, TypeOK
  <2>3. CASE /\ pc[w] = "finish"
             /\ status' = [status EXCEPT ![job[w]] = "granted"]
             /\ UNCHANGED <<friendMark, inviterMark>>
    BY <1>1, <2>3, FinishKeeps DEF RewardInv, TypeOK
  <2>. QED BY <2>1, <2>2, <2>3 DEF SaveFailed
<1>. QED BY <1>1, <1>2, <1>3, IdleStep DEF RewardInv, TypeOK, got
-----------------------------------------------------------------------------
LEMMA AdminReadStep ==
  ASSUME RewardInv, NEW a \in Admins, NEW r \in Rewards, AdminRead(a, r)
  PROVE  RewardInv'
<1>1. \E req \in Requests : /\ admin' = [admin EXCEPT ![a] = req]
                            /\ req.on = r /\ ~req.also
  <2>1. \E at \in {"release", "cascade", "reject"} :
          admin' = [admin EXCEPT ![a] = [NoRequest EXCEPT !.at = at, !.on = r]]
    BY DEF AdminRead
  <2>2. PICK at \in {"release", "cascade", "reject"} :
          admin' = [admin EXCEPT ![a] = [NoRequest EXCEPT !.at = at, !.on = r]]
    BY <2>1
  <2>. DEFINE req == [NoRequest EXCEPT !.at = at, !.on = r]
  <2>3. req \in Requests /\ req.on = r /\ ~req.also
    BY DEF NoRequest, Requests
  <2>. QED BY <2>2, <2>3
<1>2. status[r] # "none"
  BY DEF AdminRead, Rejectable
<1>3. UNCHANGED <<rows, ripe, got, working, scheduled, queue, reg, released, faults>>
  BY DEF AdminRead
<1>4. TypeOK'
  BY <1>1, <1>3 DEF RewardInv, TypeOK, rows, got, working
<1>5. Placed'
  BY <1>1, <1>2, <1>3 DEF RewardInv, TypeOK, Placed, rows, Written
<1>. QED BY <1>3, <1>4, <1>5, NothingWorked DEF rows, got, working

LEMMA CascadeStep ==
  ASSUME RewardInv, NEW a \in Admins, Cascade(a)
  PROVE  RewardInv'
<1>. DEFINE also == \E q \in Rewards : q = RenewalOf(admin[a].on) /\ status[q] \in Rejectable
            req == [admin[a] EXCEPT !.at = "reject", !.also = also]
<1>1. admin[a] \in Requests
  BY DEF RewardInv, TypeOK
<1>2. also \in BOOLEAN
  OBVIOUS
<1>3. admin' = [admin EXCEPT ![a] = req]
  BY DEF Cascade
<1>4. also => RenewalOf(admin[a].on) \in Rewards /\ status[RenewalOf(admin[a].on)] # "none"
  BY DEF Rejectable
<1>5. admin[a].on \in Rewards /\ status[admin[a].on] # "none"
  BY DEF RewardInv, Placed, Cascade
<1>. HIDE DEF also
<1>6. req \in Requests /\ req.on = admin[a].on /\ req.also = also
  BY <1>1, <1>2 DEF Requests
<1>. HIDE DEF req
<1>7. UNCHANGED <<rows, ripe, got, working, scheduled, queue, reg, released, faults>>
  BY DEF Cascade
<1>8. TypeOK'
  BY <1>3, <1>6, <1>7 DEF RewardInv, TypeOK, rows, got, working
<1>9. Placed'
  BY <1>3, <1>4, <1>5, <1>6, <1>7 DEF RewardInv, TypeOK, Placed, rows, Written
<1>. QED BY <1>7, <1>8, <1>9, NothingWorked DEF rows, got, working

LEMMA ReleaseStep ==
  ASSUME RewardInv, NEW a \in Admins, Release(a)
  PROVE  RewardInv'
<1>. DEFINE r == admin[a].on
<1>1. r \in Rewards /\ status[r] # "none"
  BY DEF RewardInv, Placed, Release
<1>2. NoRequest \in Requests /\ NoRequest.at = "idle" /\ ~NoRequest.also
  BY DEF NoRequest, Requests
<1>3. /\ status' = [status EXCEPT ![r] = "pending"]
      /\ scheduled' = [scheduled EXCEPT ![r] = @ + 1]
      /\ released' = released \cup {r}
      /\ admin' = [admin EXCEPT ![a] = NoRequest]
      /\ UNCHANGED <<generous, friendMark, inviterMark, attempts, born, ripe, got, working,
                     queue, reg, faults>>
  BY DEF Release
<1>4. TypeOK'
  BY <1>1, <1>2, <1>3 DEF RewardInv, TypeOK, got, working, Statuses
<1>5. \A q \in Rewards : status'[q] = IF q = r THEN "pending" ELSE status[q]
  BY <1>1, <1>3 DEF RewardInv, TypeOK
<1>6. Placed'
  BY <1>1, <1>2, <1>3, <1>5 DEF RewardInv, TypeOK, Placed, Written
<1>7. Monotone
  BY <1>1, <1>3, <1>5 DEF Monotone, RewardInv, TypeOK, got
<1>8. \A q \in Rewards : RowOK(q)'
  BY <1>3, <1>5 DEF RowOK, RewardInv, got, Kind
<1>9. \A w \in Workers : WorkerOK(w)'
  BY <1>3, <1>4, <1>7, OthersKeep DEF RewardInv, working
<1>. QED BY <1>4, <1>6, <1>8, <1>9 DEF RewardInv

LEMMA RejectStep ==
  ASSUME RewardInv, NEW a \in Admins, Reject(a)
  PROVE  RewardInv'
<1>. DEFINE r == admin[a].on
            Hit(q) == q = r \/ (admin[a].also /\ q = RenewalOf(r))
<1>1. \A q \in Rewards : Hit(q) => status[q] # "none"
  BY DEF RewardInv, Placed, Reject
<1>2. NoRequest \in Requests /\ NoRequest.at = "idle" /\ ~NoRequest.also
  BY DEF NoRequest, Requests
<1>3. /\ status' = [q \in Rewards |-> IF Hit(q) THEN "rejected" ELSE status[q]]
      /\ admin' = [admin EXCEPT ![a] = NoRequest]
      /\ UNCHANGED <<generous, friendMark, inviterMark, attempts, born, ripe, got, working,
                     scheduled, queue, reg, released, faults>>
  BY DEF Reject
<1>. HIDE DEF Hit
<1>4. TypeOK'
  BY <1>2, <1>3 DEF RewardInv, TypeOK, got, working, Statuses
<1>5. \A q \in Rewards : status'[q] = IF Hit(q) THEN "rejected" ELSE status[q]
  BY <1>3
<1>6. Placed'
  BY <1>1, <1>2, <1>3, <1>5 DEF RewardInv, TypeOK, Placed, Written
<1>7. Monotone
  BY <1>1, <1>3, <1>5 DEF Monotone, RewardInv, TypeOK, got
<1>8. \A q \in Rewards : RowOK(q)'
  BY <1>1, <1>3, <1>5 DEF RowOK, RewardInv, got, Kind
<1>9. \A w \in Workers : WorkerOK(w)'
  BY <1>3, <1>4, <1>7, OthersKeep DEF RewardInv, working
<1>. QED BY <1>4, <1>6, <1>8, <1>9 DEF RewardInv

LEMMA CrashStep ==
  ASSUME RewardInv, Crash
  PROVE  RewardInv'
<1>1. NoCopy \in Copies /\ NoPlan \in Plans /\ NoRequest \in Requests
  BY DEF NoCopy, NoPlan, NoRequest, Copies, Plans, Requests, Statuses
<1>2. faults' \in 0..MaxFaults
  BY BoundsAssumption DEF Crash, Fault, RewardInv, TypeOK
<1>3. TypeOK'
  BY <1>1, <1>2 DEF RewardInv, TypeOK, Crash, rows, got, Stages
<1>4. Placed'
  BY DEF Placed, Crash, rows, Written, NoPlan, NoRequest
<1>5. \A r \in Rewards : RowOK(r)'
  BY RowsKept DEF RewardInv, Crash, rows, got
<1>6. \A w \in Workers : WorkerOK(w)'
  BY IdleOK DEF Crash
<1>. QED BY <1>3, <1>4, <1>5, <1>6 DEF RewardInv
-----------------------------------------------------------------------------
LEMMA NextRewardInv == RewardInv /\ [Next]_vars => RewardInv'
<1>. SUFFICES ASSUME RewardInv, [Next]_vars PROVE RewardInv'
  OBVIOUS
<1>1. ASSUME NEW g \in Registrars, Registering(g) PROVE RewardInv'
  BY <1>1, RegisterStep, PlanStep, InsertStep DEF Registering
<1>2. ASSUME NEW w \in Workers, Work(w) PROVE RewardInv'
  BY <1>2, EnterStep, GrantStep, GrantFailedStep, AnswerLostStep, SaveMarkStep, FinishStep,
     SaveFailedStep DEF Work
<1>3. ASSUME NEW a \in Admins, Administering(a) PROVE RewardInv'
  BY <1>3, AdminReadStep, CascadeStep, ReleaseStep, RejectStep DEF Administering
<1>4. CASE UNCHANGED vars
  <2>1. TypeOK'
    BY <1>4 DEF RewardInv, TypeOK, vars, rows, got, working
  <2>2. Placed'
    BY <1>4 DEF RewardInv, Placed, Written, vars, rows
  <2>. QED BY <1>4, <2>1, <2>2, NothingWorked DEF vars, rows, got, working
<1>. QED BY <1>1, <1>2, <1>3, <1>4, StartTaskStep, VisitStep, RipenStep, SweepStep, CrashStep
     DEF Next

(* RewardInv holds in every state of every behaviour, for any number of    *)
(* friends, registrars, workers and administrators and any faults.         *)
THEOREM RewardInvariant == Spec => []RewardInv
BY InitRewardInv, NextRewardInv, PTL DEF Spec

(* Type correctness of the rewards model.                                  *)
THEOREM RewardTypeOK == Spec => []TypeOK
<1>1. RewardInv => TypeOK
  BY DEF RewardInv
<1>. QED BY <1>1, RewardInvariant, PTL

(* While a reward is held over the cap, process() of referral.py has given *)
(* the inviter nothing for it, whatever administrators and sweeps do.      *)
THEOREM RewardHeldWaits == Spec => []HeldWaits
<1>1. RewardInv => HeldWaits
  BY DEF RewardInv, HeldWaits, RowOK
<1>. QED BY <1>1, RewardInvariant, PTL

(* A row process() has marked granted has been given to the friend and to  *)
(* an inviter who is due days, and both marks tell of it.                  *)
THEOREM RewardGrantedMeansGiven == Spec => []GrantedMeansGiven
<1>1. RewardInv => GrantedMeansGiven
  BY DEF RewardInv, GrantedMeansGiven, RowOK, Kind
<1>. QED BY <1>1, RewardInvariant, PTL
-----------------------------------------------------------------------------
(* Nobody comes to a row at rest: those who wait for its lock find it      *)
(* settled, and administrators read it before they aim at it.              *)
Rests(r) == AtRest(r)' /\ status'[r] = status[r]

(* A worker leaves, or stays on its reward; the others do not move.        *)
LEMMA WorkMoves ==
  ASSUME TypeOK, NEW w \in Workers, Work(w)
  PROVE  /\ \A v \in Workers : v # w => pc'[v] = pc[v] /\ job'[v] = job[v]
         /\ pc'[w] = "idle" \/ job'[w] = job[w]
         /\ UNCHANGED admin
<1>. USE DEF TypeOK
<1>1. \A forget : Leave(w, forget) =>
        /\ \A v \in Workers : v # w => pc'[v] = pc[v] /\ job'[v] = job[v]
        /\ pc'[w] = "idle"
  BY DEF Leave
<1>2. \A stage, copy : Goto(w, stage, copy) =>
        /\ \A v \in Workers : v # w => pc'[v] = pc[v] /\ job'[v] = job[v]
        /\ job'[w] = job[w]
  BY DEF Goto
<1>3. \A copy : Proceed(w, copy) =>
        \/ \E forget : Leave(w, forget)
        \/ \E stage : Goto(w, stage, copy)
  BY DEF Proceed
<1>4. \/ \E forget : Leave(w, forget)
      \/ \E stage, copy : Goto(w, stage, copy)
  <2>1. CASE Enter(w)
    BY <2>1, <1>3 DEF Enter
  <2>2. CASE Grant(w) \/ Finish(w) \/ SaveFailed(w)
    BY <2>2 DEF Grant, Finish, SaveFailed
  <2>3. CASE GrantFailed(w) \/ AnswerLost(w)
    BY <2>3 DEF GrantFailed, AnswerLost, RecordFailure
  <2>4. CASE SaveMark(w)
    BY <2>4, <1>3 DEF SaveMark
  <2>. QED BY <2>1, <2>2, <2>3, <2>4 DEF Work
<1>5. UNCHANGED admin
  BY DEF Work, Enter, Grant, GrantFailed, AnswerLost, SaveMark, Finish, SaveFailed
<1>. QED BY <1>1, <1>2, <1>4, <1>5

LEMMA WorkRests ==
  ASSUME RewardInv, NEW r \in Rewards, AtRest(r), NEW w \in Workers, Work(w)
  PROVE  Rests(r)
<1>0. TypeOK
  BY DEF RewardInv
<1>1. CASE job[w] = r
  <2>1. ~Inside(w)
    BY <1>1 DEF AtRest
  <2>2. Enter(w)
    BY <2>1, <1>0 DEF Work, Inside, Grant, GrantFailed, AnswerLost, SaveMark, Finish,
                      SaveFailed, Extended, Marked
  <2>3. UNCHANGED <<status, admin>> /\ Leave(w, TRUE)
    BY <1>1, <2>2 DEF Enter, AtRest, rows
  <2>4. /\ pc'[w] = "idle"
        /\ \A v \in Workers : v # w => pc'[v] = pc[v] /\ job'[v] = job[v]
    BY <1>0, <2>3 DEF Leave, TypeOK
  <2>. QED BY <2>3, <2>4 DEF Rests, AtRest, Inside
<1>2. CASE job[w] # r
  <2>1. status'[r] = status[r]
    BY <1>0, <1>2 DEF Work, Enter, Grant, GrantFailed, AnswerLost, SaveMark, Finish,
       SaveFailed, RecordFailure, rows, TypeOK
  <2>2. /\ \A v \in Workers : v # w => pc'[v] = pc[v] /\ job'[v] = job[v]
        /\ pc'[w] = "idle" \/ job'[w] = job[w]
        /\ UNCHANGED admin
    BY <1>0, WorkMoves
  <2>. QED BY <1>2, <2>1, <2>2 DEF Rests, AtRest, Inside
<1>. QED BY <1>1, <1>2

(* A worker that takes a reward up waits for its lock first.               *)
LEMMA OpenRests ==
  ASSUME RewardInv, NEW r \in Rewards, AtRest(r), NEW w \in Workers,
         NEW q \in Rewards, Open(w, q), UNCHANGED <<status, admin>>
  PROVE  Rests(r)
<1>1. /\ pc' = [pc EXCEPT ![w] = "wait"]
      /\ job' = [job EXCEPT ![w] = q]
  BY DEF Open
<1>2. pc'[w] = "wait" /\ \A v \in Workers : v # w => pc'[v] = pc[v] /\ job'[v] = job[v]
  BY <1>1 DEF RewardInv, TypeOK
<1>. QED BY <1>2 DEF Rests, AtRest, Inside

LEMMA AdminRests ==
  ASSUME RewardInv, NEW r \in Rewards, AtRest(r), NEW a \in Admins, Administering(a)
  PROVE  Rests(r)
<1>0. admin \in [Admins -> Requests] /\ status \in [Rewards -> Statuses]
  BY DEF RewardInv, TypeOK
<1>1. UNCHANGED <<pc, job>>
  BY DEF Administering, AdminRead, Cascade, Release, Reject, working
<1>2. status'[r] = status[r]
  BY <1>0 DEF Administering, AdminRead, Cascade, Release, Reject, rows, AtRest
<1>3. \A b \in Admins : b # a => admin'[b] = admin[b]
  BY <1>0 DEF Administering, AdminRead, Cascade, Release, Reject
<1>4. admin'[a].at # "idle" =>
        /\ admin'[a].on # r
        /\ admin'[a].also => RenewalOf(admin'[a].on) # r
  <2>1. CASE \E q \in Rewards : AdminRead(a, q)
    <3>1. PICK q \in Rewards : AdminRead(a, q)
      BY <2>1
    <3>2. status[q] \in Rejectable /\ q # r
      BY <3>1 DEF AdminRead, AtRest, Rejectable
    <3>3. \E at : admin' = [admin EXCEPT ![a] = [NoRequest EXCEPT !.at = at, !.on = q]]
      BY <3>1 DEF AdminRead
    <3>4. \E at : admin'[a] = [at |-> at, on |-> q, also |-> FALSE]
      BY <3>3, <1>0 DEF NoRequest
    <3>. QED BY <3>2, <3>4
  <2>2. CASE Cascade(a)
    BY <2>2, <1>0 DEF Cascade, AtRest, Requests, Rejectable
  <2>3. CASE Release(a) \/ Reject(a)
    BY <2>3, <1>0 DEF Release, Reject, NoRequest
  <2>. QED BY <2>1, <2>2, <2>3 DEF Administering
<1>. QED BY <1>1, <1>2, <1>3, <1>4 DEF Rests, AtRest, Inside

LEMMA RegisterRests ==
  ASSUME RewardInv, NEW r \in Rewards, AtRest(r), NEW g \in Registrars, Registering(g)
  PROVE  Rests(r)
<1>1. UNCHANGED <<pc, job, admin>>
  BY DEF Registering, Register, Validate, Count, Insert, RegisterFailed, working
<1>2. status'[r] = status[r]
  BY DEF Registering, Register, Validate, Count, Insert, RegisterFailed, rows, AtRest,
         RewardInv, TypeOK
<1>. QED BY <1>1, <1>2 DEF Rests, AtRest, Inside

(* A granted or rejected reward that nobody is left with stays so for ever,*)
(* whatever sweeps, tasks, administrators and faults come after.           *)
THEOREM RewardDecisionStands == Spec => DecisionStands
<1>1. RewardInv /\ [Next]_vars => \A r \in Rewards : AtRest(r) => Rests(r)
  <2>. SUFFICES ASSUME RewardInv, [Next]_vars, NEW r \in Rewards, AtRest(r)
                PROVE  Rests(r)
    OBVIOUS
  <2>1. CASE \E w \in Workers : Work(w) \/ \E q \in Rewards : StartTask(w, q)
    BY <2>1, WorkRests, OpenRests DEF StartTask, rows
  <2>2. CASE \E q \in Rewards : Visit(q)
    BY <2>2, OpenRests, WorkersAssumption DEF Visit, rows
  <2>3. CASE Crash
    BY <2>3 DEF Crash, Rests, AtRest, Inside, rows, NoRequest
  <2>4. CASE Ripen \/ BeginSweep \/ UNCHANGED vars
    BY <2>4 DEF Ripen, BeginSweep, vars, rows, working, Rests, AtRest, Inside
  <2>. QED BY <2>1, <2>2, <2>3, <2>4, AdminRests, RegisterRests DEF Next
<1>2. RewardInv /\ [Next]_vars =>
        [\A r \in Rewards : AtRest(r) => AtRest(r)' /\ status'[r] = status[r]]_vars
  BY <1>1 DEF Rests
<1>. QED BY <1>2, RewardInvariant, PTL DEF Spec, DecisionStands
-----------------------------------------------------------------------------
(* What a step of worker w is: it leaves its reward or goes on with it, and*)
(* touches neither another worker nor another row.                         *)
LEMMA LeaveEffect ==
  ASSUME TypeOK, NEW w \in Workers, NEW forget \in BOOLEAN, Leave(w, forget)
  PROVE  /\ \A v \in Workers : v # w => UNCHANGED <<pc[v], job[v], loc[v], zamok[v]>>
         /\ pc'[w] = "idle"
         /\ \A r \in Rewards : r # job[w] => locks'[r] = locks[r]
         /\ ~forget => UNCHANGED locks
<1>1. \A r \in Rewards : r # job[w] => locks'[r] = locks[r]
  BY DEF Leave, TypeOK
<1>. QED BY <1>1 DEF Leave, TypeOK

LEMMA GoEffect ==
  ASSUME TypeOK, NEW w \in Workers, NEW stage, NEW copy, Goto(w, stage, copy)
  PROVE  /\ \A v \in Workers : v # w => UNCHANGED <<pc[v], job[v], loc[v], zamok[v]>>
         /\ pc'[w] = stage /\ loc'[w] = copy
         /\ UNCHANGED <<job, zamok, locks>>
BY DEF Goto, TypeOK

(* Where process() goes from a copy, by what is owed.                      *)
LEMMA ProceedEffect ==
  ASSUME TypeOK, NEW w \in Workers, NEW copy, Proceed(w, copy)
  PROVE  /\ \A v \in Workers : v # w => UNCHANGED <<pc[v], job[v], loc[v], zamok[v]>>
         /\ UNCHANGED locks
         /\ \/ pc'[w] = "idle"
            \/ /\ UNCHANGED <<job, zamok>> /\ loc'[w] = copy
               /\ \/ pc'[w] = "friend" /\ OwesFriend(job[w], copy)
                  \/ pc'[w] = "inviter" /\ OwesInviter(job[w], copy)
                  \/ pc'[w] = "finish"
<1>1. CASE Leave(w, FALSE)
  BY <1>1, LeaveEffect
<1>2. CASE OwesFriend(job[w], copy) /\ Goto(w, "friend", copy)
  BY <1>2, GoEffect
<1>3. CASE OwesInviter(job[w], copy) /\ Goto(w, "inviter", copy)
  BY <1>3, GoEffect
<1>4. CASE Goto(w, "finish", copy)
  BY <1>4, GoEffect
<1>. QED BY <1>1, <1>2, <1>3, <1>4 DEF Proceed

LEMMA WorkEffect ==
  ASSUME RewardInv, NEW w \in Workers, Work(w)
  PROVE  /\ UNCHANGED <<generous, born, ripe, scheduled, queue, reg, admin, released>>
         /\ \A v \in Workers : v # w => UNCHANGED <<pc[v], job[v], loc[v], zamok[v]>>
         /\ \/ pc'[w] = "idle"
            \/ /\ UNCHANGED <<job, zamok, locks>>
               /\ pc'[w] \notin {"idle", "wait"}
         /\ \A r \in Rewards : r # job[w] => locks'[r] = locks[r]
<1>0. TypeOK
  BY DEF RewardInv
<1>1. UNCHANGED <<generous, born, ripe, scheduled, queue, reg, admin, released>>
  BY DEF Work, Enter, Grant, GrantFailed, AnswerLost, SaveMark, Finish, SaveFailed, rows
<1>2. CASE \E forget \in BOOLEAN : Leave(w, forget)
  BY <1>0, <1>1, <1>2, LeaveEffect
<1>3. CASE \E copy : Proceed(w, copy)
  BY <1>0, <1>1, <1>3, ProceedEffect
<1>4. CASE \E stage \in {"friendSave", "inviterSave"} : \E copy : Goto(w, stage, copy)
  BY <1>0, <1>1, <1>4, GoEffect
<1>5. \/ \E forget \in BOOLEAN : Leave(w, forget)
      \/ \E copy : Proceed(w, copy)
      \/ \E stage \in {"friendSave", "inviterSave"} : \E copy : Goto(w, stage, copy)
  <2>1. CASE Enter(w)
    BY <2>1 DEF Enter
  <2>2. CASE Grant(w)
    BY <2>2 DEF Grant
  <2>3. CASE GrantFailed(w) \/ AnswerLost(w)
    <3>1. RecordFailure(w) /\ pc[w] \in {"friend", "inviter"}
      BY <2>3 DEF GrantFailed, AnswerLost, Extended
    <3>2. job[w] \in Rewards /\ status[job[w]] # "none"
      BY <3>1 DEF RewardInv, WorkerOK
    <3>. QED BY <3>1, <3>2, RecordKeeps
  <2>4. CASE SaveMark(w)
    BY <2>4 DEF SaveMark
  <2>5. CASE Finish(w) \/ SaveFailed(w)
    BY <2>5 DEF Finish, SaveFailed
  <2>. QED BY <2>1, <2>2, <2>3, <2>4, <2>5 DEF Work
<1>. QED BY <1>2, <1>3, <1>4, <1>5

(* Whose row a working worker writes: its own, which is there.             *)
LEMMA WorkOwnRow ==
  ASSUME RewardInv, NEW w \in Workers, Work(w)
  PROVE  /\ pc[w] # "idle" /\ job[w] \in Rewards /\ status[job[w]] # "none"
         /\ \A r \in Rewards : r # job[w] =>
              UNCHANGED <<status[r], friendMark[r], inviterMark[r], attempts[r],
                          friendGot[r], inviterGot[r]>>
<1>1. pc[w] # "idle"
  BY DEF Work, Enter, Grant, GrantFailed, AnswerLost, SaveMark, Finish, SaveFailed,
         Extended, Marked, Inside
<1>2. job[w] \in Rewards /\ status[job[w]] # "none"
  BY <1>1 DEF RewardInv, WorkerOK
<1>. SUFFICES ASSUME NEW r \in Rewards, r # job[w]
              PROVE  UNCHANGED <<status[r], friendMark[r], inviterMark[r], attempts[r],
                                 friendGot[r], inviterGot[r]>>
  BY <1>1, <1>2
<1>0. TypeOK
  BY DEF RewardInv
<1>. USE DEF TypeOK
<1>3. CASE Enter(w)
  BY <1>3 DEF Enter, rows, got
<1>4. CASE Grant(w)
  BY <1>0, <1>4 DEF Grant, rows, Extended
<1>5. CASE GrantFailed(w)
  BY <1>0, <1>5 DEF GrantFailed, got, RecordFailure
<1>6. CASE AnswerLost(w)
  BY <1>0, <1>6 DEF AnswerLost, RecordFailure, Extended
<1>7. CASE SaveMark(w)
  BY <1>0, <1>7 DEF SaveMark, got, Marked
<1>8. CASE Finish(w)
  BY <1>0, <1>8 DEF Finish, got
<1>9. CASE SaveFailed(w)
  <2>1. UNCHANGED <<attempts, got>>
    BY <1>9 DEF SaveFailed
  <2>2. /\ UNCHANGED status \/ status' = [status EXCEPT ![job[w]] = "granted"]
        /\ UNCHANGED <<friendMark, inviterMark>> \/ Marked(w)
    BY <1>9 DEF SaveFailed
  <2>. QED BY <1>0, <2>1, <2>2 DEF Marked, got
<1>. QED BY <1>3, <1>4, <1>5, <1>6, <1>7, <1>8, <1>9 DEF Work
-----------------------------------------------------------------------------
(* Nobody has tried a row that is held.                                    *)
Untried == \A r \in Rewards : UntriedOK(r)

LEMMA UntriedKept ==
  ASSUME RewardInv, NEW r \in Rewards, UntriedOK(r),
         status'[r] \in {"none", "held"} =>
           /\ status'[r] = status[r] /\ attempts'[r] = attempts[r]
           /\ r \in queue' => r \in queue
           /\ scheduled'[r] \in 0..scheduled[r]
           /\ \A w \in Workers : On(w, r)' =>
                /\ On(w, r)
                /\ Inside(w)' => \/ loc'[w].attempts = attempts[r]
                                 \/ Inside(w) /\ loc'[w].attempts = loc[w].attempts
  PROVE  UntriedOK(r)'
<1>1. scheduled[r] \in Nat
  BY DEF RewardInv, TypeOK
<1>. QED BY <1>1 DEF UntriedOK

(* Whoever moves no worker and adds no work.                               *)
LEMMA UntriedStill ==
  ASSUME RewardInv, Untried, UNCHANGED <<attempts, working>>,
         \A r \in Rewards : status'[r] \in {"none", "held"} =>
           /\ status'[r] = status[r]
           /\ r \in queue' => r \in queue
           /\ scheduled'[r] \in 0..scheduled[r]
  PROVE  Untried'
<1>. SUFFICES ASSUME NEW r \in Rewards PROVE UntriedOK(r)'
  BY DEF Untried
<1>1. UntriedOK(r)
  BY DEF Untried
<1>2. \A w \in Workers : On(w, r)' => /\ On(w, r)
                                      /\ Inside(w)' => Inside(w) /\ loc'[w] = loc[w]
  BY DEF On, Inside, working
<1>. QED BY <1>1, <1>2, UntriedKept

LEMMA ScheduledStill ==
  ASSUME RewardInv, NEW r \in Rewards, UNCHANGED scheduled
  PROVE  scheduled'[r] \in 0..scheduled[r]
BY DEF RewardInv, TypeOK

LEMMA InitUntried == Init => Untried
BY DEF Init, Untried, UntriedOK

(* The row is inserted with its task; there was nothing about it before.   *)
LEMMA InsertUntried ==
  ASSUME RewardInv, Untried, NEW g \in Registrars, Insert(g)
  PROVE  Untried'
<1>. DEFINE q == reg[g].on
<1>1. q \in Rewards
  BY DEF RewardInv, Placed, Insert
<1>2. UNCHANGED <<attempts, working, queue>>
  BY DEF Insert
<1>3. CASE status[q] # "none"
  <2>1. UNCHANGED <<status, scheduled>>
    BY <1>3 DEF Insert
  <2>. QED BY <1>2, <2>1, ScheduledStill, UntriedStill
<1>4. CASE status[q] = "none"
  <2>. SUFFICES ASSUME NEW r \in Rewards PROVE UntriedOK(r)'
    BY DEF Untried
  <2>1. /\ status' = [status EXCEPT ![q] = reg[g].as]
        /\ scheduled' = [scheduled EXCEPT ![q] = @ + 1]
    BY <1>4 DEF Insert
  <2>2. UntriedOK(r)
    BY DEF Untried
  <2>3. CASE r # q
    <3>1. status'[r] = status[r] /\ scheduled'[r] \in 0..scheduled[r]
      BY <1>1, <2>1, <2>3 DEF RewardInv, TypeOK
    <3>2. \A w \in Workers : On(w, r)' => /\ On(w, r)
                                          /\ Inside(w)' => Inside(w) /\ loc'[w] = loc[w]
      BY <1>2 DEF On, Inside, working
    <3>. QED BY <1>2, <2>2, <3>1, <3>2, UntriedKept
  <2>4. CASE r = q
    <3>1. attempts[r] = 0 /\ scheduled[r] = 0 /\ r \notin queue
      BY <1>4, <2>2, <2>4 DEF UntriedOK, RewardInv, TypeOK, Placed, Written
    <3>2. \A w \in Workers : ~On(w, r)
      BY <1>4, <2>4 DEF On, RewardInv, WorkerOK
    <3>3. scheduled'[r] = 1
      BY <2>1, <2>4, <3>1 DEF RewardInv, TypeOK
    <3>4. \A w \in Workers : ~On(w, r)'
      BY <1>2, <3>2 DEF On, working
    <3>. QED BY <1>2, <3>1, <3>3, <3>4 DEF UntriedOK
  <2>. QED BY <2>3, <2>4
<1>. QED BY <1>3, <1>4

LEMMA RegisteringUntried ==
  ASSUME RewardInv, Untried, NEW g \in Registrars, Registering(g)
  PROVE  Untried'
<1>1. CASE Insert(g)
  BY <1>1, InsertUntried
<1>2. CASE ~Insert(g)
  <2>1. UNCHANGED <<status, attempts, working, queue, scheduled>>
    BY <1>2 DEF Registering, Register, Validate, Count, RegisterFailed, rows
  <2>. QED BY <2>1, ScheduledStill, UntriedStill
<1>. QED BY <1>1, <1>2

(* An attempt at a held row is the only one there will be.                 *)
LEMMA RecordUntried ==
  ASSUME RewardInv, Untried, NEW w \in Workers, Work(w), RecordFailure(w),
         NEW r \in Rewards, r = job[w]
  PROVE  UntriedOK(r)'
<1>1. r \in Rewards /\ status[r] # "none"
  BY WorkOwnRow
<1>2. UntriedOK(r) /\ On(w, r)
  BY <1>1, WorkOwnRow DEF Untried, On
<1>3. /\ UNCHANGED <<queue, scheduled>>
      /\ \A v \in Workers : v # w => pc'[v] = pc[v] /\ job'[v] = job[v]
  BY WorkEffect
<1>4. status'[r] # "none" /\ (status'[r] = "held" => status[r] = "held")
  BY <1>1, RecordKeeps
<1>5. pc'[w] = "idle"
  BY DEF RecordFailure, Leave, RewardInv, TypeOK
<1>6. ASSUME status'[r] = "held" PROVE UntriedOK(r)'
  <2>1. scheduled[r] = 0 /\ r \notin queue /\ \A v \in Workers : On(v, r) => v = w
    BY <1>2, <1>4, <1>6 DEF UntriedOK
  <2>2. \A v \in Workers : ~(pc'[v] # "idle" /\ job'[v] = r)
    BY <1>3, <1>5, <2>1 DEF On
  <2>3. scheduled'[r] = 0 /\ r \notin queue'
    BY <1>3, <2>1
  <2>. QED BY <1>6, <2>2, <2>3 DEF UntriedOK, On
<1>. QED BY <1>4, <1>6 DEF UntriedOK

(* The copy of whoever stays inside has the attempts of the row.           *)
LEMMA CopiesAttempts ==
  ASSUME RewardInv, NEW w \in Workers, Work(w), ~RecordFailure(w), pc'[w] # "idle"
  PROVE  \/ loc'[w].attempts = attempts[job[w]]
         \/ Inside(w) /\ loc'[w].attempts = loc[w].attempts
<1>0. TypeOK
  BY DEF RewardInv
<1>1. CASE Enter(w)
  <2>. DEFINE copy == [status |-> status[job[w]], friendMark |-> friendMark[job[w]],
                       inviterMark |-> inviterMark[job[w]], attempts |-> attempts[job[w]]]
  <2>1. Proceed(w, copy) \/ Leave(w, TRUE)
    BY <1>1 DEF Enter
  <2>2. CASE Leave(w, TRUE)
    BY <1>0, <2>2, LeaveEffect
  <2>3. CASE Proceed(w, copy)
    <3>1. copy.attempts = attempts[job[w]]
      OBVIOUS
    <3>. HIDE DEF copy
    <3>2. loc'[w] = copy
      BY <1>0, <2>3, ProceedEffect
    <3>. QED BY <3>1, <3>2
  <2>. QED BY <2>1, <2>2, <2>3
<1>2. CASE Grant(w)
  <2>1. \E stage : Goto(w, stage, loc[w])
    BY <1>2 DEF Grant
  <2>2. Inside(w)
    BY <1>2 DEF Grant, Extended, Inside
  <2>. QED BY <1>0, <2>1, <2>2, GoEffect
<1>3. CASE SaveMark(w)
  <2>. DEFINE copy == [loc[w] EXCEPT !.friendMark = @ \/ pc[w] = "friendSave",
                                     !.inviterMark = @ \/ pc[w] = "inviterSave"]
  <2>1. Proceed(w, copy) /\ Inside(w)
    BY <1>3 DEF SaveMark, Marked, Inside
  <2>2. copy.attempts = loc[w].attempts
    BY <1>0 DEF TypeOK, Copies
  <2>. HIDE DEF copy
  <2>3. loc'[w] = copy
    BY <1>0, <2>1, ProceedEffect
  <2>. QED BY <2>1, <2>2, <2>3
<1>4. CASE Finish(w) \/ SaveFailed(w)
  <2>1. \E forget \in BOOLEAN : Leave(w, forget)
    BY <1>4 DEF Finish, SaveFailed
  <2>. QED BY <1>0, <2>1, LeaveEffect
<1>. QED BY <1>1, <1>2, <1>3, <1>4 DEF Work, GrantFailed, AnswerLost

LEMMA WorkUntried ==
  ASSUME RewardInv, RewardInv', Untried, NEW w \in Workers, Work(w)
  PROVE  Untried'
<1>. SUFFICES ASSUME NEW r \in Rewards PROVE UntriedOK(r)'
  BY DEF Untried
<1>1. UntriedOK(r)
  BY DEF Untried
<1>2. /\ UNCHANGED <<scheduled, queue>>
      /\ \A v \in Workers : v # w => pc'[v] = pc[v] /\ job'[v] = job[v] /\ loc'[v] = loc[v]
      /\ pc'[w] = "idle" \/ job'[w] = job[w]
  BY WorkEffect
<1>3. /\ pc[w] # "idle" /\ job[w] \in Rewards /\ status[job[w]] # "none"
      /\ \A q \in Rewards : q # job[w] => status'[q] = status[q] /\ attempts'[q] = attempts[q]
  BY WorkOwnRow
<1>4. CASE r # job[w]
  <2>1. \A v \in Workers : On(v, r)' => /\ On(v, r)
                                        /\ Inside(v)' => Inside(v) /\ loc'[v] = loc[v]
    BY <1>2, <1>4 DEF On, Inside
  <2>. QED BY <1>1, <1>2, <1>3, <1>4, <2>1, ScheduledStill, UntriedKept
<1>5. CASE r = job[w] /\ RecordFailure(w)
  BY <1>5, RecordUntried
<1>6. CASE r = job[w] /\ ~RecordFailure(w)
  <2>1. UNCHANGED attempts
    BY <1>6 DEF Work, Enter, Grant, GrantFailed, AnswerLost, SaveMark, Finish, SaveFailed, rows
  <2>2. status'[r] \in {"none", "held"} => status'[r] = status[r]
    <3>1. UNCHANGED status \/ status' = [status EXCEPT ![r] = "granted"]
      BY <1>6 DEF Work, Enter, Grant, GrantFailed, AnswerLost, SaveMark, Finish, SaveFailed,
                  rows
    <3>. QED BY <3>1 DEF RewardInv, TypeOK
  <2>3. \A v \in Workers : On(v, r)' =>
          /\ On(v, r)
          /\ Inside(v)' => \/ loc'[v].attempts = attempts[r]
                           \/ Inside(v) /\ loc'[v].attempts = loc[v].attempts
    <3>. SUFFICES ASSUME NEW v \in Workers, On(v, r)'
                  PROVE  /\ On(v, r)
                         /\ Inside(v)' => \/ loc'[v].attempts = attempts[r]
                                          \/ Inside(v) /\ loc'[v].attempts = loc[v].attempts
      OBVIOUS
    <3>1. CASE v # w
      BY <1>2, <3>1 DEF On, Inside
    <3>2. CASE v = w
      BY <1>3, <1>6, <3>2, CopiesAttempts DEF On
    <3>. QED BY <3>1, <3>2
  <2>. QED BY <1>1, <1>2, <2>1, <2>2, <2>3, ScheduledStill, UntriedKept
<1>. QED BY <1>4, <1>5, <1>6

(* A worker that opens row q adds itself to q alone.                       *)
LEMMA OpenEffect ==
  ASSUME TypeOK, NEW w \in Workers, NEW q \in Rewards, Open(w, q), pc[w] = "idle"
  PROVE  /\ \A v \in Workers : v # w => UNCHANGED <<pc[v], job[v], loc[v], zamok[v]>>
         /\ pc'[w] = "wait" /\ job'[w] = q /\ UNCHANGED loc
         /\ zamok'[w] = locks'[q] /\ locks'[q] # NoLock
         /\ locks[q] # NoLock => UNCHANGED locks
         /\ \A r \in Rewards : r # q => locks'[r] = locks[r]
<1>1. /\ \A v \in Workers : v # w => pc'[v] = pc[v] /\ job'[v] = job[v]
      /\ pc'[w] = "wait" /\ job'[w] = q /\ UNCHANGED loc
  BY DEF Open, TypeOK
<1>2. CASE locks[q] # NoLock
  BY <1>1, <1>2 DEF Open, TypeOK
<1>3. CASE locks[q] = NoLock
  <2>1. Unused # {} => (CHOOSE u \in Unused : TRUE) \in Unused
    OBVIOUS
  <2>. DEFINE o == CHOOSE u \in Unused : TRUE
  <2>2. Unused \subseteq Objects
    BY DEF Unused
  <2>3. /\ o \in Objects
        /\ locks' = [locks EXCEPT ![q] = o]
        /\ zamok' = [zamok EXCEPT ![w] = o]
    BY <1>3, <2>1, <2>2 DEF Open, NewLock
  <2>4. o # NoLock
    BY <2>3, NobodyAssumption
  <2>. HIDE DEF o
  <2>. QED BY <1>1, <1>3, <2>3, <2>4 DEF TypeOK
<1>. QED BY <1>2, <1>3

LEMMA StartUntried ==
  ASSUME RewardInv, Untried, NEW w \in Workers, NEW q \in Rewards, StartTask(w, q)
  PROVE  Untried'
<1>. SUFFICES ASSUME NEW r \in Rewards PROVE UntriedOK(r)'
  BY DEF Untried
<1>1. /\ pc[w] = "idle" /\ scheduled[q] > 0 /\ Open(w, q)
      /\ scheduled' = [scheduled EXCEPT ![q] = @ - 1]
      /\ UNCHANGED <<status, attempts, queue>>
  BY DEF StartTask, rows
<1>2. /\ \A v \in Workers : v # w => pc'[v] = pc[v] /\ job'[v] = job[v] /\ loc'[v] = loc[v]
      /\ pc'[w] = "wait" /\ job'[w] = q
  BY <1>1, OpenEffect DEF RewardInv
<1>3. UntriedOK(r)
  BY DEF Untried
<1>4. CASE r # q
  <2>1. \A v \in Workers : On(v, r)' => /\ On(v, r)
                                        /\ Inside(v)' => Inside(v) /\ loc'[v] = loc[v]
    BY <1>2, <1>4 DEF On, Inside
  <2>2. scheduled'[r] \in 0..scheduled[r]
    BY <1>1, <1>4 DEF RewardInv, TypeOK
  <2>. QED BY <1>1, <1>3, <2>1, <2>2, UntriedKept
<1>5. CASE r = q
  <2>1. status[r] # "none"
    BY <1>1, <1>5 DEF RewardInv, Placed
  <2>2. ASSUME status[r] = "held" PROVE UntriedOK(r)'
    <3>1. scheduled[r] = 1 /\ attempts[r] = 0 /\ r \notin queue
      BY <1>1, <1>3, <1>5, <2>2 DEF UntriedOK, RewardInv, TypeOK
    <3>2. \A v \in Workers : ~On(v, r)
      BY <1>3, <2>2, <3>1 DEF UntriedOK
    <3>3. scheduled'[r] = 0
      BY <1>1, <1>5, <3>1 DEF RewardInv, TypeOK
    <3>4. \A v \in Workers : On(v, r)' => v = w /\ ~Inside(v)'
      BY <1>2, <3>2 DEF On, Inside
    <3>. QED BY <1>1, <3>1, <3>3, <3>4 DEF UntriedOK
  <2>. QED BY <1>1, <2>1, <2>2 DEF UntriedOK
<1>. QED BY <1>4, <1>5

LEMMA VisitUntried ==
  ASSUME RewardInv, Untried, NEW q \in Rewards, Visit(q)
  PROVE  Untried'
<1>. SUFFICES ASSUME NEW r \in Rewards PROVE UntriedOK(r)'
  BY DEF Untried
<1>1. /\ pc[Sweeper] = "idle" /\ q \in queue /\ Open(Sweeper, q) /\ queue' = queue \ {q}
      /\ UNCHANGED <<status, attempts, scheduled>>
  BY DEF Visit, rows
<1>2. /\ \A v \in Workers : v # Sweeper =>
           pc'[v] = pc[v] /\ job'[v] = job[v] /\ loc'[v] = loc[v]
      /\ pc'[Sweeper] = "wait" /\ job'[Sweeper] = q
  BY <1>1, WorkersAssumption, OpenEffect DEF RewardInv
<1>3. UntriedOK(r)
  BY DEF Untried
<1>4. CASE r # q
  <2>1. \A v \in Workers : On(v, r)' => /\ On(v, r)
                                        /\ Inside(v)' => Inside(v) /\ loc'[v] = loc[v]
    BY <1>2, <1>4 DEF On, Inside
  <2>. QED BY <1>1, <1>3, <2>1, ScheduledStill, UntriedKept
<1>5. CASE r = q
  <2>1. status[r] \notin {"none", "held"}
    BY <1>1, <1>3, <1>5 DEF RewardInv, Placed, Written, UntriedOK
  <2>. QED BY <1>1, <2>1 DEF UntriedOK
<1>. QED BY <1>4, <1>5

LEMMA AdministeringUntried ==
  ASSUME RewardInv, Untried, NEW a \in Admins, Administering(a)
  PROVE  Untried'
<1>1. UNCHANGED <<attempts, working, queue>>
  BY DEF Administering, AdminRead, Cascade, Release, Reject, rows
<1>2. CASE UNCHANGED <<status, scheduled>>
  BY <1>1, <1>2, ScheduledStill, UntriedStill
<1>3. CASE Release(a)
  <2>1. \A r \in Rewards : status'[r] \in {"none", "held"} =>
          status'[r] = status[r] /\ scheduled'[r] \in 0..scheduled[r]
    BY <1>3 DEF Release, RewardInv, TypeOK
  <2>. QED BY <1>1, <2>1, UntriedStill
<1>4. CASE Reject(a)
  <2>1. UNCHANGED scheduled
    BY <1>4 DEF Reject
  <2>2. \A r \in Rewards : status'[r] \in {"none", "held"} => status'[r] = status[r]
    BY <1>4 DEF Reject
  <2>. QED BY <1>1, <2>1, <2>2, ScheduledStill, UntriedStill
<1>. QED BY <1>2, <1>3, <1>4 DEF Administering, AdminRead, Cascade, rows

LEMMA NextUntried == RewardInv /\ RewardInv' /\ Untried /\ [Next]_vars => Untried'
<1>. SUFFICES ASSUME RewardInv, RewardInv', Untried, [Next]_vars PROVE Untried'
  OBVIOUS
<1>1. CASE Crash
  <2>. SUFFICES ASSUME NEW r \in Rewards PROVE UntriedOK(r)'
    BY DEF Untried
  <2>1. /\ UNCHANGED <<status, attempts>> /\ queue' = {} /\ scheduled'[r] = 0
        /\ \A w \in Workers : pc'[w] = "idle"
    BY <1>1 DEF Crash, rows
  <2>2. UntriedOK(r) /\ \A w \in Workers : ~On(w, r)'
    BY <2>1 DEF Untried, On
  <2>. QED BY <2>1, <2>2 DEF UntriedOK
<1>2. CASE BeginSweep
  <2>1. UNCHANGED <<status, attempts, working, scheduled>> /\ queue' = Due
    BY <1>2 DEF BeginSweep, rows
  <2>2. \A r \in Due : status[r] = "pending"
    BY DEF Due
  <2>. QED BY <2>1, <2>2, ScheduledStill, UntriedStill
<1>3. CASE Ripen \/ UNCHANGED vars
  BY <1>3, ScheduledStill, UntriedStill DEF Ripen, vars, rows
<1>. QED BY <1>1, <1>2, <1>3, RegisteringUntried, WorkUntried, StartUntried, VisitUntried,
     AdministeringUntried DEF Next

(* A row held over the cap has been tried by nobody but the task that was  *)
(* created with it: neither the sweep of obojti_ozhidayushchie nor another *)
(* task comes to it before an administrator releases it.                   *)
THEOREM HeldIsUntried == Spec => []Untried
<1>1. Init => RewardInv /\ Untried
  BY InitRewardInv, InitUntried
<1>2. RewardInv /\ Untried /\ [Next]_vars => (RewardInv /\ Untried)'
  BY NextRewardInv, NextUntried
<1>. QED BY <1>1, <1>2, PTL DEF Spec
-----------------------------------------------------------------------------
(* The status a worker may give its row.  A row that is held has been tried*)
(* by nobody, so one failed attempt does not give it up, _MAX_ATTEMPTS     *)
(* being more than one.                                                    *)
LEMMA WorkStatus ==
  ASSUME RewardInv, Untried, MaxAttempts > 1, NEW w \in Workers, Work(w),
         NEW r \in Rewards
  PROVE  \/ status'[r] = status[r]
         \/ /\ status[r] \notin {"none", "held"} /\ status'[r] \in {"granted", "failed"}
            /\ r = job[w]
<1>1. CASE r # job[w]
  BY <1>1, WorkOwnRow
<1>2. CASE r = job[w] /\ pc[w] = "finish"
  <2>1. status[r] \notin {"none", "held"}
    BY <1>2 DEF RewardInv, WorkerOK, Inside
  <2>2. UNCHANGED status \/ status' = [status EXCEPT ![r] = "granted"]
    <3>1. Finish(w) \/ SaveFailed(w)
      BY <1>2 DEF Work, Enter, Grant, GrantFailed, AnswerLost, SaveMark, Extended, Marked
    <3>. QED BY <1>2, <3>1 DEF Finish, SaveFailed
  <2>. QED BY <1>2, <2>1, <2>2 DEF RewardInv, TypeOK
<1>3. CASE r = job[w] /\ RecordFailure(w) /\ pc[w] \in {"friend", "inviter"}
  <2>1. On(w, r) /\ Inside(w) /\ UntriedOK(r) /\ status[r] # "none"
    BY <1>3 DEF On, Inside, Untried, RewardInv, WorkerOK
  <2>2. status[r] = "held" => UNCHANGED status
    <3>1. ASSUME status[r] = "held" PROVE loc[w].attempts + 1 = 1
      BY <2>1, <3>1 DEF UntriedOK
    <3>2. ~(1 >= MaxAttempts)
      BY BoundsAssumption
    <3>. QED BY <1>3, <3>1, <3>2 DEF RecordFailure
  <2>3. UNCHANGED status \/ status' = [status EXCEPT ![r] = "failed"]
    BY <1>3 DEF RecordFailure
  <2>. QED BY <1>3, <2>1, <2>2, <2>3 DEF RewardInv, TypeOK
<1>4. CASE pc[w] # "finish" /\ ~(RecordFailure(w) /\ pc[w] \in {"friend", "inviter"})
  <2>1. UNCHANGED status
    BY <1>4 DEF Work, Enter, Grant, GrantFailed, AnswerLost, SaveMark, Finish, SaveFailed, rows,
                Extended
  <2>. QED BY <2>1
<1>. QED BY <1>1, <1>2, <1>3, <1>4
-----------------------------------------------------------------------------
(* The cap.  Who counts against it, without those let go over it.          *)
Charged == Counted \ released

LEMMA ChargedFinite ==
  /\ IsFiniteSet(Counted) /\ IsFiniteSet(Charged)
  /\ Cardinality(Charged) \in Nat /\ Cardinality(Counted) \in Nat
  /\ Cardinality(Charged) <= Cardinality(Counted)
<1>1. Counted \in SUBSET Rewards /\ Charged \in SUBSET Counted
  BY DEF Counted, Charged
<1>2. IsFiniteSet(Counted)
  BY <1>1, RewardsFinite, FS_Subset
<1>3. IsFiniteSet(Charged) /\ Cardinality(Charged) <= Cardinality(Counted)
  BY <1>1, <1>2, FS_Subset
<1>. QED BY <1>2, <1>3, FS_CardinalityType

LEMMA InsertingFinite ==
  ASSUME IsFiniteSet(Registrars)
  PROVE  /\ IsFiniteSet(Inserting) /\ Cardinality(Inserting) \in Nat
         /\ Cardinality(Registrars) \in Nat
         /\ Cardinality(Inserting) <= Cardinality(Registrars)
<1>1. Inserting \in SUBSET Registrars
  BY DEF Inserting
<1>. QED BY <1>1, FS_Subset, FS_CardinalityType

(* Nobody more counts, nobody more is about to.                            *)
LEMMA RoomKept ==
  ASSUME IsFiniteSet(Registrars), RoomTaken, Charged' \subseteq Charged,
         Inserting' \subseteq Inserting
  PROVE  RoomTaken'
<1>1. Cardinality(Charged') <= Cardinality(Charged) /\ IsFiniteSet(Charged')
  BY ChargedFinite, FS_Subset
<1>2. Cardinality(Inserting') <= Cardinality(Inserting) /\ IsFiniteSet(Inserting')
  BY InsertingFinite, FS_Subset
<1>3. Cardinality(Charged') \in Nat /\ Cardinality(Inserting') \in Nat
  BY <1>1, <1>2, FS_CardinalityType
<1>4. Cardinality(Charged) \in Nat /\ Cardinality(Inserting) \in Nat
      /\ Cardinality(Registrars) \in Nat /\ Cap \in Nat
  BY ChargedFinite, InsertingFinite, BoundsAssumption
<1>5. Cardinality(Charged') + Cardinality(Inserting') < Cap + Cardinality(Registrars)
  <2>1. Cardinality(Charged) + Cardinality(Inserting) < Cap + Cardinality(Registrars)
    BY DEF RoomTaken, Charged
  <2>. QED BY <1>1, <1>2, <1>3, <1>4, <2>1
<1>. QED BY <1>5 DEF RoomTaken, Charged

LEMMA ChargedKept ==
  ASSUME UNCHANGED generous, released \subseteq released',
         \A r \in Rewards : status'[r] \in {"pending", "granted", "failed"} =>
           status[r] \in {"pending", "granted", "failed"} \/ r \in released'
  PROVE  Charged' \subseteq Charged
BY DEF Charged, Counted

LEMMA InitCapInv ==
  ASSUME IsFiniteSet(Registrars), Cap > 0 \/ Registrars # {}, Init
  PROVE  CapInv
<1>1. NoneRejected /\ \A g \in Registrars : reg[g].at = "panel" => ~reg[g].generous
  BY DEF Init, NoneRejected, NoPlan
<1>2. Charged = {} /\ Inserting = {}
  BY DEF Init, Charged, Counted, Inserting, NoPlan
<1>3. Cardinality(Charged) = 0 /\ Cardinality(Inserting) = 0
  BY <1>2, FS_EmptySet
<1>4. Registrars # {} => Cardinality(Registrars) # 0
  BY FS_EmptySet
<1>5. Cardinality(Registrars) \in Nat /\ Cap \in Nat
  BY InsertingFinite, BoundsAssumption
<1>. QED BY <1>1, <1>3, <1>4, <1>5 DEF CapInv, RoomTaken, Charged

(* The inviter is asked about; a friend of the house is not counted.       *)
LEMMA ValidateCap ==
  ASSUME RewardInv, CapInv, IsFiniteSet(Registrars), NEW g \in Registrars,
         \/ \E r \in Rewards : Register(g, r)
         \/ Validate(g)
         \/ RegisterFailed(g)
  PROVE  CapInv'
<1>1. UNCHANGED <<rows, released>>
  BY DEF Register, Validate, RegisterFailed
<1>2. \A h \in Registrars : h # g => reg'[h] = reg[h]
  BY DEF Register, Validate, RegisterFailed, RewardInv, TypeOK
<1>3. /\ reg'[g].at = "panel" => ~reg'[g].generous
      /\ reg'[g].at = "insert" => ~reg'[g].generous
  <2>1. reg \in [Registrars -> Plans] /\ reg[g] \in Plans
    BY DEF RewardInv, TypeOK
  <2>2. CASE \E r \in Rewards : Register(g, r)
    <3>1. PICK r \in Rewards : Register(g, r)
      BY <2>2
    <3>. DEFINE plan == [NoPlan EXCEPT !.at = "panel", !.on = r]
    <3>2. reg'[g] = plan /\ plan.at = "panel" /\ ~plan.generous
      BY <2>1, <3>1 DEF Register, NoPlan
    <3>. QED BY <3>2
  <2>3. CASE Validate(g)
    <3>1. reg[g].at = "panel" /\ ~reg[g].generous
      BY <2>3 DEF Validate, CapInv
    <3>2. CASE reg' = [reg EXCEPT ![g] = NoPlan]
      BY <2>1, <3>2 DEF NoPlan
    <3>3. CASE reg' = [reg EXCEPT ![g].at = "count", ![g].generous = TRUE]
      BY <2>1, <3>3 DEF Plans
    <3>4. CASE reg' = [reg EXCEPT ![g].at = "insert", ![g].as = "pending"]
      BY <2>1, <3>1, <3>4 DEF Plans
    <3>. QED BY <2>3, <3>2, <3>3, <3>4 DEF Validate
  <2>4. CASE RegisterFailed(g)
    BY <2>1, <2>4 DEF RegisterFailed, NoPlan
  <2>. QED BY <2>2, <2>3, <2>4
<1>4. Charged' \subseteq Charged /\ NoneRejected'
  BY <1>1 DEF rows, Charged, Counted, CapInv, NoneRejected
<1>5. Inserting' \subseteq Inserting
  <2>1. \A h \in Registrars : h \in Inserting' => h \in Inserting
    BY <1>2, <1>3 DEF Inserting
  <2>. QED BY <2>1 DEF Inserting
<1>6. \A h \in Registrars : reg'[h].at = "panel" => ~reg'[h].generous
  BY <1>2, <1>3 DEF CapInv
<1>. QED BY <1>4, <1>5, <1>6, RoomKept DEF CapInv

(* Whoever finds room finds it among all who count by then.                *)
LEMMA CountCap ==
  ASSUME RewardInv, CapInv, IsFiniteSet(Registrars), NEW g \in Registrars, Count(g)
  PROVE  CapInv'
<1>1. UNCHANGED <<rows, released>>
  BY DEF Count
<1>2. reg \in [Registrars -> Plans] /\ reg[g] \in Plans
  BY DEF RewardInv, TypeOK
<1>. DEFINE as == IF Cardinality(Counted) >= Cap THEN "held" ELSE "pending"
<1>3. /\ reg' = [reg EXCEPT ![g].at = "insert", ![g].as = as]
      /\ \A h \in Registrars : h # g => reg'[h] = reg[h]
      /\ reg'[g].at = "insert" /\ reg'[g].as = as
  BY <1>2 DEF Count, Plans
<1>4. Charged' = Charged /\ NoneRejected'
  BY <1>1 DEF rows, Charged, Counted, CapInv, NoneRejected
<1>5. CASE Cardinality(Counted) >= Cap
  <2>1. Inserting' \subseteq Inserting
    <3>1. g \notin Inserting'
      BY <1>3, <1>5 DEF Inserting
    <3>2. \A h \in Registrars : h \in Inserting' => h \in Inserting
      BY <1>3, <3>1 DEF Inserting
    <3>. QED BY <3>2 DEF Inserting
  <2>. QED BY <1>3, <1>4, <2>1, RoomKept DEF CapInv
<1>6. CASE ~(Cardinality(Counted) >= Cap)
  <2>1. Inserting' \in SUBSET Registrars
    BY DEF Inserting
  <2>2. Cardinality(Inserting') <= Cardinality(Registrars) /\ Cardinality(Inserting') \in Nat
    BY <2>1, FS_Subset, FS_CardinalityType
  <2>3. /\ Cardinality(Charged) <= Cardinality(Counted)
        /\ Cardinality(Charged) \in Nat /\ Cardinality(Counted) \in Nat
        /\ Cardinality(Registrars) \in Nat /\ Cap \in Nat
    BY ChargedFinite, InsertingFinite, BoundsAssumption
  <2>4. Cardinality(Charged') + Cardinality(Inserting') < Cap + Cardinality(Registrars)
    BY <1>4, <1>6, <2>2, <2>3
  <2>5. RoomTaken'
    BY <2>4 DEF RoomTaken, Charged
  <2>. QED BY <1>3, <1>4, <2>5 DEF CapInv
<1>. QED BY <1>5, <1>6

(* The row that is inserted counts instead of him who was about to do so.  *)
LEMMA InsertCap ==
  ASSUME RewardInv, CapInv, IsFiniteSet(Registrars), NEW g \in Registrars, Insert(g)
  PROVE  CapInv'
<1>. DEFINE r == reg[g].on
            p == reg[g]
<1>1. r \in Rewards /\ p \in Plans /\ p.as # "none" /\ p.at = "insert"
  BY DEF RewardInv, TypeOK, Placed, Insert
<1>2. /\ reg'[g].at = "idle"
      /\ \A h \in Registrars : h # g => reg'[h] = reg[h]
      /\ UNCHANGED released
  BY DEF Insert, RewardInv, TypeOK, NoPlan
<1>3. \A h \in Registrars : reg'[h].at = "panel" => ~reg'[h].generous
  BY <1>2 DEF CapInv
<1>4. Inserting' \subseteq Inserting \ {g}
  <2>1. \A h \in Registrars : h \in Inserting' => h \in Inserting /\ h # g
    BY <1>2 DEF Inserting
  <2>. QED BY <2>1 DEF Inserting
<1>5. CASE status[r] # "none"
  <2>1. UNCHANGED <<status, generous>>
    BY <1>5 DEF Insert
  <2>2. Charged' \subseteq Charged /\ NoneRejected'
    BY <1>2, <2>1 DEF Charged, Counted, CapInv, NoneRejected
  <2>. QED BY <1>3, <1>4, <2>2, RoomKept DEF CapInv
<1>6. CASE status[r] = "none"
  <2>1. /\ status' = [status EXCEPT ![r] = p.as]
        /\ generous' = [generous EXCEPT ![r] = p.generous]
    BY <1>6 DEF Insert
  <2>2. /\ status'[r] = p.as /\ generous'[r] = p.generous
        /\ \A q \in Rewards : q # r => status'[q] = status[q] /\ generous'[q] = generous[q]
    BY <1>1, <2>1 DEF RewardInv, TypeOK
  <2>3. NoneRejected'
    BY <1>1, <2>2 DEF NoneRejected, CapInv, Plans
  <2>4. Charged' \subseteq Charged \cup {r}
    <3>1. \A q \in Rewards : q \in Charged' => q \in Charged \cup {r}
      BY <1>2, <2>2 DEF Charged, Counted
    <3>. QED BY <3>1 DEF Charged, Counted
  <2>5. CASE g \in Inserting
    <3>1. Cardinality(Charged \cup {r}) <= Cardinality(Charged) + 1
          /\ IsFiniteSet(Charged \cup {r})
      <4>1. IsFiniteSet(Charged) /\ Cardinality(Charged) \in Nat
        BY ChargedFinite
      <4>2. /\ IsFiniteSet(Charged \cup {r})
            /\ Cardinality(Charged \cup {r}) =
                 IF r \in Charged THEN Cardinality(Charged) ELSE Cardinality(Charged) + 1
        BY <4>1, FS_AddElement
      <4>. QED BY <4>1, <4>2
    <3>2. Cardinality(Charged') <= Cardinality(Charged \cup {r}) /\ IsFiniteSet(Charged')
      BY <2>4, <3>1, FS_Subset
    <3>3. Cardinality(Inserting \ {g}) = Cardinality(Inserting) - 1
          /\ IsFiniteSet(Inserting \ {g})
      BY <2>5, InsertingFinite, FS_RemoveElement
    <3>4. Cardinality(Inserting') <= Cardinality(Inserting \ {g}) /\ IsFiniteSet(Inserting')
      BY <1>4, <3>3, FS_Subset
    <3>5. /\ Cardinality(Charged') \in Nat /\ Cardinality(Inserting') \in Nat
          /\ Cardinality(Charged \cup {r}) \in Nat
      BY <3>1, <3>2, <3>4, FS_CardinalityType
    <3>6. /\ Cardinality(Charged) \in Nat /\ Cardinality(Inserting) \in Nat
          /\ Cardinality(Registrars) \in Nat /\ Cap \in Nat
      BY ChargedFinite, InsertingFinite, BoundsAssumption
    <3>7. Cardinality(Charged) + Cardinality(Inserting) < Cap + Cardinality(Registrars)
      BY DEF CapInv, RoomTaken, Charged
    <3>8. Cardinality(Charged') + Cardinality(Inserting') < Cap + Cardinality(Registrars)
      BY <3>1, <3>2, <3>3, <3>4, <3>5, <3>6, <3>7
    <3>9. RoomTaken'
      BY <3>8 DEF RoomTaken, Charged
    <3>. QED BY <1>3, <2>3, <3>9 DEF CapInv
  <2>6. CASE g \notin Inserting
    <3>1. ~p.generous \/ p.as = "held"
      BY <1>1, <2>6 DEF Inserting, Plans
    <3>2. r \notin Charged'
      BY <2>2, <3>1 DEF Charged, Counted
    <3>3. Charged' \subseteq Charged
      BY <2>4, <3>2
    <3>. QED BY <1>3, <1>4, <2>3, <3>3, RoomKept DEF CapInv
  <2>. QED BY <2>5, <2>6
<1>. QED BY <1>5, <1>6

LEMMA WorkCap ==
  ASSUME RewardInv, Untried, CapInv, MaxAttempts > 1, IsFiniteSet(Registrars),
         NEW w \in Workers, Work(w)
  PROVE  CapInv'
<1>1. UNCHANGED <<generous, released, reg>>
  BY WorkEffect
<1>2. \A r \in Rewards : \/ status'[r] = status[r]
                         \/ /\ status[r] \notin {"none", "held"}
                            /\ status'[r] \in {"granted", "failed"}
  BY WorkStatus
<1>3. NoneRejected'
  BY <1>2 DEF CapInv, NoneRejected
<1>4. \A r \in Rewards : status'[r] \in {"pending", "granted", "failed"} =>
        status[r] \in {"pending", "granted", "failed"}
  BY <1>2 DEF CapInv, NoneRejected, RewardInv, TypeOK, Statuses
<1>5. Charged' \subseteq Charged
  BY <1>1, <1>4, ChargedKept
<1>6. Inserting' \subseteq Inserting
  BY <1>1 DEF Inserting
<1>. QED BY <1>1, <1>3, <1>5, <1>6, RoomKept DEF CapInv

(* An administrator who lets a reward go takes it out of the count.        *)
LEMMA AdministeringCap ==
  ASSUME RewardInv, CapInv, IsFiniteSet(Registrars), NEW a \in Admins,
         Administering(a), ~Reject(a)
  PROVE  CapInv'
<1>1. UNCHANGED <<generous, reg>>
  BY DEF Administering, AdminRead, Cascade, Release, Reject, rows
<1>2. Inserting' \subseteq Inserting
  BY <1>1 DEF Inserting
<1>3. CASE UNCHANGED <<status, released>>
  <2>1. Charged' \subseteq Charged /\ NoneRejected'
    BY <1>1, <1>3 DEF Charged, Counted, CapInv, NoneRejected
  <2>. QED BY <1>1, <1>2, <2>1, RoomKept DEF CapInv
<1>4. CASE Release(a)
  <2>. DEFINE q == admin[a].on
  <2>1. q \in Rewards
    BY <1>4 DEF RewardInv, Placed, Release
  <2>2. status' = [status EXCEPT ![q] = "pending"] /\ released' = released \cup {q}
    BY <1>4 DEF Release
  <2>3. \A r \in Rewards : r # q => status'[r] = status[r]
    BY <2>2 DEF RewardInv, TypeOK
  <2>4. NoneRejected'
    BY <2>1, <2>2 DEF CapInv, NoneRejected, RewardInv, TypeOK
  <2>5. Charged' \subseteq Charged
    BY <1>1, <2>2, <2>3, ChargedKept
  <2>. QED BY <1>1, <1>2, <2>4, <2>5, RoomKept DEF CapInv
<1>. QED BY <1>3, <1>4 DEF Administering, AdminRead, Cascade, Reject, rows

LEMMA NextCapInv ==
  ASSUME RewardInv, Untried, CapInv, MaxAttempts > 1, IsFiniteSet(Registrars),
         [Next /\ \A a \in Admins : ~Reject(a)]_vars
  PROVE  CapInv'
<1>1. CASE Crash
  <2>1. UNCHANGED <<status, generous, released>> /\ \A g \in Registrars : reg'[g].at = "idle"
    BY <1>1 DEF Crash, rows, NoPlan
  <2>2. Charged' \subseteq Charged /\ NoneRejected' /\ Inserting' \subseteq Inserting
    BY <2>1 DEF Charged, Counted, CapInv, NoneRejected, Inserting
  <2>. QED BY <2>1, <2>2, RoomKept DEF CapInv
<1>2. CASE UNCHANGED <<status, generous, released, reg>>
  <2>1. Charged' \subseteq Charged /\ NoneRejected' /\ Inserting' \subseteq Inserting
    BY <1>2 DEF Charged, Counted, CapInv, NoneRejected, Inserting
  <2>. QED BY <1>2, <2>1, RoomKept DEF CapInv
<1>3. CASE Ripen \/ BeginSweep \/ UNCHANGED vars
  BY <1>2, <1>3 DEF Ripen, BeginSweep, vars, rows
<1>4. CASE \/ \E w \in Workers, r \in Rewards : StartTask(w, r)
           \/ \E r \in Rewards : Visit(r)
  BY <1>2, <1>4 DEF StartTask, Visit, rows
<1>. QED BY <1>1, <1>3, <1>4, ValidateCap, CountCap, InsertCap, WorkCap, AdministeringCap
     DEF Next, Registering

(* No administrator rejects a reward.                                      *)
NobodyRejects == [][\A a \in Admins : ~Reject(a)]_vars

(* However many friends are registered at once by however many register()  *)
(* and sync_bot(), and whatever administrators release, the rewards that   *)
(* count against the cap and were not let go stay below it by less than the*)
(* registrars that may run beside the one at the limit: whoever found room *)
(* (referral.py, _cap_status) holds a place until the row is in.  It takes *)
(* _MAX_ATTEMPTS of more than one, so that a held reward is not given up,  *)
(* and that nobody rejects: a worker inside writes "granted" over it.      *)
THEOREM CapIsKept ==
  ASSUME IsFiniteSet(Registrars), Cap > 0 \/ Registrars # {}, MaxAttempts > 1
  PROVE  Spec /\ NobodyRejects => []CapKept
<1>1. Init => RewardInv /\ Untried /\ CapInv
  BY InitRewardInv, InitUntried, InitCapInv
<1>2. /\ RewardInv /\ Untried /\ CapInv
      /\ [Next]_vars /\ [\A a \in Admins : ~Reject(a)]_vars
      => (RewardInv /\ Untried /\ CapInv)'
  <2>1. [Next]_vars /\ [\A a \in Admins : ~Reject(a)]_vars =>
          [Next /\ \A a \in Admins : ~Reject(a)]_vars
    OBVIOUS
  <2>. QED BY <2>1, NextRewardInv, NextUntried, NextCapInv
<1>3. CapInv => CapKept
  <2>1. /\ Cardinality(Charged) \in Nat /\ Cardinality(Inserting) \in Nat
        /\ Cardinality(Registrars) \in Nat /\ Cap \in Nat
    BY ChargedFinite, InsertingFinite, BoundsAssumption
  <2>. QED BY <2>1 DEF CapInv, RoomTaken, CapKept, Charged
<1>. QED BY <1>1, <1>2, <1>3, PTL DEF Spec, NobodyRejects
-----------------------------------------------------------------------------
(* One request of an administrator at a time: what it lets go is held.     *)
OneAdmin == \A a, b \in Admins : a = b

LEMMA ReleaseStill ==
  ASSUME RewardInv, ReleaseOfHeld, UNCHANGED admin,
         \A r \in Rewards : status[r] = "held" => status'[r] = "held"
  PROVE  ReleaseOfHeld'
<1>. SUFFICES ASSUME NEW a \in Admins, admin'[a].at = "release"
              PROVE  status'[admin'[a].on] = "held"
  BY DEF ReleaseOfHeld
<1>1. admin[a].at = "release" /\ admin[a].on \in Rewards /\ status[admin[a].on] = "held"
  BY DEF ReleaseOfHeld, RewardInv, Placed
<1>. QED BY <1>1

(* A registrar disturbs no row that is there.                              *)
LEMMA RegisteringMonotone ==
  ASSUME RewardInv, NEW g \in Registrars, Registering(g)
  PROVE  /\ Monotone /\ UNCHANGED <<friendMark, inviterMark, got, working, admin>>
         /\ \A r \in Rewards : status[r] # "none" => status'[r] = status[r]
<1>1. UNCHANGED <<friendMark, inviterMark, got, working, admin>>
  BY DEF Registering, Register, Validate, Count, Insert, RegisterFailed, rows
<1>2. \A r \in Rewards : status[r] # "none" =>
        status'[r] = status[r] /\ generous'[r] = generous[r]
  BY DEF Registering, Register, Validate, Count, Insert, RegisterFailed, rows,
         RewardInv, TypeOK
<1>3. \A r \in Rewards : friendGot'[r] >= friendGot[r] /\ inviterGot'[r] >= inviterGot[r]
  BY <1>1 DEF RewardInv, TypeOK, got
<1>. QED BY <1>1, <1>2, <1>3 DEF Monotone

LEMMA NextReleaseOfHeld ==
  ASSUME OneAdmin, MaxAttempts > 1, RewardInv, Untried, ReleaseOfHeld, [Next]_vars
  PROVE  ReleaseOfHeld'
<1>1. CASE \E w \in Workers : Work(w)
  <2>1. PICK w \in Workers : Work(w)
    BY <1>1
  <2>2. UNCHANGED admin
    BY <2>1, WorkEffect
  <2>. QED BY <2>1, <2>2, WorkStatus, ReleaseStill
<1>2. CASE \E g \in Registrars : Registering(g)
  <2>1. /\ UNCHANGED admin
        /\ \A r \in Rewards : status[r] = "held" => status'[r] = "held"
    BY <1>2, RegisteringMonotone
  <2>. QED BY <2>1, ReleaseStill
<1>3. CASE \E a \in Admins : Administering(a)
  <2>1. PICK a \in Admins : Administering(a)
    BY <1>3
  <2>2. admin \in [Admins -> Requests]
    BY DEF RewardInv, TypeOK
  <2>3. \A b \in Admins : b = a
    BY DEF OneAdmin
  <2>4. admin'[a].at = "release" => status'[admin'[a].on] = "held"
    <3>1. CASE \E r \in Rewards : AdminRead(a, r)
      <4>1. PICK r \in Rewards : AdminRead(a, r)
        BY <3>1
      <4>2. UNCHANGED status
        BY <4>1 DEF AdminRead, rows
      <4>3. \E at \in {"release", "cascade", "reject"} :
              /\ admin' = [admin EXCEPT ![a] = [NoRequest EXCEPT !.at = at, !.on = r]]
              /\ at = "release" => status[r] = "held"
        BY <4>1 DEF AdminRead
      <4>4. PICK at \in {"release", "cascade", "reject"} :
              /\ admin' = [admin EXCEPT ![a] = [NoRequest EXCEPT !.at = at, !.on = r]]
              /\ at = "release" => status[r] = "held"
        BY <4>3
      <4>5. admin'[a] = [NoRequest EXCEPT !.at = at, !.on = r]
        BY <2>2, <4>4
      <4>6. admin'[a].at = at /\ admin'[a].on = r
        BY <4>5 DEF NoRequest
      <4>. QED BY <4>2, <4>4, <4>6
    <3>2. CASE Cascade(a)
      BY <2>2, <3>2 DEF Cascade, Requests
    <3>3. CASE Release(a) \/ Reject(a)
      BY <2>2, <3>3 DEF Release, Reject, NoRequest
    <3>. QED BY <2>1, <3>1, <3>2, <3>3 DEF Administering
  <2>. QED BY <2>3, <2>4 DEF ReleaseOfHeld
<1>4. CASE Crash
  BY <1>4 DEF Crash, NoRequest, ReleaseOfHeld
<1>5. CASE UNCHANGED <<status, admin>>
  BY <1>5, ReleaseStill
<1>6. CASE \/ Ripen \/ BeginSweep \/ UNCHANGED vars
           \/ \E w \in Workers, r \in Rewards : StartTask(w, r)
           \/ \E r \in Rewards : Visit(r)
  BY <1>5, <1>6 DEF Ripen, BeginSweep, StartTask, Visit, vars, rows
<1>. QED BY <1>1, <1>2, <1>3, <1>4, <1>6 DEF Next
-----------------------------------------------------------------------------
(* Whoever is about to give something is alone inside.                     *)
Giving == {"friend", "friendSave", "inviter", "inviterSave"}

LEMMA Alone ==
  ASSUME RewardInv, GivenInv, NEW w \in Workers, pc[w] \in Giving,
         NEW v \in Workers, Inside(v), job[v] = job[w]
  PROVE  v = w
<1>. DEFINE r == job[w]
<1>1. r \in Rewards /\ Inside(w) /\ On(w, r) /\ On(v, r)
  BY DEF RewardInv, WorkerOK, Giving, Inside, On
<1>2. LockOK(r) /\ DebtOK(w)
  BY <1>1 DEF GivenInv
<1>3. ~Settled(r)
  <2>1. \/ OwesFriend(r, loc[w]) /\ ~friendMark[r]
        \/ OwesInviter(r, loc[w]) /\ ~inviterMark[r]
    BY <1>1, <1>2 DEF DebtOK, Giving
  <2>. QED BY <2>1 DEF Settled, OwesFriend, OwesInviter
<1>4. ~Over(r)
  BY <1>1 DEF Over
<1>. QED BY <1>1, <1>2, <1>3, <1>4 DEF LockOK, Orderly

(* Marks stay, and so does what the reward is.                             *)
LEMMA SettledStays ==
  ASSUME NEW r \in Rewards, Settled(r), generous'[r] = generous[r],
         friendMark[r] => friendMark'[r], inviterMark[r] => inviterMark'[r]
  PROVE  Settled(r)'
BY DEF Settled, Kind

(* A step that lets nobody in to row r, nor to its lock.                   *)
LEMMA LockKept ==
  ASSUME NEW r \in Rewards, LockOK(r), locks'[r] = locks[r],
         generous'[r] = generous[r],
         friendMark[r] => friendMark'[r], inviterMark[r] => inviterMark'[r],
         \A w \in Workers : On(w, r)' => /\ On(w, r) /\ zamok'[w] = zamok[w]
                                         /\ Inside(w)' => Inside(w),
         status[r] \in Terminal =>
           /\ status'[r] \in Terminal
           /\ \A a \in Admins : admin'[a].at = "release" /\ admin'[a].on = r =>
                admin[a].at = "release" /\ admin[a].on = r
  PROVE  LockOK(r)'
<1>1. CASE Settled(r)
  BY <1>1, SettledStays DEF LockOK
<1>2. CASE Orderly(r)
  <2>1. \A w \in Workers : On(w, r)' => zamok'[w] = locks'[r] /\ locks'[r] # NoLock
    BY <1>2 DEF Orderly
  <2>2. \A v, w \in Workers : On(v, r)' /\ On(w, r)' /\ Inside(v)' /\ Inside(w)' => v = w
    BY <1>2 DEF Orderly
  <2>. QED BY <2>1, <2>2 DEF LockOK, Orderly
<1>3. CASE Over(r)
  BY <1>3 DEF LockOK, Over
<1>. QED BY <1>1, <1>2, <1>3 DEF LockOK

(* Steps that move no worker.                                              *)
LEMMA LocksStill ==
  ASSUME RewardInv, Monotone, NEW r \in Rewards, LockOK(r), UNCHANGED working,
         status[r] # "none",
         status[r] \in Terminal =>
           /\ status'[r] \in Terminal
           /\ \A a \in Admins : admin'[a].at = "release" /\ admin'[a].on = r =>
                admin[a].at = "release" /\ admin[a].on = r
  PROVE  LockOK(r)'
<1>1. \A w \in Workers : On(w, r)' => /\ On(w, r) /\ zamok'[w] = zamok[w]
                                      /\ Inside(w)' => Inside(w)
  BY DEF On, Inside, working
<1>2. /\ generous'[r] = generous[r] /\ locks'[r] = locks[r]
      /\ friendMark[r] => friendMark'[r]
      /\ inviterMark[r] => inviterMark'[r]
  BY DEF Monotone, working
<1>. QED BY <1>1, <1>2, LockKept

(* A row nobody is on needs no lock.                                       *)
LEMMA NobodyOn ==
  ASSUME NEW r \in Rewards, \A w \in Workers : ~On(w, r)'
  PROVE  LockOK(r)'
BY DEF LockOK, Orderly

LEMMA AbsentNobody ==
  ASSUME RewardInv, NEW r \in Rewards, status[r] = "none"
  PROVE  \A w \in Workers : ~On(w, r)
BY DEF RewardInv, WorkerOK, On

LEMMA OpenLock ==
  ASSUME RewardInv, NEW w \in Workers, NEW q \in Rewards, Open(w, q), pc[w] = "idle",
         UNCHANGED <<rows, admin>>, NEW r \in Rewards, LockOK(r)
  PROVE  LockOK(r)'
<1>1. /\ \A v \in Workers : v # w => UNCHANGED <<pc[v], job[v], loc[v], zamok[v]>>
      /\ pc'[w] = "wait" /\ job'[w] = q
      /\ zamok'[w] = locks'[q] /\ locks'[q] # NoLock
      /\ locks[q] # NoLock => UNCHANGED locks
      /\ \A p \in Rewards : p # q => locks'[p] = locks[p]
  BY OpenEffect DEF RewardInv
<1>2. CASE r # q
  <2>1. \A v \in Workers : On(v, r)' => /\ On(v, r) /\ zamok'[v] = zamok[v]
                                        /\ Inside(v)' => Inside(v)
    BY <1>1, <1>2 DEF On, Inside
  <2>. QED BY <1>1, <1>2, <2>1, LockKept DEF rows
<1>3. CASE r = q
  <2>1. \A v \in Workers : On(v, r)' => /\ v = w \/ (On(v, r) /\ zamok'[v] = zamok[v])
                                        /\ Inside(v)' => Inside(v) /\ v # w
    BY <1>1, <1>3 DEF On, Inside
  <2>2. CASE Settled(r)
    BY <2>2, SettledStays DEF LockOK, rows
  <2>3. CASE Orderly(r)
    <3>1. \A v \in Workers : On(v, r) => UNCHANGED locks /\ zamok[v] = locks[r]
      BY <1>1, <1>3, <2>3 DEF Orderly
    <3>2. \A v \in Workers : On(v, r)' => zamok'[v] = locks'[r] /\ locks'[r] # NoLock
      BY <1>1, <1>3, <2>1, <3>1
    <3>3. \A u, v \in Workers : On(u, r)' /\ On(v, r)' /\ Inside(u)' /\ Inside(v)' => u = v
      BY <2>1, <2>3 DEF Orderly
    <3>. QED BY <3>2, <3>3 DEF LockOK, Orderly
  <2>4. CASE Over(r)
    <3>1. \A v \in Workers : On(v, r)' => ~Inside(v)'
      BY <2>1, <2>4 DEF Over
    <3>. QED BY <2>4, <3>1 DEF LockOK, Over, rows
  <2>. QED BY <2>2, <2>3, <2>4 DEF LockOK
<1>. QED BY <1>2, <1>3

(* Whoever enters finds nobody inside with the same lock.                  *)
LEMMA EnterLock ==
  ASSUME RewardInv, ReleaseOfHeld, NEW w \in Workers, Enter(w),
         NEW r \in Rewards, LockOK(r), r = job[w]
  PROVE  LockOK(r)'
<1>1. /\ pc[w] = "wait" /\ On(w, r) /\ status[r] \in Statuses \ {"none"}
      /\ \A v \in Workers : Inside(v) => zamok[v] # zamok[w]
      /\ UNCHANGED <<rows, admin>>
  BY DEF Enter, On, RewardInv, TypeOK, WorkerOK
<1>2. /\ \A v \in Workers : v # w => UNCHANGED <<pc[v], job[v], loc[v], zamok[v]>>
      /\ pc'[w] = "idle" \/ UNCHANGED <<job, zamok, locks>>
  BY WorkEffect DEF Work
<1>3. \A v \in Workers : On(v, r)' =>
        On(v, r) /\ zamok'[v] = zamok[v] /\ (Inside(v)' => Inside(v) \/ v = w)
  BY <1>1, <1>2 DEF On, Inside
<1>4. CASE Settled(r)
  BY <1>1, <1>4, SettledStays DEF LockOK, rows
<1>5. CASE Orderly(r)
  <2>1. \A v \in Workers : On(v, r) => ~Inside(v)
    BY <1>1, <1>5 DEF Orderly
  <2>2. CASE status[r] \in {"pending", "held"}
    <3>1. \E copy : Proceed(w, copy)
      BY <2>2 DEF Enter
    <3>2. UNCHANGED locks
      BY <3>1, ProceedEffect DEF RewardInv
    <3>3. \A v \in Workers : On(v, r)' => zamok'[v] = locks'[r] /\ locks'[r] # NoLock
      BY <1>3, <1>5, <3>2 DEF Orderly
    <3>4. \A u, v \in Workers : On(u, r)' /\ On(v, r)' /\ Inside(u)' /\ Inside(v)' => u = v
      BY <1>3, <2>1
    <3>. QED BY <3>3, <3>4 DEF LockOK, Orderly
  <2>3. CASE status[r] \notin {"pending", "held"}
    <3>1. pc'[w] = "idle"
      BY <2>3 DEF Enter, Leave, RewardInv, TypeOK
    <3>2. \A v \in Workers : On(v, r)' => ~Inside(v)'
      BY <1>3, <2>1, <3>1 DEF Inside
    <3>3. \A a \in Admins : admin[a].at = "release" => admin[a].on # r
      BY <2>3 DEF ReleaseOfHeld
    <3>4. status'[r] \in Terminal /\ UNCHANGED admin
      BY <1>1, <2>3 DEF Terminal, Statuses, rows
    <3>. QED BY <3>2, <3>3, <3>4 DEF LockOK, Over
  <2>. QED BY <2>2, <2>3
<1>6. CASE Over(r)
  <2>1. status[r] \notin {"pending", "held"}
    BY <1>6 DEF Over, Terminal
  <2>2. pc'[w] = "idle"
    BY <2>1 DEF Enter, Leave, RewardInv, TypeOK
  <2>3. \A v \in Workers : On(v, r)' => ~Inside(v)'
    BY <1>3, <1>6, <2>2 DEF Inside, Over
  <2>. QED BY <1>1, <1>6, <2>3 DEF LockOK, Over, rows
<1>. QED BY <1>4, <1>5, <1>6 DEF LockOK

(* A worker at its end has nothing left to give.                           *)
LEMMA FinishSettled ==
  ASSUME RewardInv, NEW w \in Workers, pc[w] = "finish", NEW r \in Rewards, r = job[w]
  PROVE  Settled(r)
BY DEF RewardInv, WorkerOK, Inside, OwesFriend, OwesInviter, Settled

(* Whoever leaves from inside keeps the lock in the dictionary, or leaves  *)
(* a row that is settled, or has just been given up.                       *)
LEMMA InsideLeaves ==
  ASSUME RewardInv, NEW w \in Workers, Work(w), Inside(w), NEW r \in Rewards, r = job[w]
  PROVE  \/ UNCHANGED locks
         \/ Settled(r)
         \/ status'[r] = "failed" /\ pc'[w] = "idle"
<1>0. TypeOK
  BY DEF RewardInv
<1>1. CASE pc[w] = "finish"
  BY <1>1, FinishSettled
<1>2. CASE pc[w] # "finish" /\ (\/ \E copy : Proceed(w, copy)
                                \/ \E stage, copy : Goto(w, stage, copy)
                                \/ Leave(w, FALSE))
  BY <1>0, <1>2, ProceedEffect, GoEffect, LeaveEffect
<1>3. CASE RecordFailure(w)
  <2>. DEFINE tries == loc[w].attempts + 1
  <2>1. CASE tries >= MaxAttempts
    BY <1>0, <1>3, <2>1 DEF RecordFailure, Leave, TypeOK
  <2>2. CASE ~(tries >= MaxAttempts)
    BY <1>3, <2>2 DEF RecordFailure, Leave
  <2>. QED BY <2>1, <2>2
<1>4. \/ pc[w] = "finish" \/ RecordFailure(w)
      \/ \E copy : Proceed(w, copy)
      \/ \E stage, copy : Goto(w, stage, copy)
      \/ Leave(w, FALSE)
  <2>1. ~Enter(w)
    BY DEF Enter, Inside
  <2>. QED BY <2>1 DEF Work, Grant, GrantFailed, AnswerLost, SaveMark, Finish, SaveFailed
<1>. QED BY <1>1, <1>2, <1>3, <1>4

LEMMA WorkMarks ==
  ASSUME RewardInv, NEW w \in Workers, Work(w)
  PROVE  \A r \in Rewards : /\ friendMark[r] => friendMark'[r]
                            /\ inviterMark[r] => inviterMark'[r]
<1>1. CASE Enter(w) \/ Grant(w) \/ GrantFailed(w) \/ AnswerLost(w) \/ Finish(w)
  BY <1>1 DEF Enter, Grant, GrantFailed, AnswerLost, Finish, rows
<1>2. CASE SaveMark(w) \/ SaveFailed(w)
  <2>1. UNCHANGED <<friendMark, inviterMark>> \/ Marked(w)
    BY <1>2 DEF SaveMark, SaveFailed
  <2>. QED BY <2>1, MarkedKeeps
<1>. QED BY <1>1, <1>2 DEF Work

LEMMA WorkLock ==
  ASSUME MaxAttempts > 1, RewardInv, Untried, GivenInv, NEW w \in Workers, Work(w),
         NEW r \in Rewards
  PROVE  LockOK(r)'
<1>1. LockOK(r) /\ ReleaseOfHeld
  BY DEF GivenInv
<1>2. /\ UNCHANGED <<generous, admin>>
      /\ \A v \in Workers : v # w => UNCHANGED <<pc[v], job[v], loc[v], zamok[v]>>
      /\ pc'[w] = "idle" \/ UNCHANGED <<job, zamok, locks>>
      /\ r # job[w] => locks'[r] = locks[r]
  BY WorkEffect
<1>3. /\ friendMark[r] => friendMark'[r]
      /\ inviterMark[r] => inviterMark'[r]
  BY WorkMarks
<1>4. /\ status[r] \in Terminal => status'[r] \in Terminal
      /\ status[r] = "held" => status'[r] = "held"
  BY WorkStatus DEF Terminal
<1>5. CASE Enter(w) /\ r = job[w]
  BY <1>1, <1>5, EnterLock
<1>6. CASE ~(Enter(w) /\ r = job[w])
  <2>1. \A v \in Workers : On(v, r)' => /\ On(v, r) /\ zamok'[v] = zamok[v]
                                        /\ Inside(v)' => Inside(v)
    <3>1. Inside(w) \/ r # job[w]
      BY <1>6 DEF Work, Inside, Grant, GrantFailed, AnswerLost, SaveMark, Finish, SaveFailed,
                  Extended, Marked
    <3>2. pc[w] # "idle"
      BY WorkOwnRow
    <3>. QED BY <1>2, <3>1, <3>2 DEF On, Inside
  <2>2. CASE locks'[r] = locks[r]
    BY <1>1, <1>2, <1>3, <1>4, <2>1, <2>2, LockKept
  <2>3. CASE locks'[r] # locks[r]
    <3>1. r = job[w] /\ Inside(w)
      BY <1>2, <1>6, <2>3 DEF Work, Inside, Grant, GrantFailed, AnswerLost, SaveMark, Finish,
                              SaveFailed, Extended, Marked
    <3>2. CASE Settled(r)
      BY <1>2, <1>3, <3>2, SettledStays DEF LockOK
    <3>3. CASE ~Settled(r)
      <4>1. status'[r] = "failed" /\ pc'[w] = "idle"
        BY <2>3, <3>1, <3>3, InsideLeaves
      <4>2. On(w, r) /\ Orderly(r)
        BY <1>1, <3>1, <3>3 DEF LockOK, Over, On, Inside
      <4>3. \A v \in Workers : On(v, r)' => ~Inside(v)'
        BY <2>1, <3>1, <4>1, <4>2 DEF Orderly, On, Inside
      <4>4. \A a \in Admins : admin'[a].at = "release" => admin'[a].on # r
        BY <1>1, <1>2, <1>4, <4>1 DEF ReleaseOfHeld
      <4>. QED BY <4>1, <4>3, <4>4 DEF LockOK, Over, Terminal
    <3>. QED BY <3>2, <3>3
  <2>. QED BY <2>2, <2>3
<1>. QED BY <1>5, <1>6

LEMMA AdministeringMonotone ==
  ASSUME RewardInv, NEW a \in Admins, Administering(a)
  PROVE  Monotone
<1>1. UNCHANGED <<generous, friendMark, inviterMark, got>>
  BY DEF Administering, AdminRead, Cascade, Release, Reject, rows
<1>2. \A r \in Rewards : \/ status'[r] = status[r]
                         \/ status'[r] \notin {"none", "held"}
  BY DEF Administering, AdminRead, Cascade, Release, Reject, rows, RewardInv, TypeOK
<1>. QED BY <1>1, <1>2 DEF Monotone, got, RewardInv, TypeOK

LEMMA AdministeringLock ==
  ASSUME RewardInv, GivenInv, NEW a \in Admins, Administering(a), NEW r \in Rewards
  PROVE  LockOK(r)'
<1>1. LockOK(r) /\ Monotone /\ UNCHANGED working /\ admin \in [Admins -> Requests]
  BY AdministeringMonotone
     DEF GivenInv, Administering, AdminRead, Cascade, Release, Reject, RewardInv, TypeOK
<1>2. CASE status[r] = "none"
  <2>1. \A w \in Workers : ~On(w, r)'
    BY <1>1, <1>2, AbsentNobody DEF On, working
  <2>. QED BY <2>1, NobodyOn
<1>3. CASE status[r] # "none"
  <2>1. ASSUME status[r] \in Terminal PROVE status'[r] \in Terminal
    <3>1. CASE Release(a)
      <4>1. r # admin[a].on
        BY <2>1, <3>1 DEF GivenInv, ReleaseOfHeld, Release, Terminal
      <4>. QED BY <2>1, <3>1, <4>1 DEF Release, RewardInv, TypeOK
    <3>2. CASE ~Release(a)
      BY <2>1, <3>2 DEF Administering, AdminRead, Cascade, Reject, rows, Terminal
    <3>. QED BY <3>1, <3>2
  <2>2. ASSUME status[r] \in Terminal, NEW b \in Admins, admin'[b].at = "release",
               admin'[b].on = r
        PROVE  admin[b].at = "release" /\ admin[b].on = r
    <3>1. CASE b # a
      BY <1>1, <2>2, <3>1 DEF Administering, AdminRead, Cascade, Release, Reject
    <3>2. CASE b = a
      <4>1. PICK q \in Rewards : AdminRead(a, q)
        <5>1. CASE Cascade(a)
          BY <1>1, <2>2, <3>2, <5>1 DEF Cascade, Requests
        <5>2. CASE Release(a) \/ Reject(a)
          BY <1>1, <2>2, <3>2, <5>2 DEF Release, Reject, NoRequest
        <5>. QED BY <5>1, <5>2 DEF Administering
      <4>2. CASE /\ status[q] = "held"
                 /\ admin' = [admin EXCEPT ![a] = [NoRequest EXCEPT !.at = "release", !.on = q]]
        <5>1. admin'[a] = [NoRequest EXCEPT !.at = "release", !.on = q]
          BY <1>1, <4>2
        <5>2. q = r
          BY <2>2, <3>2, <5>1 DEF NoRequest
        <5>. QED BY <2>2, <4>2, <5>2 DEF Terminal
      <4>3. CASE \E at \in {"cascade", "reject"} :
                   admin' = [admin EXCEPT ![a] = [NoRequest EXCEPT !.at = at, !.on = q]]
        <5>1. PICK at \in {"cascade", "reject"} :
                admin' = [admin EXCEPT ![a] = [NoRequest EXCEPT !.at = at, !.on = q]]
          BY <4>3
        <5>2. admin'[a] = [NoRequest EXCEPT !.at = at, !.on = q]
          BY <1>1, <5>1
        <5>. QED BY <2>2, <3>2, <5>2 DEF NoRequest
      <4>. QED BY <4>1, <4>2, <4>3 DEF AdminRead
    <3>. QED BY <3>1, <3>2
  <2>. QED BY <1>1, <1>3, <2>1, <2>2, LocksStill
<1>. QED BY <1>2, <1>3

LEMMA NextLock ==
  ASSUME MaxAttempts > 1, RewardInv, Untried, GivenInv, [Next]_vars, NEW r \in Rewards
  PROVE  LockOK(r)'
<1>1. LockOK(r)
  BY DEF GivenInv
<1>2. CASE \E g \in Registrars : Registering(g)
  <2>1. PICK g \in Registrars : Registering(g)
    BY <1>2
  <2>2. CASE status[r] = "none"
    <3>1. \A w \in Workers : ~On(w, r)'
      BY <2>1, <2>2, RegisteringMonotone, AbsentNobody DEF On, working
    <3>. QED BY <3>1, NobodyOn
  <2>3. CASE status[r] # "none"
    BY <1>1, <2>1, <2>3, RegisteringMonotone, LocksStill
  <2>. QED BY <2>2, <2>3
<1>3. CASE \/ \E w \in Workers, q \in Rewards : StartTask(w, q)
           \/ \E q \in Rewards : Visit(q)
  BY <1>1, <1>3, OpenLock, WorkersAssumption DEF StartTask, Visit
<1>4. CASE Crash
  <2>1. \A w \in Workers : ~On(w, r)'
    BY <1>4 DEF Crash, On
  <2>. QED BY <2>1, NobodyOn
<1>5. CASE Ripen \/ BeginSweep \/ UNCHANGED vars
  <2>1. UNCHANGED <<rows, working, admin>>
    BY <1>5 DEF Ripen, BeginSweep, vars
  <2>2. \A w \in Workers : On(w, r)' => /\ On(w, r) /\ zamok'[w] = zamok[w]
                                        /\ Inside(w)' => Inside(w)
    BY <2>1 DEF On, Inside, working
  <2>. QED BY <1>1, <2>1, <2>2, LockKept DEF rows, working
<1>. QED BY <1>2, <1>3, <1>4, <1>5, WorkLock, AdministeringLock DEF Next
-----------------------------------------------------------------------------
(* What is owed.  A worker the step does not move still owes what it owed, *)
(* since nobody else marks the row it is inside of.                        *)
LEMMA DebtKept ==
  ASSUME NEW w \in Workers, DebtOK(w), UNCHANGED <<pc[w], job[w], loc[w]>>,
         Inside(w) => /\ generous'[job[w]] = generous[job[w]]
                      /\ friendMark'[job[w]] = friendMark[job[w]]
                      /\ inviterMark'[job[w]] = inviterMark[job[w]]
  PROVE  DebtOK(w)'
<1>1. CASE ~Inside(w)
  BY <1>1 DEF DebtOK, Inside
<1>2. CASE Inside(w)
  BY <1>2 DEF DebtOK, Inside, OwesFriend, OwesInviter
<1>. QED BY <1>1, <1>2

LEMMA IdleDebt ==
  ASSUME NEW w \in Workers, pc'[w] \in {"idle", "wait"}
  PROVE  DebtOK(w)'
BY DEF DebtOK, Inside

(* Where process() goes from a copy that owes only what the row owes.      *)
LEMMA ProceedDebt ==
  ASSUME RewardInv, NEW w \in Workers, NEW copy, Proceed(w, copy), UNCHANGED generous,
         OwesFriend(job[w], copy) => ~friendMark'[job[w]],
         OwesInviter(job[w], copy) => ~inviterMark'[job[w]]
  PROVE  DebtOK(w)'
<1>1. CASE pc'[w] = "idle"
  BY <1>1, IdleDebt
<1>2. CASE pc'[w] # "idle"
  <2>1. /\ job'[w] = job[w] /\ loc'[w] = copy
        /\ \/ pc'[w] = "friend" /\ OwesFriend(job[w], copy)
           \/ pc'[w] = "inviter" /\ OwesInviter(job[w], copy)
           \/ pc'[w] = "finish"
    BY <1>2, ProceedEffect DEF RewardInv
  <2>2. /\ OwesFriend(job[w], loc[w])' <=> OwesFriend(job[w], copy)
        /\ OwesInviter(job[w], loc[w])' <=> OwesInviter(job[w], copy)
    BY <2>1 DEF OwesFriend, OwesInviter
  <2>. QED BY <2>1, <2>2 DEF DebtOK
<1>. QED BY <1>1, <1>2

LEMMA SaveMarkDebt ==
  ASSUME RewardInv, NEW w \in Workers, DebtOK(w), SaveMark(w)
  PROVE  DebtOK(w)'
<1>. DEFINE r == job[w]
            copy == [loc[w] EXCEPT !.friendMark = @ \/ pc[w] = "friendSave",
                                   !.inviterMark = @ \/ pc[w] = "inviterSave"]
<1>1. Marked(w) /\ Proceed(w, copy) /\ UNCHANGED generous
  BY DEF SaveMark
<1>2. /\ pc[w] \in {"friendSave", "inviterSave"} /\ Inside(w)
      /\ pc[w] # "friendSave" => UNCHANGED friendMark
      /\ pc[w] # "inviterSave" => UNCHANGED inviterMark
  BY <1>1 DEF Marked, Inside
<1>3. /\ copy.friendMark = (loc[w].friendMark \/ pc[w] = "friendSave")
      /\ copy.inviterMark = (loc[w].inviterMark \/ pc[w] = "inviterSave")
  BY DEF RewardInv, TypeOK, Copies
<1>. HIDE DEF copy
<1>4. /\ OwesFriend(r, copy) => OwesFriend(r, loc[w]) /\ pc[w] # "friendSave"
      /\ OwesInviter(r, copy) => OwesInviter(r, loc[w]) /\ pc[w] # "inviterSave"
  BY <1>3 DEF OwesFriend, OwesInviter
<1>5. /\ OwesFriend(r, copy) => ~friendMark'[r]
      /\ OwesInviter(r, copy) => ~inviterMark'[r]
  BY <1>2, <1>4 DEF DebtOK
<1>. QED BY <1>1, <1>5, ProceedDebt

LEMMA EnterDebt ==
  ASSUME RewardInv, NEW w \in Workers, Enter(w)
  PROVE  DebtOK(w)'
<1>. DEFINE r == job[w]
            copy == [status |-> status[r], friendMark |-> friendMark[r],
                     inviterMark |-> inviterMark[r], attempts |-> attempts[r]]
<1>1. (Proceed(w, copy) \/ Leave(w, TRUE)) /\ UNCHANGED rows
  BY DEF Enter
<1>2. copy.friendMark = friendMark[r] /\ copy.inviterMark = inviterMark[r]
  OBVIOUS
<1>. HIDE DEF copy
<1>3. /\ OwesFriend(r, copy) => ~friendMark'[r]
      /\ OwesInviter(r, copy) => ~inviterMark'[r]
  BY <1>1, <1>2 DEF OwesFriend, OwesInviter, rows
<1>4. CASE Proceed(w, copy)
  BY <1>1, <1>3, <1>4, ProceedDebt DEF rows
<1>5. CASE Leave(w, TRUE)
  BY <1>5, LeaveEffect, IdleDebt DEF RewardInv
<1>. QED BY <1>1, <1>4, <1>5

LEMMA GrantDebt ==
  ASSUME RewardInv, NEW w \in Workers, DebtOK(w), Grant(w)
  PROVE  DebtOK(w)'
<1>1. /\ UNCHANGED <<job, generous, friendMark, inviterMark>> /\ loc'[w] = loc[w]
      /\ \/ pc[w] = "friend" /\ pc'[w] = "friendSave"
         \/ pc[w] = "inviter" /\ pc'[w] = "inviterSave"
  BY GoEffect DEF Grant, Extended, rows, RewardInv
<1>. QED BY <1>1 DEF DebtOK, Inside, OwesFriend, OwesInviter

(* Only the worker that gave marks the row.                                *)
LEMMA MarksOf ==
  ASSUME RewardInv, GivenInv, NEW w \in Workers, Work(w), NEW v \in Workers, v # w, Inside(v)
  PROVE  /\ generous'[job[v]] = generous[job[v]]
         /\ friendMark'[job[v]] = friendMark[job[v]]
         /\ inviterMark'[job[v]] = inviterMark[job[v]]
<1>1. job[v] \in Rewards /\ UNCHANGED generous
  BY WorkEffect DEF RewardInv, WorkerOK, Inside
<1>2. CASE UNCHANGED <<friendMark, inviterMark>>
  BY <1>1, <1>2
<1>3. CASE Marked(w)
  <2>1. pc[w] \in Giving
    BY <1>3 DEF Marked, Giving
  <2>2. job[v] # job[w]
    BY <2>1, Alone
  <2>. QED BY <1>1, <2>2, WorkOwnRow
<1>4. UNCHANGED <<friendMark, inviterMark>> \/ Marked(w)
  BY DEF Work, Enter, Grant, GrantFailed, AnswerLost, SaveMark, Finish, SaveFailed, rows
<1>. QED BY <1>2, <1>3, <1>4

LEMMA WorkDebt ==
  ASSUME RewardInv, GivenInv, NEW w \in Workers, Work(w), NEW v \in Workers
  PROVE  DebtOK(v)'
<1>1. DebtOK(v) /\ DebtOK(w)
  BY DEF GivenInv
<1>2. CASE v # w
  <2>1. UNCHANGED <<pc[v], job[v], loc[v]>>
    BY <1>2, WorkEffect
  <2>. QED BY <1>1, <1>2, <2>1, MarksOf, DebtKept
<1>3. CASE v = w
  <2>1. CASE Enter(w) \/ Grant(w) \/ SaveMark(w)
    BY <1>1, <1>3, <2>1, EnterDebt, GrantDebt, SaveMarkDebt
  <2>2. CASE GrantFailed(w) \/ AnswerLost(w) \/ Finish(w) \/ SaveFailed(w)
    <3>1. pc'[w] = "idle"
      BY <2>2 DEF GrantFailed, AnswerLost, Finish, SaveFailed, RecordFailure, Leave,
                  RewardInv, TypeOK
    <3>. QED BY <1>3, <3>1, IdleDebt
  <2>. QED BY <2>1, <2>2 DEF Work
<1>. QED BY <1>2, <1>3

LEMMA NextDebt ==
  ASSUME RewardInv, GivenInv, [Next]_vars, NEW v \in Workers
  PROVE  DebtOK(v)'
<1>1. DebtOK(v) /\ (Inside(v) => job[v] \in Rewards /\ status[job[v]] # "none")
  BY DEF GivenInv, RewardInv, WorkerOK, Inside
<1>2. CASE \E g \in Registrars : Registering(g)
  <2>1. /\ UNCHANGED <<pc, job, loc, friendMark, inviterMark>>
        /\ \A r \in Rewards : status[r] # "none" => generous'[r] = generous[r]
    BY <1>2, RegisteringMonotone DEF Monotone, working
  <2>. QED BY <1>1, <2>1, DebtKept
<1>3. CASE \/ \E a \in Admins : Administering(a)
           \/ Ripen \/ BeginSweep \/ UNCHANGED vars
  <2>1. UNCHANGED <<pc, job, loc, generous, friendMark, inviterMark>>
    BY <1>3 DEF Administering, AdminRead, Cascade, Release, Reject, Ripen, BeginSweep, vars,
                rows, working
  <2>. QED BY <1>1, <2>1, DebtKept
<1>4. CASE \/ \E w \in Workers, q \in Rewards : StartTask(w, q)
           \/ \E q \in Rewards : Visit(q)
  <2>1. PICK w \in Workers, q \in Rewards : /\ Open(w, q) /\ pc[w] = "idle"
                                            /\ UNCHANGED rows
    BY <1>4, WorkersAssumption DEF StartTask, Visit
  <2>2. /\ \A u \in Workers : u # w => UNCHANGED <<pc[u], job[u], loc[u]>>
        /\ pc'[w] = "wait"
    BY <2>1, OpenEffect DEF RewardInv
  <2>. QED BY <1>1, <2>1, <2>2, DebtKept, IdleDebt DEF rows
<1>5. CASE Crash
  BY <1>5, IdleDebt DEF Crash
<1>. QED BY <1>2, <1>3, <1>4, <1>5, WorkDebt DEF Next
-----------------------------------------------------------------------------
(* How often they were extended.                                           *)
LEMMA CountsKept ==
  ASSUME RewardInv, RewardInv', NEW r \in Rewards, CountsOK(r),
         friendGot'[r] = friendGot[r], inviterGot'[r] = inviterGot[r],
         \/ /\ faults' >= faults
            /\ FriendTold(r) => FriendTold(r)'
            /\ InviterTold(r) => InviterTold(r)'
         \/ /\ faults' = faults + 1
            /\ (FriendTold(r) => FriendTold(r)') \/ (InviterTold(r) => InviterTold(r)')
  PROVE  CountsOK(r)'
<1>1. /\ friendGot[r] \in Nat /\ inviterGot[r] \in Nat /\ faults \in Nat /\ faults' \in Nat
  BY DEF RewardInv, TypeOK
<1>2. /\ friendGot[r] <= One(FriendTold(r)) + faults
      /\ inviterGot[r] <= One(InviterTold(r)) + faults
      /\ friendGot[r] + inviterGot[r] <= One(FriendTold(r)) + One(InviterTold(r)) + faults
  BY DEF CountsOK
<1>3. /\ One(FriendTold(r)) \in {0, 1} /\ One(FriendTold(r)') \in {0, 1}
      /\ One(InviterTold(r)) \in {0, 1} /\ One(InviterTold(r)') \in {0, 1}
      /\ (FriendTold(r) => FriendTold(r)') => One(FriendTold(r)) <= One(FriendTold(r)')
      /\ (InviterTold(r) => InviterTold(r)') => One(InviterTold(r)) <= One(InviterTold(r)')
  BY DEF One
<1>. DEFINE f == One(FriendTold(r))  F == One(FriendTold(r)')
            i == One(InviterTold(r)) I == One(InviterTold(r)')
<1>4. /\ friendGot[r] <= F + faults'
      /\ inviterGot[r] <= I + faults'
      /\ friendGot[r] + inviterGot[r] <= F + I + faults'
  <2>. HIDE DEF f, F, i, I
  <2>0. /\ f \in {0, 1} /\ F \in {0, 1} /\ i \in {0, 1} /\ I \in {0, 1}
        /\ friendGot[r] <= f + faults /\ inviterGot[r] <= i + faults
        /\ friendGot[r] + inviterGot[r] <= f + i + faults
    BY <1>2, <1>3 DEF f, F, i, I
  <2>1. CASE faults' >= faults /\ f <= F /\ i <= I
    BY <1>1, <2>0, <2>1
  <2>2. CASE faults' = faults + 1 /\ (f <= F \/ i <= I)
    BY <1>1, <2>0, <2>2
  <2>. QED BY <1>3, <2>1, <2>2 DEF f, F, i, I
<1>5. CountsOK(r)' <=> /\ friendGot'[r] <= F + faults'
                       /\ inviterGot'[r] <= I + faults'
                       /\ friendGot'[r] + inviterGot'[r] <= F + I + faults'
  BY DEF CountsOK, One
<1>. QED BY <1>4, <1>5

(* Whoever does not leave what it was about to record tells of it still.   *)
LEMMA ToldStays ==
  ASSUME NEW r \in Rewards, friendMark[r] => friendMark'[r], inviterMark[r] => inviterMark'[r],
         \A w \in Workers : On(w, r) /\ pc[w] \in {"friendSave", "inviterSave"} =>
           UNCHANGED <<pc[w], job[w]>>
  PROVE  /\ FriendTold(r) => FriendTold(r)'
         /\ InviterTold(r) => InviterTold(r)'
<1>1. ASSUME FriendTold(r) PROVE FriendTold(r)'
  <2>1. CASE friendMark[r]
    BY <2>1 DEF FriendTold
  <2>2. CASE \E w \in Workers : On(w, r) /\ pc[w] = "friendSave"
    BY <2>2 DEF FriendTold, On
  <2>. QED BY <1>1, <2>1, <2>2 DEF FriendTold
<1>2. ASSUME InviterTold(r) PROVE InviterTold(r)'
  <2>1. CASE inviterMark[r]
    BY <2>1 DEF InviterTold
  <2>2. CASE \E w \in Workers : On(w, r) /\ pc[w] = "inviterSave"
    BY <2>2 DEF InviterTold, On
  <2>. QED BY <1>2, <2>1, <2>2 DEF InviterTold
<1>. QED BY <1>1, <1>2

(* An extension nobody has told of: the worker is the only one inside, and *)
(* tells of it from now on, or its answer was lost by a fault.             *)
LEMMA ExtendedCounts ==
  ASSUME RewardInv, RewardInv', GivenInv, NEW w \in Workers, Extended(w),
         NEW r \in Rewards, r = job[w], UNCHANGED <<friendMark, inviterMark>>,
         \A v \in Workers : v # w => UNCHANGED <<pc[v], job[v]>>,
         \/ /\ faults' = faults /\ job'[w] = job[w]
            /\ pc'[w] = IF pc[w] = "friend" THEN "friendSave" ELSE "inviterSave"
         \/ faults' = faults + 1
  PROVE  CountsOK(r)'
<1>0. /\ friendGot \in [Rewards -> Nat] /\ inviterGot \in [Rewards -> Nat]
      /\ faults \in Nat /\ faults' \in Nat /\ CountsOK(r) /\ DebtOK(w)
  BY DEF RewardInv, TypeOK, GivenInv
<1>1. pc[w] \in {"friend", "inviter"} /\ pc[w] \in Giving /\ Inside(w)
  BY DEF Extended, Giving, Inside
<1>2. \A v \in Workers : On(v, r) => pc[v] \notin {"friendSave", "inviterSave"}
  BY <1>1, Alone DEF On, Inside
<1>3. /\ FriendTold(r) => FriendTold(r)'
      /\ InviterTold(r) => InviterTold(r)'
  BY <1>2, ToldStays
<1>4. /\ One(FriendTold(r)) \in {0, 1} /\ One(FriendTold(r)') \in {0, 1}
      /\ One(InviterTold(r)) \in {0, 1} /\ One(InviterTold(r)') \in {0, 1}
      /\ One(FriendTold(r)) <= One(FriendTold(r)')
      /\ One(InviterTold(r)) <= One(InviterTold(r)')
  BY <1>3 DEF One
<1>5. /\ friendGot[r] <= One(FriendTold(r)) + faults
      /\ inviterGot[r] <= One(InviterTold(r)) + faults
      /\ friendGot[r] + inviterGot[r] <= One(FriendTold(r)) + One(InviterTold(r)) + faults
  BY <1>0 DEF CountsOK
<1>6. CASE pc[w] = "friend"
  <2>1. friendGot'[r] = friendGot[r] + 1 /\ inviterGot'[r] = inviterGot[r]
    BY <1>0, <1>6 DEF Extended
  <2>2. One(FriendTold(r)) = 0
    BY <1>0, <1>1, <1>2, <1>6 DEF One, FriendTold, DebtOK
  <2>3. faults' = faults => One(FriendTold(r)') = 1
    <3>1. faults' = faults => pc'[w] = "friendSave" /\ job'[w] = r
      BY <1>0, <1>6
    <3>2. pc'[w] = "friendSave" /\ job'[w] = r => FriendTold(r)'
      BY DEF FriendTold, On
    <3>. QED BY <3>1, <3>2 DEF One
  <2>4. faults' = faults \/ faults' = faults + 1
    OBVIOUS
  <2>. DEFINE f == One(FriendTold(r))  F == One(FriendTold(r)')
              i == One(InviterTold(r)) I == One(InviterTold(r)')
  <2>5. /\ friendGot[r] + 1 <= F + faults'
        /\ inviterGot[r] <= I + faults'
        /\ friendGot[r] + 1 + inviterGot[r] <= F + I + faults'
    <3>1. /\ f = 0 /\ F \in {0, 1} /\ i \in {0, 1} /\ I \in {0, 1} /\ i <= I
          /\ faults' = faults => F = 1
          /\ friendGot[r] <= f + faults /\ inviterGot[r] <= i + faults
          /\ friendGot[r] + inviterGot[r] <= f + i + faults
      BY <1>4, <1>5, <2>2, <2>3
    <3>2. friendGot[r] \in Nat /\ inviterGot[r] \in Nat
      BY <1>0
    <3>. HIDE DEF f, F, i, I
    <3>. QED BY <1>0, <2>4, <3>1, <3>2
  <2>6. CountsOK(r)' <=> /\ friendGot'[r] <= F + faults'
                         /\ inviterGot'[r] <= I + faults'
                         /\ friendGot'[r] + inviterGot'[r] <= F + I + faults'
    BY DEF CountsOK, One
  <2>. QED BY <2>1, <2>5, <2>6
<1>7. CASE pc[w] = "inviter"
  <2>1. inviterGot'[r] = inviterGot[r] + 1 /\ friendGot'[r] = friendGot[r]
    BY <1>0, <1>7 DEF Extended
  <2>2. One(InviterTold(r)) = 0
    BY <1>0, <1>1, <1>2, <1>7 DEF One, InviterTold, DebtOK
  <2>3. faults' = faults => One(InviterTold(r)') = 1
    <3>1. faults' = faults => pc'[w] = "inviterSave" /\ job'[w] = r
      BY <1>0, <1>7
    <3>2. pc'[w] = "inviterSave" /\ job'[w] = r => InviterTold(r)'
      BY DEF InviterTold, On
    <3>. QED BY <3>1, <3>2 DEF One
  <2>4. faults' = faults \/ faults' = faults + 1
    OBVIOUS
  <2>. DEFINE f == One(FriendTold(r))  F == One(FriendTold(r)')
              i == One(InviterTold(r)) I == One(InviterTold(r)')
  <2>5. /\ friendGot[r] <= F + faults'
        /\ inviterGot[r] + 1 <= I + faults'
        /\ friendGot[r] + (inviterGot[r] + 1) <= F + I + faults'
    <3>1. /\ i = 0 /\ I \in {0, 1} /\ f \in {0, 1} /\ F \in {0, 1} /\ f <= F
          /\ faults' = faults => I = 1
          /\ friendGot[r] <= f + faults /\ inviterGot[r] <= i + faults
          /\ friendGot[r] + inviterGot[r] <= f + i + faults
      BY <1>4, <1>5, <2>2, <2>3
    <3>2. friendGot[r] \in Nat /\ inviterGot[r] \in Nat
      BY <1>0
    <3>. HIDE DEF f, F, i, I
    <3>. QED BY <1>0, <2>4, <3>1, <3>2
  <2>6. CountsOK(r)' <=> /\ friendGot'[r] <= F + faults'
                         /\ inviterGot'[r] <= I + faults'
                         /\ friendGot'[r] + inviterGot'[r] <= F + I + faults'
    BY DEF CountsOK, One
  <2>. QED BY <2>1, <2>5, <2>6
<1>. QED BY <1>1, <1>6, <1>7

(* Whoever was about to record an extension has recorded it.               *)
LEMMA SaveMarkCounts ==
  ASSUME RewardInv, RewardInv', GivenInv, NEW w \in Workers, SaveMark(w),
         NEW r \in Rewards, r = job[w]
  PROVE  CountsOK(r)'
<1>1. /\ UNCHANGED <<got, faults>> /\ Marked(w) /\ Work(w)
  BY DEF SaveMark, Work
<1>2. /\ friendMark[r] => friendMark'[r]
      /\ inviterMark[r] => inviterMark'[r]
      /\ pc[w] = "friendSave" => friendMark'[r]
      /\ pc[w] = "inviterSave" => inviterMark'[r]
      /\ pc[w] \in Giving
  BY <1>1, MarkedKeeps DEF Giving
<1>3. \A v \in Workers : On(v, r) /\ Inside(v) => v = w
  BY <1>2, Alone DEF On
<1>4. /\ FriendTold(r) => FriendTold(r)'
      /\ InviterTold(r) => InviterTold(r)'
  BY <1>2, <1>3 DEF FriendTold, InviterTold, Inside
<1>5. CountsOK(r) /\ faults' >= faults
  BY <1>1 DEF GivenInv, RewardInv, TypeOK
<1>. QED BY <1>1, <1>4, <1>5, CountsKept DEF got

(* A save that failed loses one extension at most, that of the one inside. *)
LEMMA SaveFailedCounts ==
  ASSUME RewardInv, RewardInv', GivenInv, NEW w \in Workers, SaveFailed(w),
         NEW r \in Rewards, r = job[w]
  PROVE  CountsOK(r)'
<1>1. UNCHANGED got /\ faults' = faults + 1 /\ Work(w) /\ CountsOK(r)
  BY DEF SaveFailed, Fault, Work, GivenInv
<1>2. /\ friendMark[r] => friendMark'[r]
      /\ inviterMark[r] => inviterMark'[r]
      /\ \A v \in Workers : v # w => UNCHANGED <<pc[v], job[v]>>
  BY <1>1, WorkMarks, WorkEffect
<1>3. pc[w] # "friendSave" => (FriendTold(r) => FriendTold(r)')
  <2>. SUFFICES ASSUME pc[w] # "friendSave", FriendTold(r) PROVE FriendTold(r)'
    OBVIOUS
  <2>1. CASE friendMark[r]
    BY <1>2, <2>1 DEF FriendTold
  <2>2. CASE \E v \in Workers : On(v, r) /\ pc[v] = "friendSave"
    BY <1>2, <2>2 DEF FriendTold, On
  <2>. QED BY <2>1, <2>2 DEF FriendTold
<1>4. pc[w] = "friendSave" => (InviterTold(r) => InviterTold(r)')
  <2>. SUFFICES ASSUME pc[w] = "friendSave", InviterTold(r) PROVE InviterTold(r)'
    OBVIOUS
  <2>1. CASE inviterMark[r]
    BY <1>2, <2>1 DEF InviterTold
  <2>2. CASE \E v \in Workers : On(v, r) /\ pc[v] = "inviterSave"
    BY <1>2, <2>2 DEF InviterTold, On
  <2>. QED BY <2>1, <2>2 DEF InviterTold
<1>. QED BY <1>1, <1>3, <1>4, CountsKept DEF got

LEMMA WorkCounts ==
  ASSUME RewardInv, RewardInv', GivenInv, NEW w \in Workers, Work(w), NEW r \in Rewards
  PROVE  CountsOK(r)'
<1>1. /\ \A v \in Workers : v # w => UNCHANGED <<pc[v], job[v]>>
      /\ friendMark[r] => friendMark'[r]
      /\ inviterMark[r] => inviterMark'[r]
      /\ CountsOK(r)
  BY WorkEffect, WorkMarks DEF GivenInv
<1>2. faults' >= faults
  <2>1. faults' = faults \/ faults' = faults + 1
    BY DEF Work, Enter, Grant, GrantFailed, AnswerLost, SaveMark, Finish, SaveFailed, Fault
  <2>. QED BY <2>1 DEF RewardInv, TypeOK
<1>3. CASE r # job[w]
  <2>1. /\ FriendTold(r) => FriendTold(r)'
        /\ InviterTold(r) => InviterTold(r)'
    <3>1. \A v \in Workers : On(v, r) => UNCHANGED <<pc[v], job[v]>>
      BY <1>1, <1>3 DEF On
    <3>. QED BY <1>1, <3>1, ToldStays
  <2>. QED BY <1>1, <1>2, <1>3, <2>1, WorkOwnRow, CountsKept
<1>4. CASE r = job[w] /\ Grant(w)
  <2>1. /\ Extended(w) /\ UNCHANGED <<friendMark, inviterMark, faults>> /\ job'[w] = job[w]
        /\ pc'[w] = IF pc[w] = "friend" THEN "friendSave" ELSE "inviterSave"
    BY <1>4, GoEffect DEF Grant, rows, RewardInv
  <2>. QED BY <1>1, <1>4, <2>1, ExtendedCounts
<1>5. CASE r = job[w] /\ AnswerLost(w)
  <2>1. Extended(w) /\ UNCHANGED <<friendMark, inviterMark>> /\ faults' = faults + 1
    BY <1>5 DEF AnswerLost, Fault
  <2>. QED BY <1>1, <1>5, <2>1, ExtendedCounts
<1>6. CASE r = job[w] /\ (Enter(w) \/ GrantFailed(w) \/ Finish(w))
  <2>1. UNCHANGED got /\ pc[w] \notin {"friendSave", "inviterSave"}
    BY <1>6 DEF Enter, GrantFailed, Finish
  <2>2. /\ FriendTold(r) => FriendTold(r)'
        /\ InviterTold(r) => InviterTold(r)'
    BY <1>1, <2>1, ToldStays
  <2>. QED BY <1>1, <1>2, <2>1, <2>2, CountsKept DEF got
<1>. QED BY <1>3, <1>4, <1>5, <1>6, SaveMarkCounts, SaveFailedCounts DEF Work

(* A crash loses at most the extension of the one inside.                  *)
LEMMA CrashCounts ==
  ASSUME RewardInv, RewardInv', GivenInv, Crash, NEW r \in Rewards
  PROVE  CountsOK(r)'
<1>1. UNCHANGED <<friendMark, inviterMark, got>> /\ faults' = faults + 1 /\ CountsOK(r)
  BY DEF Crash, Fault, rows, GivenInv
<1>2. ASSUME FriendTold(r), ~FriendTold(r)' PROVE InviterTold(r) => InviterTold(r)'
  <2>1. PICK w \in Workers : On(w, r) /\ pc[w] = "friendSave"
    BY <1>1, <1>2 DEF FriendTold
  <2>2. \A v \in Workers : On(v, r) => pc[v] # "inviterSave"
    BY <2>1, Alone DEF On, Inside, Giving
  <2>. QED BY <1>1, <2>2 DEF InviterTold
<1>3. (FriendTold(r) => FriendTold(r)') \/ (InviterTold(r) => InviterTold(r)')
  BY <1>2
<1>. QED BY <1>1, <1>3, CountsKept DEF got

LEMMA NextCounts ==
  ASSUME RewardInv, RewardInv', GivenInv, [Next]_vars, NEW r \in Rewards
  PROVE  CountsOK(r)'
<1>1. CountsOK(r) /\ faults \in Nat
  BY DEF GivenInv, RewardInv, TypeOK
<1>2. CASE \/ \E g \in Registrars : Registering(g)
           \/ \E a \in Admins : Administering(a)
           \/ Ripen \/ BeginSweep \/ UNCHANGED vars
  <2>1. UNCHANGED <<pc, job, got, friendMark, inviterMark>>
    BY <1>2 DEF Registering, Register, Validate, Count, Insert, RegisterFailed, Administering,
                AdminRead, Cascade, Release, Reject, Ripen, BeginSweep, vars, rows, working
  <2>2. faults' >= faults
    <3>1. faults' = faults \/ faults' = faults + 1
      BY <1>2 DEF Registering, Register, Validate, Count, Insert, RegisterFailed, Fault,
                  Administering, AdminRead, Cascade, Release, Reject, Ripen, BeginSweep, vars
    <3>. QED BY <1>1, <3>1
  <2>3. /\ FriendTold(r) => FriendTold(r)'
        /\ InviterTold(r) => InviterTold(r)'
    BY <2>1, ToldStays
  <2>. QED BY <1>1, <2>1, <2>2, <2>3, CountsKept DEF got
<1>3. CASE \/ \E w \in Workers, q \in Rewards : StartTask(w, q)
           \/ \E q \in Rewards : Visit(q)
  <2>1. PICK w \in Workers, q \in Rewards : /\ Open(w, q) /\ pc[w] = "idle"
                                            /\ UNCHANGED <<rows, got, faults>>
    BY <1>3, WorkersAssumption DEF StartTask, Visit
  <2>2. \A u \in Workers : u # w => UNCHANGED <<pc[u], job[u]>>
    BY <2>1, OpenEffect DEF RewardInv
  <2>3. /\ FriendTold(r) => FriendTold(r)'
        /\ InviterTold(r) => InviterTold(r)'
    BY <2>1, <2>2, ToldStays DEF rows
  <2>. QED BY <1>1, <2>1, <2>3, CountsKept DEF got
<1>. QED BY <1>2, <1>3, CrashCounts, WorkCounts DEF Next
-----------------------------------------------------------------------------
LEMMA InitGivenInv == Init => GivenInv
<1>. SUFFICES ASSUME Init PROVE GivenInv
  OBVIOUS
<1>1. ReleaseOfHeld
  BY DEF Init, ReleaseOfHeld, NoRequest
<1>2. \A r \in Rewards : LockOK(r)
  BY DEF Init, LockOK, Orderly, On
<1>3. \A r \in Rewards : CountsOK(r)
  BY DEF Init, CountsOK, One
<1>4. \A w \in Workers : DebtOK(w)
  BY DEF Init, DebtOK, Inside
<1>. QED BY <1>1, <1>2, <1>3, <1>4 DEF GivenInv

LEMMA NextGivenInv ==
  ASSUME OneAdmin, MaxAttempts > 1, RewardInv, RewardInv', Untried, GivenInv, [Next]_vars
  PROVE  GivenInv'
<1>1. ReleaseOfHeld'
  BY NextReleaseOfHeld DEF GivenInv
<1>2. \A r \in Rewards : LockOK(r)' /\ CountsOK(r)'
  BY NextLock, NextCounts
<1>3. \A w \in Workers : DebtOK(w)'
  BY NextDebt
<1>. QED BY <1>1, <1>2, <1>3 DEF GivenInv

(* GivenInv holds with one request of an administrator at a time.          *)
LEMMA GivenInvariant ==
  ASSUME OneAdmin, MaxAttempts > 1
  PROVE  Spec => [](RewardInv /\ GivenInv)
<1>1. Init => RewardInv /\ Untried /\ GivenInv
  BY InitRewardInv, InitUntried, InitGivenInv
<1>2. RewardInv /\ Untried /\ GivenInv /\ [Next]_vars => (RewardInv /\ Untried /\ GivenInv)'
  BY NextRewardInv, NextUntried, NextGivenInv
<1>. QED BY <1>1, <1>2, PTL DEF Spec

(* _release_lock takes the lock away under those who wait for it only when *)
(* they will find nothing left to give, so that of those who still owe     *)
(* something for a reward one at most is inside process().                 *)
THEOREM LockForgottenHarmlessly ==
  ASSUME OneAdmin, MaxAttempts > 1
  PROVE  Spec => []ForgottenLockHarmless
<1>1. GivenInv => ForgottenLockHarmless
  BY DEF GivenInv, ForgottenLockHarmless
<1>. QED BY <1>1, GivenInvariant, PTL

(* Neither the friend nor the inviter is extended twice for one reward but *)
(* by a fault, and then as many times more as there were faults: tasks and *)
(* sweeps may meet at a reward, its lock may be forgotten under those who  *)
(* wait for it (_release_lock), an administrator may let the reward go or  *)
(* reject it meanwhile.  For any number of friends, registrars and workers *)
(* and one request of an administrator at a time.                          *)
THEOREM GivenOnceButByFault ==
  ASSUME OneAdmin, MaxAttempts > 1
  PROVE  Spec => []GrantedAgainByFault
<1>1. RewardInv /\ GivenInv => GrantedAgainByFault
  <2>. SUFFICES ASSUME RewardInv, GivenInv, NEW r \in Rewards
                PROVE  /\ friendGot[r] + inviterGot[r] <= 2 + faults
                       /\ friendGot[r] <= 1 + faults
                       /\ inviterGot[r] <= 1 + faults
    BY DEF GrantedAgainByFault
  <2>1. friendGot[r] \in Nat /\ inviterGot[r] \in Nat /\ faults \in Nat
    BY DEF RewardInv, TypeOK
  <2>2. One(FriendTold(r)) \in {0, 1} /\ One(InviterTold(r)) \in {0, 1}
    BY DEF One
  <2>3. CountsOK(r)
    BY DEF GivenInv
  <2>. QED BY <2>1, <2>2, <2>3 DEF CountsOK
<1>. QED BY <1>1, GivenInvariant, PTL
=============================================================================
