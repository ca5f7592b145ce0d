------------------------------ MODULE Referral ------------------------------
(***************************************************************************)
(* Rewards for an invitation: ReferralService (referral.py), its           *)
(* background tasks (referral_wiring.py, _nagrady in main.py) and the      *)
(* administrator's release and reject (admin.py).  A registrar, which is   *)
(* the delivery of a payment or the walk over the clients of the sales     *)
(* bot, writes a reward down; workers, which are background tasks or the   *)
(* sweep over stuck rewards, extend the friend and then the inviter.  All  *)
(* are preempted at every await.  One inviter invited all the friends.     *)
(***************************************************************************)
EXTENDS Integers, FiniteSets

CONSTANTS
  Friends,      \* those who buy, by the invitation of one inviter
  Renewing,     \* the friends who may renew as well
  Registrars,   \* coroutines inside register() or sync_bot()
  Workers,      \* coroutines inside obrabotat_nagradu()
  Sweeper,      \* the worker of obojti_ozhidayushchie, the others are tasks
  Admins,       \* requests of administrators being served
  Objects,      \* asyncio.Lock objects
  Cap,          \* referral_monthly_cap
  MaxAttempts,  \* _MAX_ATTEMPTS
  Limit,        \* rewards per sweep
  Faults,       \* the kinds of fault that may happen
  MaxFaults,    \* bound on how many happen in a behaviour
  NoReward, NoLock

(* A friend brings one reward for a first purchase and one for a renewal:  *)
(* uq_referral_rewards_friend_email_kind.                                  *)
Rewards == (Friends \X {"first"}) \cup (Renewing \X {"renewal"})

(* "lost"   the panel or the bot applied an extension, its answer was lost *)
(* "db"     a transaction fails                                            *)
(* "crash"  the api stops and is started again                             *)
FaultKinds == {"lost", "db", "crash"}

ASSUME FriendsAssumption == IsFiniteSet(Friends) /\ Renewing \subseteq Friends
ASSUME WorkersAssumption == Sweeper \in Workers
ASSUME NobodyAssumption == NoReward \notin Rewards /\ NoLock \notin Objects
ASSUME BoundsAssumption == /\ Cap \in Nat /\ MaxAttempts \in Nat \ {0}
                           /\ Limit \in Nat \ {0} /\ MaxFaults \in Nat
                           /\ Faults \subseteq FaultKinds

VARIABLES
  status,       \* referral_rewards.status, "none" before the row is there
  generous,     \* inviter_days > 0: the inviter bears the tag PAID, not SVOI
  friendMark,   \* friend_granted_at is set
  inviterMark,  \* inviter_granted_at is set
  attempts,
  born,         \* created_at: the place of the row among the others, 0 without it
  ripe,         \* how many of them are older than _DUE_MIN_AGE
  friendGot,    \* times the friend's subscription was extended for the reward
  inviterGot,   \* times the inviter's was
  pc, job, loc, \* where a worker is, on which reward, its copy of the row
  zamok,        \* the lock object a worker waits for or holds
  locks,        \* _LOCKS
  scheduled,    \* tasks created for a reward that have not started
  queue,        \* the rewards the sweep has still to visit
  reg,          \* what each registrar is about to write
  admin,        \* what each administrator's request is about to write
  released,     \* rewards an administrator let go over the cap
  faults

rows == <<status, generous, friendMark, inviterMark, attempts, born>>
got == <<friendGot, inviterGot>>
working == <<pc, job, loc, zamok, locks>>
vars == <<rows, ripe, got, working, scheduled, queue, reg, admin, released, faults>>

Statuses == {"none", "pending", "held", "granted", "failed", "rejected"}
Terminal == {"granted", "failed", "rejected"}
Stages == {"idle", "wait", "friend", "friendSave", "inviter", "inviterSave", "finish"}

Kind(r) == r[2]
FirstOf(r) == <<r[1], "first">>
RenewalOf(r) == <<r[1], "renewal">>

NoCopy == [status |-> "none", friendMark |-> FALSE, inviterMark |-> FALSE, attempts |-> 0]
NoPlan == [at |-> "idle", on |-> NoReward, generous |-> FALSE, as |-> "none"]
NoRequest == [at |-> "idle", on |-> NoReward, also |-> FALSE]
-----------------------------------------------------------------------------
Init ==
  /\ status = [r \in Rewards |-> "none"]
  /\ generous = [r \in Rewards |-> FALSE]
  /\ friendMark = [r \in Rewards |-> FALSE]
  /\ inviterMark = [r \in Rewards |-> FALSE]
  /\ attempts = [r \in Rewards |-> 0]
  /\ born = [r \in Rewards |-> 0] /\ ripe = 0
  /\ friendGot = [r \in Rewards |-> 0]
  /\ inviterGot = [r \in Rewards |-> 0]
  /\ pc = [w \in Workers |-> "idle"]
  /\ job = [w \in Workers |-> NoReward]
  /\ loc = [w \in Workers |-> NoCopy]
  /\ zamok = [w \in Workers |-> NoLock]
  /\ locks = [r \in Rewards |-> NoLock]
  /\ scheduled = [r \in Rewards |-> 0]
  /\ queue = {}
  /\ reg = [g \in Registrars |-> NoPlan]
  /\ admin = [a \in Admins |-> NoRequest]
  /\ released = {}
  /\ faults = 0

Fault(kind) == kind \in Faults /\ faults < MaxFaults /\ faults' = faults + 1
-----------------------------------------------------------------------------
(* register(), and sync_bot() for one candidate: the store is looked into  *)
(* before the inviter is asked about.  A first purchase wants no reward of *)
(* the friend at all, a renewal one for the first purchase that has worked *)
(* and none for a renewal.                                                 *)
MayRegister(r) ==
  /\ status[r] = "none"
  /\ Kind(r) = "renewal" => status[FirstOf(r)] \in {"granted", "held"}

Register(g, r) ==
  /\ reg[g].at = "idle"
  /\ MayRegister(r)
  /\ reg' = [reg EXCEPT ![g] = [NoPlan EXCEPT !.at = "panel", !.on = r]]
  /\ UNCHANGED <<rows, ripe, got, working, scheduled, queue, admin, released, faults>>

(* _validate_inviter: the inviter is refused, or accepted with days or, a  *)
(* friend of the house with an endless subscription, without.  A renewal   *)
(* that would bring nothing is not written down.                           *)
Validate(g) ==
  /\ reg[g].at = "panel"
  /\ \/ reg' = [reg EXCEPT ![g] = NoPlan]
     \/ reg' = [reg EXCEPT ![g].at = "count", ![g].generous = TRUE]
     \/ /\ Kind(reg[g].on) = "first"
        /\ reg' = [reg EXCEPT ![g].at = "insert", ![g].as = "pending"]
  /\ UNCHANGED <<rows, ripe, got, working, scheduled, queue, admin, released, faults>>

(* counted_in_last_days: all the rows are of the last thirty days.         *)
Counted == {r \in Rewards : generous[r] /\ status[r] \in {"pending", "granted", "failed"}}

(* Mutant: the cap counts what has been granted, not what is written down. *)
CountGranted(g) ==
  /\ reg[g].at = "count"
  /\ reg' = [reg EXCEPT ![g].at = "insert", ![g].as =
               IF Cardinality({r \in Counted : inviterMark[r]}) >= Cap
               THEN "held" ELSE "pending"]
  /\ UNCHANGED <<rows, ripe, got, working, scheduled, queue, admin, released, faults>>

(* _cap_status                                                             *)
Count(g) ==
  /\ reg[g].at = "count"
  /\ reg' = [reg EXCEPT ![g].at = "insert",
                        ![g].as = IF Cardinality(Counted) >= Cap THEN "held" ELSE "pending"]
  /\ UNCHANGED <<rows, ripe, got, working, scheduled, queue, admin, released, faults>>

Written == {r \in Rewards : status[r] # "none"}

(* The row is inserted and its task created; if a row of the friend and    *)
(* the kind is there by now, the unique index refuses another.             *)
Insert(g) == LET r == reg[g].on IN
  /\ reg[g].at = "insert"
  /\ reg' = [reg EXCEPT ![g] = NoPlan]
  /\ IF status[r] = "none"
     THEN /\ status' = [status EXCEPT ![r] = reg[g].as]
          /\ generous' = [generous EXCEPT ![r] = reg[g].generous]
          /\ born' = [born EXCEPT ![r] = Cardinality(Written) + 1]
          /\ scheduled' = [scheduled EXCEPT ![r] = @ + 1]
     ELSE UNCHANGED <<status, generous, born, scheduled>>
  /\ UNCHANGED <<friendMark, inviterMark, attempts, ripe, got, working, queue, admin,
                 released, faults>>

RegisterFailed(g) ==
  /\ reg[g].at # "idle"
  /\ Fault("db")
  /\ reg' = [reg EXCEPT ![g] = NoPlan]
  /\ UNCHANGED <<rows, ripe, got, working, scheduled, queue, admin, released>>

(* Ten minutes pass for the oldest row they have not passed for.           *)
Ripen ==
  /\ ripe < Cardinality(Written)
  /\ ripe' = ripe + 1
  /\ UNCHANGED <<rows, got, working, scheduled, queue, reg, admin, released, faults>>
-----------------------------------------------------------------------------
Inside(w) == pc[w] \notin {"idle", "wait"}

(* asyncio.Lock(): an object nobody refers to.                             *)
Unused == {o \in Objects : /\ \A w \in Workers : zamok[w] # o
                           /\ \A r \in Rewards : locks[r] # o}

NewLock(w, r) == LET o == CHOOSE o \in Unused : TRUE IN
  /\ Unused # {}
  /\ locks' = [locks EXCEPT ![r] = o]
  /\ zamok' = [zamok EXCEPT ![w] = o]

(* Mutant: every process() has a lock of its own.                          *)
OpenOwnLock(w, r) ==
  /\ NewLock(w, r)
  /\ pc' = [pc EXCEPT ![w] = "wait"]
  /\ job' = [job EXCEPT ![w] = r]
  /\ UNCHANGED loc

(* process(): _lock_for.                                                   *)
Open(w, r) ==
  /\ IF locks[r] # NoLock
     THEN UNCHANGED locks /\ zamok' = [zamok EXCEPT ![w] = locks[r]]
     ELSE NewLock(w, r)
  /\ pc' = [pc EXCEPT ![w] = "wait"]
  /\ job' = [job EXCEPT ![w] = r]
  /\ UNCHANGED loc

(* A task created by zapustit_obrabotku begins.                            *)
StartTask(w, r) ==
  /\ w # Sweeper /\ pc[w] = "idle"
  /\ scheduled[r] > 0
  /\ scheduled' = [scheduled EXCEPT ![r] = @ - 1]
  /\ Open(w, r)
  /\ UNCHANGED <<rows, ripe, got, queue, reg, admin, released, faults>>

(* due_ids: pending and no longer fresh, the oldest first.                 *)
Due == LET ready == {r \in Written : status[r] = "pending" /\ born[r] <= ripe}
       IN  {r \in ready : Cardinality({q \in ready : born[q] < born[r]}) < Limit}

BeginSweep ==
  /\ pc[Sweeper] = "idle" /\ queue = {}
  /\ Due # {}
  /\ queue' = Due
  /\ UNCHANGED <<rows, ripe, got, working, scheduled, reg, admin, released, faults>>

Visit(r) ==
  /\ pc[Sweeper] = "idle" /\ r \in queue
  /\ \A q \in queue : born[r] <= born[q]
  /\ queue' = queue \ {r}
  /\ Open(Sweeper, r)
  /\ UNCHANGED <<rows, ripe, got, scheduled, reg, admin, released, faults>>

(* The end of process(): the lock is released, and forgotten (_release_lock)*)
(* when the worker believes that nobody has anything left to do.           *)
Leave(w, forget) ==
  /\ pc' = [pc EXCEPT ![w] = "idle"]
  /\ job' = [job EXCEPT ![w] = NoReward]
  /\ loc' = [loc EXCEPT ![w] = NoCopy]
  /\ zamok' = [zamok EXCEPT ![w] = NoLock]
  /\ locks' = IF forget THEN [locks EXCEPT ![job[w]] = NoLock] ELSE locks

Goto(w, stage, copy) ==
  /\ pc' = [pc EXCEPT ![w] = stage]
  /\ loc' = [loc EXCEPT ![w] = copy]
  /\ UNCHANGED <<job, zamok, locks>>

OwesFriend(r, copy) == Kind(r) = "first" /\ ~copy.friendMark
OwesInviter(r, copy) == generous[r] /\ ~copy.inviterMark

(* Mutant: held is not told from pending.                                  *)
ProceedHeld(w, copy) == LET r == job[w] IN
  IF OwesFriend(r, copy) THEN Goto(w, "friend", copy)
  ELSE IF OwesInviter(r, copy) THEN Goto(w, "inviter", copy)
  ELSE Goto(w, "finish", copy)

(* What process() does next, by its copy of the row.  A renewal brings the *)
(* friend nothing; a held reward waits for a human.                        *)
Proceed(w, copy) == LET r == job[w] IN
  IF OwesFriend(r, copy) THEN Goto(w, "friend", copy)
  ELSE IF copy.status = "held" THEN Leave(w, FALSE)
  ELSE IF OwesInviter(r, copy) THEN Goto(w, "inviter", copy)
  ELSE Goto(w, "finish", copy)

(* Mutant: the row is not read again under the lock.                       *)
EnterStale(w) == LET r == job[w] IN
  /\ pc[w] = "wait"
  /\ \A v \in Workers : Inside(v) => zamok[v] # zamok[w]
  /\ Proceed(w, [status |-> "pending", friendMark |-> FALSE, inviterMark |-> FALSE,
                 attempts |-> 0])
  /\ UNCHANGED <<rows, ripe, got, scheduled, queue, reg, admin, released, faults>>

(* async with lock, and refresh() under it.                                *)
Enter(w) == LET r == job[w] IN
  /\ pc[w] = "wait"
  /\ \A v \in Workers : Inside(v) => zamok[v] # zamok[w]
  /\ IF status[r] \in {"pending", "held"}
     THEN Proceed(w, [status |-> status[r], friendMark |-> friendMark[r],
                      inviterMark |-> inviterMark[r], attempts |-> attempts[r]])
     ELSE Leave(w, TRUE)
  /\ UNCHANGED <<rows, ripe, got, scheduled, queue, reg, admin, released, faults>>

(* The panel or the bot extends the subscription.                          *)
Extended(w) ==
  \/ /\ pc[w] = "friend"
     /\ friendGot' = [friendGot EXCEPT ![job[w]] = @ + 1]
     /\ UNCHANGED inviterGot
  \/ /\ pc[w] = "inviter"
     /\ inviterGot' = [inviterGot EXCEPT ![job[w]] = @ + 1]
     /\ UNCHANGED friendGot

(* _grant_friend, _grant_inviter                                           *)
Grant(w) ==
  /\ Extended(w)
  /\ Goto(w, IF pc[w] = "friend" THEN "friendSave" ELSE "inviterSave", loc[w])
  /\ UNCHANGED <<rows, ripe, scheduled, queue, reg, admin, released, faults>>

(* Mutant: a failed attempt is not counted.                                *)
RecordNothing(w) ==
  /\ UNCHANGED <<status, attempts>>
  /\ Leave(w, FALSE)

(* Mutant: the lock is forgotten whenever somebody leaves it.              *)
RecordAndForget(w) == LET r == job[w] tries == loc[w].attempts + 1 IN
  /\ attempts' = [attempts EXCEPT ![r] = tries]
  /\ status' = IF tries >= MaxAttempts THEN [status EXCEPT ![r] = "failed"] ELSE status
  /\ Leave(w, TRUE)

(* _record_failure                                                         *)
RecordFailure(w) == LET r == job[w] tries == loc[w].attempts + 1 IN
  /\ attempts' = [attempts EXCEPT ![r] = tries]
  /\ status' = IF tries >= MaxAttempts THEN [status EXCEPT ![r] = "failed"] ELSE status
  /\ Leave(w, tries >= MaxAttempts)

GrantFailed(w) ==
  /\ pc[w] \in {"friend", "inviter"}
  /\ RecordFailure(w)
  /\ UNCHANGED <<generous, friendMark, inviterMark, born, ripe, got, scheduled, queue, reg,
                 admin, released, faults>>

AnswerLost(w) ==
  /\ Extended(w)
  /\ Fault("lost")
  /\ RecordFailure(w)
  /\ UNCHANGED <<generous, friendMark, inviterMark, born, ripe, scheduled, queue, reg, admin,
                 released>>

(* The mark of who has been extended is committed at once.                 *)
Marked(w) ==
  \/ /\ pc[w] = "friendSave"
     /\ friendMark' = [friendMark EXCEPT ![job[w]] = TRUE]
     /\ UNCHANGED inviterMark
  \/ /\ pc[w] = "inviterSave"
     /\ inviterMark' = [inviterMark EXCEPT ![job[w]] = TRUE]
     /\ UNCHANGED friendMark

(* Mutant: the reward is granted once one side has been extended.          *)
SaveMarkAndGrant(w) ==
  /\ Marked(w)
  /\ Leave(w, FALSE)
  /\ status' = [status EXCEPT ![job[w]] = "granted"]
  /\ UNCHANGED <<generous, attempts, born, ripe, got, scheduled, queue, reg, admin, released,
                 faults>>

SaveMark(w) ==
  /\ Marked(w)
  /\ Proceed(w, [loc[w] EXCEPT !.friendMark = @ \/ pc[w] = "friendSave",
                               !.inviterMark = @ \/ pc[w] = "inviterSave"])
  /\ UNCHANGED <<status, generous, attempts, born, ripe, got, scheduled, queue, reg, admin,
                 released, faults>>

(* The last save of process() writes the status whatever it has become     *)
(* since refresh().                                                        *)
Finish(w) ==
  /\ pc[w] = "finish"
  /\ status' = [status EXCEPT ![job[w]] = "granted"]
  /\ Leave(w, TRUE)
  /\ UNCHANGED <<generous, friendMark, inviterMark, attempts, born, ripe, got, scheduled,
                 queue, reg, admin, released, faults>>

(* A save fails.  _record_failure only rolls back.  _mark_unrecoverable    *)
(* tries to store "failed", in the same session, not yet rolled back: the  *)
(* failed flush has left it unusable, so nothing is stored, and the lock   *)
(* stays in the dictionary, the end of process() reading the expired row.  *)
(* The commit itself may have been done, its answer lost.                  *)
SaveFailed(w) ==
  /\ Inside(w)
  /\ Fault("db")
  /\ \/ UNCHANGED <<status, friendMark, inviterMark>>
     \/ Marked(w) /\ UNCHANGED status
     \/ /\ pc[w] = "finish"
        /\ status' = [status EXCEPT ![job[w]] = "granted"]
        /\ UNCHANGED <<friendMark, inviterMark>>
  /\ \/ Leave(w, FALSE)
     \/ pc[w] = "finish" /\ Leave(w, TRUE)
  /\ UNCHANGED <<generous, attempts, born, ripe, got, scheduled, queue, reg, admin, released>>
-----------------------------------------------------------------------------
(* release_referral_reward and reject_referral_reward read the row, check  *)
(* it and write it without the lock; a rejected first purchase takes the   *)
(* renewal of the friend with it, read after the row.                      *)
Rejectable == {"held", "pending", "failed"}

AdminRead(a, r) ==
  /\ admin[a].at = "idle"
  /\ \/ status[r] = "held"
        /\ admin' = [admin EXCEPT ![a] = [NoRequest EXCEPT !.at = "release", !.on = r]]
     \/ status[r] \in Rejectable
        /\ admin' = [admin EXCEPT ![a] = [NoRequest EXCEPT
             !.at = IF Kind(r) = "first" THEN "cascade" ELSE "reject", !.on = r]]
  /\ UNCHANGED <<rows, ripe, got, working, scheduled, queue, reg, released, faults>>

Cascade(a) ==
  /\ admin[a].at = "cascade"
  /\ admin' = [admin EXCEPT ![a].at = "reject",
                 ![a].also = \E q \in Rewards : /\ q = RenewalOf(admin[a].on)
                                              /\ status[q] \in Rejectable]
  /\ UNCHANGED <<rows, ripe, got, working, scheduled, queue, reg, released, faults>>

Release(a) == LET r == admin[a].on IN
  /\ admin[a].at = "release"
  /\ status' = [status EXCEPT ![r] = "pending"]
  /\ scheduled' = [scheduled EXCEPT ![r] = @ + 1]
  /\ released' = released \cup {r}
  /\ admin' = [admin EXCEPT ![a] = NoRequest]
  /\ UNCHANGED <<generous, friendMark, inviterMark, attempts, born, ripe, got, working, queue,
                 reg, faults>>

Reject(a) == LET r == admin[a].on IN
  /\ admin[a].at = "reject"
  /\ status' = [q \in Rewards |-> IF q = r \/ (admin[a].also /\ q = RenewalOf(r))
                                  THEN "rejected" ELSE status[q]]
  /\ admin' = [admin EXCEPT ![a] = NoRequest]
  /\ UNCHANGED <<generous, friendMark, inviterMark, attempts, born, ripe, got, working,
                 scheduled, queue, reg, released, faults>>

Crash ==
  /\ Fault("crash")
  /\ pc' = [w \in Workers |-> "idle"]
  /\ job' = [w \in Workers |-> NoReward]
  /\ loc' = [w \in Workers |-> NoCopy]
  /\ zamok' = [w \in Workers |-> NoLock]
  /\ locks' = [r \in Rewards |-> NoLock]
  /\ scheduled' = [r \in Rewards |-> 0]
  /\ queue' = {}
  /\ reg' = [g \in Registrars |-> NoPlan]
  /\ admin' = [a \in Admins |-> NoRequest]
  /\ UNCHANGED <<rows, ripe, got, released>>
-----------------------------------------------------------------------------
Work(w) == \/ Enter(w) \/ Grant(w) \/ GrantFailed(w) \/ AnswerLost(w)
           \/ SaveMark(w) \/ Finish(w) \/ SaveFailed(w)

Registering(g) == \/ \E r \in Rewards : Register(g, r)
                  \/ Validate(g) \/ Count(g) \/ Insert(g) \/ RegisterFailed(g)

Administering(a) == \/ \E r \in Rewards : AdminRead(a, r)
                    \/ Cascade(a) \/ Release(a) \/ Reject(a)

Next == \/ \E g \in Registrars : Registering(g)
        \/ \E w \in Workers : Work(w) \/ \E r \in Rewards : StartTask(w, r)
        \/ \E a \in Admins : Administering(a)
        \/ \E r \in Rewards : Visit(r)
        \/ Ripen \/ BeginSweep \/ Crash

Spec == Init /\ [][Next]_vars

(* _nagrady comes round for ever, time passes, and a coroutine that runs   *)
(* comes to its end, every call having a timeout.  Nobody is invited,      *)
(* nothing is administered by force, and the panel may always fail.        *)
Fairness == /\ WF_vars(Ripen) /\ WF_vars(BeginSweep) /\ WF_vars(\E r \in Rewards : Visit(r))
            /\ \A w \in Workers : /\ WF_vars(Work(w))
                                  /\ WF_vars(\E r \in Rewards : StartTask(w, r))

FairSpec == Spec /\ Fairness
-----------------------------------------------------------------------------
Copies == [status : Statuses, friendMark : BOOLEAN, inviterMark : BOOLEAN, attempts : Nat]
Plans == [at : {"idle", "panel", "count", "insert"}, on : Rewards \cup {NoReward},
          generous : BOOLEAN, as : {"none", "pending", "held"}]
Requests == [at : {"idle", "release", "cascade", "reject"},
             on : Rewards \cup {NoReward}, also : BOOLEAN]

TypeOK ==
  /\ status \in [Rewards -> Statuses]
  /\ generous \in [Rewards -> BOOLEAN]
  /\ friendMark \in [Rewards -> BOOLEAN]
  /\ inviterMark \in [Rewards -> BOOLEAN]
  /\ attempts \in [Rewards -> Nat]
  /\ born \in [Rewards -> Nat] /\ ripe \in Nat
  /\ friendGot \in [Rewards -> Nat]
  /\ inviterGot \in [Rewards -> Nat]
  /\ pc \in [Workers -> Stages]
  /\ job \in [Workers -> Rewards \cup {NoReward}]
  /\ loc \in [Workers -> Copies]
  /\ zamok \in [Workers -> Objects \cup {NoLock}]
  /\ locks \in [Rewards -> Objects \cup {NoLock}]
  /\ scheduled \in [Rewards -> Nat]
  /\ queue \subseteq Rewards
  /\ reg \in [Registrars -> Plans]
  /\ admin \in [Admins -> Requests]
  /\ released \subseteq Rewards
  /\ faults \in 0..MaxFaults

(* Neither side is extended twice for one reward.  It fails by one fault:  *)
(* an extension whose mark cannot be stored is made again.                 *)
GrantedOnce == \A r \in Rewards : friendGot[r] <= 1 /\ inviterGot[r] <= 1

(* Only a fault makes either side be extended again, and then once: tasks  *)
(* and the sweep may meet on a reward, an administrator may let it go or   *)
(* reject it meanwhile, and the lock they meet at may be forgotten under   *)
(* those who wait for it.  With two requests of administrators at a time   *)
(* a rejected reward can be let go by a stale write, and this fails.       *)
GrantedAgainByFault == \A r \in Rewards : friendGot[r] + inviterGot[r] <= 2 + faults
                                       /\ friendGot[r] <= 1 + faults
                                       /\ inviterGot[r] <= 1 + faults

(* A granted reward has been given: the friend of a first purchase and an  *)
(* inviter who is due days have both been extended, and it is on record.   *)
GrantedMeansGiven == \A r \in Rewards : status[r] = "granted" =>
  /\ Kind(r) = "first" => friendMark[r] /\ friendGot[r] > 0
  /\ generous[r] => inviterMark[r] /\ inviterGot[r] > 0

(* Above the cap the inviter gets nothing until a human decides.           *)
HeldWaits == \A r \in Rewards : status[r] = "held" => inviterGot[r] = 0

(* Rewards that count against the cap exceed it only by those released,    *)
(* and by one for each register() that ran beside the one at the limit.    *)
CapKept == Cardinality(Counted \ released) < Cap + Cardinality(Registrars)

(* A decision is final once nobody is left who read the row before it: no  *)
(* worker inside, no request of an administrator under way.  (While one is *)
(* left, his write goes over the decision: admin.py:293, referral.py:1298.)*)
AtRest(r) ==
  /\ status[r] \in {"granted", "rejected"}
  /\ \A w \in Workers : Inside(w) => job[w] # r
  /\ \A a \in Admins : admin[a].at # "idle" =>
       /\ admin[a].on # r
       /\ admin[a].also => RenewalOf(admin[a].on) # r

DecisionStands == [][\A r \in Rewards :
  AtRest(r) => AtRest(r)' /\ status'[r] = status[r]]_vars

(* A granted reward is left as it is: reject_referral_reward refuses it,   *)
(* and its cascade spares it.  It fails: what refuses is the row as read   *)
(* before a worker granted it.                                             *)
GrantedStays == [][\A r \in Rewards :
  status[r] = "granted" => status'[r] = "granted"]_vars

(* A pending reward is granted, or given up, or rejected.                  *)
PendingResolved == \A r \in Rewards : status[r] = "pending" ~> status[r] \in Terminal

(* The friend of a held reward gets the days all the same.                 *)
HeldFriendServed == \A f \in Friends :
  status[<<f, "first">>] = "held" ~>
    friendGot[<<f, "first">>] > 0 \/ status[<<f, "first">>] # "held"
-----------------------------------------------------------------------------
(* The inductive invariant.  Rows: the inviter has nothing for a reward    *)
(* that is held or not there; a mark tells of an extension; a granted row  *)
(* has all its marks.                                                      *)
RowOK(r) ==
  /\ status[r] \in {"none", "held"} => inviterGot[r] = 0
  /\ friendMark[r] => friendGot[r] > 0
  /\ inviterMark[r] => inviterGot[r] > 0
  /\ status[r] = "granted" => /\ Kind(r) = "first" => friendMark[r]
                              /\ generous[r] => inviterMark[r]

(* Workers: the row is there; a copy's marks are the row's, and a row that *)
(* is not held in the copy is not held again; each stage is reached with   *)
(* nothing owed that comes before it.                                      *)
WorkerOK(w) ==
  /\ pc[w] # "idle" => job[w] \in Rewards /\ status[job[w]] # "none"
  /\ Inside(w) =>
       /\ loc[w].friendMark => friendMark[job[w]]
       /\ loc[w].inviterMark => inviterMark[job[w]]
       /\ loc[w].status # "held" => status[job[w]] # "held"
  /\ pc[w] = "friendSave" => friendGot[job[w]] > 0
  /\ pc[w] = "inviterSave" => inviterGot[job[w]] > 0
  /\ pc[w] \in {"inviter", "inviterSave", "finish"} =>
       loc[w].status # "held" /\ ~OwesFriend(job[w], loc[w])
  /\ pc[w] = "finish" => ~OwesInviter(job[w], loc[w])

(* Whatever is about to be worked on, or written, is there.                *)
Placed ==
  /\ \A r \in Rewards : scheduled[r] > 0 => status[r] # "none"
  /\ queue \subseteq Written
  /\ \A g \in Registrars : /\ reg[g].at # "idle" => reg[g].on \in Rewards
                           /\ reg[g].at = "insert" => reg[g].as # "none"
  /\ \A a \in Admins : admin[a].at # "idle" =>
       admin[a].on \in Rewards /\ status[admin[a].on] # "none"
  /\ \A a \in Admins : admin[a].also =>
       RenewalOf(admin[a].on) \in Rewards /\ status[RenewalOf(admin[a].on)] # "none"

RewardInv == /\ TypeOK /\ Placed
             /\ \A r \in Rewards : RowOK(r)
             /\ \A w \in Workers : WorkerOK(w)

(* A row that is held over the cap has been tried by nobody: all there is  *)
(* about it is the task created with it, which has not come to its end, or *)
(* nothing any more; the sweep and the next task come when it is released. *)
On(w, r) == pc[w] # "idle" /\ job[w] = r

UntriedOK(r) ==
  /\ status[r] = "none" => attempts[r] = 0
  /\ status[r] = "held" =>
       /\ r \notin queue /\ scheduled[r] <= 1
       /\ scheduled[r] > 0 => attempts[r] = 0
       /\ \A w \in Workers : On(w, r) =>
            /\ scheduled[r] = 0 /\ attempts[r] = 0
            /\ Inside(w) => loc[w].attempts = 0
            /\ \A v \in Workers : On(v, r) => v = w

(* The cap: whoever found room under it counts already, though the row is  *)
(* still to be inserted.                                                   *)
Inserting == {g \in Registrars : /\ reg[g].at = "insert" /\ reg[g].generous
                                 /\ reg[g].as = "pending"}

RoomTaken == Cardinality(Counted \ released) + Cardinality(Inserting)
               < Cap + Cardinality(Registrars)

NoneRejected == \A r \in Rewards : status[r] # "rejected"

CapInv == /\ NoneRejected /\ RoomTaken
          /\ \A g \in Registrars : reg[g].at = "panel" => ~reg[g].generous

(* The lock of a reward.  Orderly: all who are on it wait for the lock in  *)
(* the dictionary, or one holds it.  The lock is forgotten under those who *)
(* wait only when they will find that there is nothing left to give, every *)
(* mark being there, or nothing to do, the row being over for good.        *)
Settled(r) == /\ Kind(r) = "first" => friendMark[r]
              /\ generous[r] => inviterMark[r]

Orderly(r) ==
  /\ \A w \in Workers : On(w, r) => zamok[w] = locks[r] /\ locks[r] # NoLock
  /\ \A v, w \in Workers : On(v, r) /\ On(w, r) /\ Inside(v) /\ Inside(w) => v = w

Over(r) == /\ status[r] \in Terminal
           /\ \A w \in Workers : On(w, r) => ~Inside(w)
           /\ \A a \in Admins : admin[a].at = "release" => admin[a].on # r

LockOK(r) == Settled(r) \/ Orderly(r) \/ Over(r)

(* Taking the lock out of the dictionary while others wait for it          *)
(* (_release_lock, referral.py:109) does no harm: unless every mark of the *)
(* reward is there, or it is over, its workers are all at the lock in the  *)
(* dictionary, and one at most is inside.                                  *)
ForgottenLockHarmless == \A r \in Rewards : LockOK(r)

(* What a worker inside is about to give is owed by the row as well.       *)
DebtOK(w) ==
  /\ pc[w] \in {"friend", "friendSave"} => OwesFriend(job[w], loc[w])
  /\ pc[w] \in {"inviter", "inviterSave"} => OwesInviter(job[w], loc[w])
  /\ Inside(w) => /\ OwesFriend(job[w], loc[w]) => ~friendMark[job[w]]
                  /\ OwesInviter(job[w], loc[w]) => ~inviterMark[job[w]]

(* An extension is on record, or about to be, or a fault accounts for it.  *)
FriendTold(r) == friendMark[r] \/ \E w \in Workers : On(w, r) /\ pc[w] = "friendSave"
InviterTold(r) == inviterMark[r] \/ \E w \in Workers : On(w, r) /\ pc[w] = "inviterSave"
One(told) == IF told THEN 1 ELSE 0

CountsOK(r) ==
  /\ friendGot[r] <= One(FriendTold(r)) + faults
  /\ inviterGot[r] <= One(InviterTold(r)) + faults
  /\ friendGot[r] + inviterGot[r] <= One(FriendTold(r)) + One(InviterTold(r)) + faults

ReleaseOfHeld == \A a \in Admins : admin[a].at = "release" => status[admin[a].on] = "held"

GivenInv == /\ ReleaseOfHeld
            /\ \A r \in Rewards : LockOK(r) /\ CountsOK(r)
            /\ \A w \in Workers : DebtOK(w)
=============================================================================
