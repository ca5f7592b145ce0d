------------------------- MODULE PaymentLockProofs -------------------------
(***************************************************************************)
(* Proofs about the payment lock, for any number of coroutines, payments   *)
(* and lock objects.                                                       *)
(***************************************************************************)
EXTENDS PaymentLock, FiniteSetTheorems, SequenceTheorems, TLAPS

USE NullsAssumption, TasksAssumption

LEMMA UsersFinite ==
  ASSUME NEW i \in Ids
  PROVE  IsFiniteSet(Users(i)) /\ Cardinality(Users(i)) \in Nat
BY FS_Subset, FS_CardinalityType DEF Users

(* Who uses an entry changes only by the coroutine that steps.             *)
LEMMA EnterUsers ==
  ASSUME TypeOK, NEW t \in Tasks, NEW i \in Ids, Enter(t, i)
  PROVE  /\ t \notin Users(i) /\ Users(i)' = Users(i) \cup {t}
         /\ \A j \in Ids \ {i} : Users(j)' = Users(j)
<1>1. \A u \in Tasks : u # t => pc'[u] = pc[u] /\ id'[u] = id[u]
  BY DEF Enter, TypeOK
<1>2. pc[t] = "idle" /\ pc'[t] # "idle" /\ id'[t] = i
  BY DEF Enter, TypeOK
<1>. QED BY <1>1, <1>2 DEF Users

LEMMA ForgetUsers ==
  ASSUME TypeOK, NEW t \in Tasks, pc[t] # "idle", Forget(t),
         NEW i \in Ids, id[t] = i
  PROVE  /\ t \in Users(i) /\ Users(i)' = Users(i) \ {t}
         /\ \A j \in Ids \ {i} : Users(j)' = Users(j)
<1>1. \A u \in Tasks : u # t => pc'[u] = pc[u] /\ id'[u] = id[u]
  BY DEF Forget, TypeOK
<1>2. pc'[t] = "idle"
  BY DEF Forget, TypeOK
<1>. QED BY <1>1, <1>2 DEF Users

LEMMA InitIInv == Init => IInv
<1>. SUFFICES ASSUME Init PROVE IInv
  OBVIOUS
<1>1. \A i \in Ids : Users(i) = {}
  BY DEF Init, Users
<1>2. CounterExact
  BY <1>1, FS_EmptySet DEF Init, CounterExact
<1>3. NoLeak
  BY <1>1 DEF Init, NoLeak
<1>4. TypeOK
  BY DEF Init, TypeOK
<1>5. EntryInUse /\ NotShared /\ OwnerInside
  BY DEF Init, EntryInUse, NotShared, OwnerInside
<1>. QED BY <1>2, <1>3, <1>4, <1>5 DEF IInv

LEMMA EnterIInv ==
  ASSUME IInv, NEW t \in Tasks, NEW i \in Ids, Enter(t, i)
  PROVE  IInv'
<1>. USE DEF IInv
<1>1. PICK l \in Locks :
        /\ SetDefault(i, l)
        /\ zamki' = [zamki EXCEPT ![i] = l]
        /\ zamok' = [zamok EXCEPT ![t] = l]
        /\ \/ /\ FreeForAll(l)
              /\ holder' = [holder EXCEPT ![l] = t]
              /\ pc' = [pc EXCEPT ![t] = "inside"]
              /\ UNCHANGED queue
           \/ /\ ~FreeForAll(l)
              /\ queue' = [queue EXCEPT ![l] = Append(@, t)]
              /\ pc' = [pc EXCEPT ![t] = "waiting"]
              /\ UNCHANGED holder
  BY DEF Enter
<1>2. /\ pc[t] = "idle"
      /\ id' = [id EXCEPT ![t] = i]
      /\ zhdushchie' = [zhdushchie EXCEPT ![i] = @ + 1]
  BY DEF Enter
<1>3. TypeOK'
  <2>1. Append(queue[l], t) \in Seq(Tasks)
    BY AppendProperties DEF TypeOK
  <2>2. holder' \in [Locks -> Tasks \cup {NoTask}]
        /\ pc' \in [Tasks -> {"idle", "waiting", "inside"}]
    <3>. USE DEF TypeOK
    <3>1. CASE FreeForAll(l)
      BY <1>1, <3>1
    <3>2. CASE ~FreeForAll(l)
      BY <1>1, <3>2
    <3>. QED BY <3>1, <3>2
  <2>3. queue' \in [Locks -> Seq(Tasks)]
    <3>1. CASE UNCHANGED queue
      BY <3>1 DEF TypeOK
    <3>2. CASE queue' = [queue EXCEPT ![l] = Append(@, t)]
      BY <3>2, <2>1 DEF TypeOK
    <3>. QED BY <3>1, <3>2, <1>1
  <2>4. /\ zamki' \in [Ids -> Locks \cup {NoLock}]
        /\ zamok' \in [Tasks -> Locks \cup {NoLock}]
        /\ id' \in [Tasks -> Ids \cup {NoId}]
        /\ zhdushchie' \in [Ids -> Nat]
    BY <1>1, <1>2 DEF TypeOK
  <2>. QED BY <2>2, <2>3, <2>4 DEF TypeOK
<1>4. \A u \in Tasks : u # t => /\ pc'[u] = pc[u] /\ id'[u] = id[u]
                                /\ zamok'[u] = zamok[u]
  BY <1>1, <1>2 DEF TypeOK
<1>5. /\ pc'[t] # "idle" /\ id'[t] = i /\ zamok'[t] = l /\ zamki'[i] = l
      /\ \A j \in Ids : j # i => zamki'[j] = zamki[j]
  BY <1>1, <1>2 DEF TypeOK
<1>6. EntryInUse'
  <2>. SUFFICES ASSUME NEW u \in Tasks, u # t, pc[u] # "idle"
                PROVE  zamki'[id[u]] = zamok[u]
    BY <1>4, <1>5 DEF EntryInUse
  <2>1. id[u] \in Ids /\ zamok[u] \in Locks /\ zamki[id[u]] = zamok[u]
    BY DEF EntryInUse
  <2>2. CASE id[u] # i
    BY <2>1, <2>2, <1>5
  <2>3. CASE id[u] = i
    BY <2>1, <2>3, <1>1, <1>5 DEF SetDefault
  <2>. QED BY <2>2, <2>3
<1>7. NotShared'
  BY <1>1, <1>5 DEF NotShared, SetDefault, Fresh, TypeOK
<1>8. OwnerInside'
  <2>1. CASE FreeForAll(l) /\ holder' = [holder EXCEPT ![l] = t]
             /\ pc' = [pc EXCEPT ![t] = "inside"]
    <3>1. holder[l] = NoTask /\ holder'[l] = t /\ pc'[t] = "inside"
      BY <2>1 DEF FreeForAll, TypeOK
    <3>2. \A m \in Locks : m # l => holder'[m] = holder[m]
      BY <2>1 DEF TypeOK
    <3>3. \A u \in Tasks : pc[u] = "inside" => zamok[u] \in Locks
      BY DEF EntryInUse
    <3>4. \A u \in Tasks : pc[u] = "inside" => zamok[u] # l
      BY <3>1 DEF OwnerInside
    <3>5. \A u \in Tasks : pc'[u] = "inside" => holder'[zamok'[u]] = u
      BY <3>1, <3>2, <3>3, <3>4, <1>4, <1>5 DEF OwnerInside
    <3>6. ASSUME NEW m \in Locks, holder'[m] # NoTask
          PROVE  pc'[holder'[m]] = "inside" /\ zamok'[holder'[m]] = m
      <4>1. CASE m = l
        BY <4>1, <3>1, <1>5
      <4>2. CASE m # l
        <5>1. holder'[m] = holder[m] /\ holder[m] \in Tasks
          BY <4>2, <3>2, <3>6 DEF TypeOK
        <5>2. pc[holder[m]] = "inside" /\ zamok[holder[m]] = m
          BY <5>1, <3>6 DEF OwnerInside
        <5>. QED BY <5>1, <5>2, <1>2, <1>4
      <4>. QED BY <4>1, <4>2
    <3>. QED BY <3>5, <3>6 DEF OwnerInside
  <2>2. CASE UNCHANGED holder /\ pc' = [pc EXCEPT ![t] = "waiting"]
    <3>1. pc'[t] = "waiting" /\ holder' = holder
      BY <2>2 DEF TypeOK
    <3>2. \A u \in Tasks : pc'[u] = "inside" => holder'[zamok'[u]] = u
      BY <3>1, <1>4 DEF OwnerInside
    <3>3. ASSUME NEW m \in Locks, holder'[m] # NoTask
          PROVE  pc'[holder'[m]] = "inside" /\ zamok'[holder'[m]] = m
      <4>1. holder'[m] \in Tasks /\ pc[holder'[m]] = "inside"
            /\ zamok[holder'[m]] = m
        BY <3>1, <3>3 DEF OwnerInside, TypeOK
      <4>. QED BY <4>1, <1>2, <1>4
    <3>. QED BY <3>2, <3>3 DEF OwnerInside
  <2>. QED BY <2>1, <2>2, <1>1
<1>9. CounterExact'
  <2>1. Cardinality(Users(i)') = Cardinality(Users(i)) + 1
    BY EnterUsers, UsersFinite, FS_AddElement
  <2>. QED BY <2>1, <1>2, EnterUsers DEF CounterExact, TypeOK
<1>10. NoLeak'
  BY <1>5, EnterUsers DEF NoLeak
<1>. QED BY <1>3, <1>6, <1>7, <1>8, <1>9, <1>10

LEMMA WakeIInv ==
  ASSUME IInv, NEW t \in Tasks, Wake(t)
  PROVE  IInv'
<1>. USE DEF IInv
<1>1. zamok[t] \in Locks /\ id[t] \in Ids
  BY DEF Wake, EntryInUse
<1>2. /\ \A u \in Tasks : u # t => pc'[u] = pc[u]
      /\ pc[t] = "waiting" /\ pc'[t] = "inside"
      /\ UNCHANGED <<zamki, zhdushchie, id, zamok>>
  BY DEF Wake, TypeOK
<1>3. /\ holder[zamok[t]] = NoTask /\ holder'[zamok[t]] = t
      /\ \A m \in Locks : m # zamok[t] => holder'[m] = holder[m]
  BY <1>1 DEF Wake, TypeOK
<1>4. Tail(queue[zamok[t]]) \in Seq(Tasks)
  BY <1>1, HeadTailProperties DEF Wake, TypeOK
<1>5. TypeOK'
  BY <1>1, <1>4 DEF Wake, TypeOK
<1>6. EntryInUse' /\ NotShared'
  BY <1>2 DEF EntryInUse, NotShared
<1>7. OwnerInside'
  <2>1. \A u \in Tasks : pc[u] = "inside" => zamok[u] # zamok[t]
    BY <1>3 DEF OwnerInside, TypeOK
  <2>2. \A u \in Tasks : pc[u] = "inside" => zamok[u] \in Locks
    BY DEF EntryInUse
  <2>3. \A u \in Tasks : pc'[u] = "inside" => holder'[zamok'[u]] = u
    BY <2>1, <2>2, <1>2, <1>3 DEF OwnerInside
  <2>4. ASSUME NEW m \in Locks, holder'[m] # NoTask
        PROVE  pc'[holder'[m]] = "inside" /\ zamok'[holder'[m]] = m
    <3>1. CASE m = zamok[t]
      BY <3>1, <1>2, <1>3
    <3>2. CASE m # zamok[t]
      <4>1. holder'[m] = holder[m] /\ holder[m] \in Tasks
        BY <3>2, <1>3, <2>4 DEF TypeOK
      <4>2. pc[holder[m]] = "inside" /\ zamok[holder[m]] = m
        BY <4>1, <2>4 DEF OwnerInside
      <4>. QED BY <4>1, <4>2, <1>2
    <3>. QED BY <3>1, <3>2
  <2>. QED BY <2>3, <2>4 DEF OwnerInside
<1>8. \A i \in Ids : Users(i)' = Users(i)
  BY <1>2 DEF Users
<1>9. CounterExact' /\ NoLeak'
  BY <1>2, <1>8 DEF CounterExact, NoLeak
<1>. QED BY <1>5, <1>6, <1>7, <1>9

(* The `finally` block keeps what the invariant says of the dictionary.    *)
LEMMA ForgetIInv ==
  ASSUME IInv, NEW t \in Tasks, pc[t] # "idle", Forget(t)
  PROVE  EntryInUse' /\ NotShared' /\ CounterExact' /\ NoLeak'
<1>. USE DEF IInv
<1>0. PICK i \in Ids : id[t] = i
  BY DEF EntryInUse
<1>1. i \in Ids /\ zamki[i] # NoLock
  BY <1>0 DEF EntryInUse
<1>2. /\ \A u \in Tasks : u # t => /\ pc'[u] = pc[u] /\ id'[u] = id[u]
                                   /\ zamok'[u] = zamok[u]
      /\ pc'[t] = "idle" /\ zamok'[t] = NoLock
  BY DEF Forget, TypeOK
<1>3. \A j \in Ids : j # i => zamki'[j] = zamki[j]
  BY <1>0 DEF Forget, TypeOK
<1>4. /\ t \in Users(i) /\ Users(i)' = Users(i) \ {t}
      /\ \A j \in Ids \ {i} : Users(j)' = Users(j)
  BY <1>0, ForgetUsers
<1>5. /\ Cardinality(Users(i)') = Cardinality(Users(i)) - 1
      /\ Cardinality(Users(i)') \in Nat
      /\ Cardinality(Users(i)') = 0 <=> Users(i)' = {}
  BY <1>1, <1>4, UsersFinite, FS_RemoveElement, FS_CardinalityType, FS_EmptySet
<1>6. CounterExact'
  <2>1. zhdushchie'[i] = zhdushchie[i] - 1
    BY <1>0 DEF Forget, TypeOK
  <2>2. \A j \in Ids : j # i => zhdushchie'[j] = zhdushchie[j]
    BY <1>0 DEF Forget, TypeOK
  <2>. QED BY <1>1, <1>4, <1>5, <2>1, <2>2 DEF CounterExact
<1>7. zamki'[i] = IF Users(i)' = {} THEN NoLock ELSE zamki[i]
  <2>1. zhdushchie[i] <= 1 <=> Users(i)' = {}
    BY <1>1, <1>5, UsersFinite DEF CounterExact
  <2>2. zamki'[i] = IF zhdushchie[i] <= 1 THEN NoLock ELSE zamki[i]
    BY <1>0 DEF Forget, TypeOK
  <2>. QED BY <2>1, <2>2
<1>8. NoLeak'
  BY <1>1, <1>3, <1>4, <1>7 DEF NoLeak
<1>9. NotShared'
  BY <1>1, <1>3, <1>7 DEF NotShared
<1>10. EntryInUse'
  <2>. SUFFICES ASSUME NEW u \in Tasks, u # t, pc[u] # "idle"
                PROVE  zamki'[id[u]] = zamok[u]
    BY <1>2 DEF EntryInUse
  <2>1. id[u] \in Ids /\ zamki[id[u]] = zamok[u]
    BY DEF EntryInUse
  <2>2. CASE id[u] = i
    <3>1. u \in Users(i)'
      BY <2>2, <1>4 DEF Users
    <3>. QED BY <3>1, <2>1, <2>2, <1>7
  <2>3. CASE id[u] # i
    BY <2>1, <2>3, <1>3
  <2>. QED BY <2>2, <2>3
<1>. QED BY <1>6, <1>8, <1>9, <1>10

LEMMA LeaveIInv ==
  ASSUME IInv, NEW t \in Tasks, Leave(t)
  PROVE  IInv'
<1>. USE DEF IInv
<1>1. zamok[t] \in Locks /\ id[t] \in Ids /\ zhdushchie[id[t]] > 0
  <2>1. t \in Users(id[t]) /\ id[t] \in Ids /\ zamok[t] \in Locks
    BY DEF Leave, EntryInUse, Users
  <2>. QED BY <2>1, UsersFinite, FS_EmptySet DEF CounterExact
<1>2. TypeOK'
  BY <1>1 DEF Leave, Forget, TypeOK
<1>3. EntryInUse' /\ NotShared' /\ CounterExact' /\ NoLeak'
  BY ForgetIInv DEF Leave
<1>4. OwnerInside'
  <2>1. /\ \A u \in Tasks : u # t => pc'[u] = pc[u] /\ zamok'[u] = zamok[u]
        /\ pc'[t] = "idle"
    BY DEF Leave, Forget, TypeOK
  <2>2. /\ holder[zamok[t]] = t /\ holder'[zamok[t]] = NoTask
        /\ \A m \in Locks : m # zamok[t] => holder'[m] = holder[m]
    BY <1>1 DEF Leave, OwnerInside, TypeOK
  <2>3. \A u \in Tasks : pc[u] = "inside" => zamok[u] \in Locks
    BY DEF EntryInUse
  <2>4. \A u \in Tasks : pc'[u] = "inside" => holder'[zamok'[u]] = u
    BY <2>1, <2>2, <2>3 DEF OwnerInside
  <2>5. ASSUME NEW m \in Locks, holder'[m] # NoTask
        PROVE  pc'[holder'[m]] = "inside" /\ zamok'[holder'[m]] = m
    <3>1. m # zamok[t] /\ holder'[m] = holder[m] /\ holder[m] \in Tasks
      BY <2>2, <2>5 DEF TypeOK
    <3>2. pc[holder[m]] = "inside" /\ zamok[holder[m]] = m
      BY <3>1, <2>5 DEF OwnerInside
    <3>. QED BY <3>1, <3>2, <2>1
  <2>. QED BY <2>4, <2>5 DEF OwnerInside
<1>. QED BY <1>2, <1>3, <1>4

LEMMA CancelIInv ==
  ASSUME IInv, NEW t \in Tasks, Cancel(t)
  PROVE  IInv'
<1>. USE DEF IInv
<1>1. zamok[t] \in Locks /\ id[t] \in Ids /\ zhdushchie[id[t]] > 0
  <2>1. t \in Users(id[t]) /\ id[t] \in Ids /\ zamok[t] \in Locks
    BY DEF Cancel, EntryInUse, Users
  <2>. QED BY <2>1, UsersFinite, FS_EmptySet DEF CounterExact
<1>2. PICK k \in 1..Len(queue[zamok[t]]) :
        queue' = [queue EXCEPT ![zamok[t]] = RemoveAt(@, k)]
  BY DEF Cancel
<1>3. RemoveAt(queue[zamok[t]], k) \in Seq(Tasks)
  <2>1. queue[zamok[t]] \in Seq(Tasks)
    BY <1>1 DEF TypeOK
  <2>. QED BY <2>1, SubSeqProperties, ConcatProperties DEF RemoveAt
<1>4. TypeOK'
  BY <1>1, <1>2, <1>3 DEF Cancel, Forget, TypeOK
<1>5. EntryInUse' /\ NotShared' /\ CounterExact' /\ NoLeak'
  BY ForgetIInv DEF Cancel
<1>6. OwnerInside'
  BY DEF Cancel, Forget, OwnerInside, TypeOK
<1>. QED BY <1>4, <1>5, <1>6

LEMMA NextIInv == IInv /\ [Next]_vars => IInv'
<1>. SUFFICES ASSUME IInv, [Next]_vars PROVE IInv'
  OBVIOUS
<1>1. CASE Next
  BY <1>1, EnterIInv, WakeIInv, LeaveIInv, CancelIInv DEF Next
<1>2. CASE UNCHANGED vars
  BY <1>2 DEF vars, IInv, TypeOK, EntryInUse, NotShared, OwnerInside,
              CounterExact, NoLeak, Users
<1>. QED BY <1>1, <1>2

(* The invariant of `zamok_platezha`: the dictionary, the counter and the  *)
(* lock objects agree in every reachable state.                            *)
THEOREM LockInvariant == Spec => []IInv
BY InitIInv, NextIInv, PTL DEF Spec

LEMMA IInvOneInside == IInv => OneInside
<1>. SUFFICES ASSUME IInv, NEW t \in Tasks, NEW u \in Tasks,
                     pc[t] = "inside", pc[u] = "inside", id[t] = id[u]
              PROVE  t = u
  BY DEF OneInside
<1>1. zamok[t] = zamok[u]
  BY DEF IInv, EntryInUse
<1>2. holder[zamok[t]] = t /\ holder[zamok[u]] = u
  BY DEF IInv, OwnerInside
<1>. QED BY <1>1, <1>2

(* Mutual exclusion of the webhook and the sweep on each payment.          *)
THEOREM MutualExclusion == Spec => []OneInside
BY LockInvariant, IInvOneInside, PTL

(* The dictionary of locks neither grows nor loses a lock in use.          *)
THEOREM DictionaryClean == Spec => []NoLeak
<1>1. IInv => NoLeak
  BY DEF IInv
<1>. QED BY <1>1, LockInvariant, PTL
-----------------------------------------------------------------------------
(* The coroutine that comes inside finds nobody there.                     *)
LEMMA EntersAlone ==
  ASSUME TypeOK, OneInside', NEW t \in Tasks, NEW i \in Ids,
         pc[t] # "inside", pc'[t] = "inside", id'[t] = i,
         \A u \in Tasks : u # t => pc'[u] = pc[u] /\ id'[u] = id[u]
  PROVE  Mutex!Enter(t, i)
<1>1. \A u \in Tasks : pc[u] = "inside" => id[u] # i
  BY DEF OneInside
<1>2. Inside[i] = {} /\ \A j \in Ids : t \notin Inside[j]
  BY <1>1 DEF Inside
<1>3. \A j \in Ids : {u \in Tasks : pc'[u] = "inside" /\ id'[u] = j} =
                    IF j = i THEN {t}
                    ELSE {u \in Tasks : pc[u] = "inside" /\ id[u] = j}
  BY <1>1
<1>4. Inside' = [Inside EXCEPT ![i] = {t}]
  BY <1>3 DEF Inside
<1>. QED BY <1>2, <1>4 DEF Mutex!Enter

LEMMA StepsAreMutexSteps ==
  IInv /\ OneInside /\ OneInside' /\ [Next]_vars => [Mutex!Next]_Inside
<1>. SUFFICES ASSUME IInv, OneInside, OneInside', [Next]_vars
              PROVE  [Mutex!Next]_Inside
  OBVIOUS
<1>. USE DEF IInv
<1>1. ASSUME NEW t \in Tasks, NEW i \in Ids, Enter(t, i)
      PROVE  [Mutex!Next]_Inside
  <2>1. /\ \A u \in Tasks : u # t => pc'[u] = pc[u] /\ id'[u] = id[u]
        /\ pc[t] = "idle" /\ id'[t] = i /\ pc'[t] \in {"inside", "waiting"}
    BY <1>1 DEF Enter, TypeOK
  <2>2. CASE pc'[t] = "inside"
    BY <2>1, <2>2, EntersAlone DEF Mutex!Next
  <2>3. CASE pc'[t] = "waiting"
    BY <2>1, <2>3 DEF Inside
  <2>. QED BY <2>1, <2>2, <2>3
<1>2. ASSUME NEW t \in Tasks, Wake(t)
      PROVE  [Mutex!Next]_Inside
  <2>1. /\ \A u \in Tasks : u # t => pc'[u] = pc[u] /\ id'[u] = id[u]
        /\ pc[t] = "waiting" /\ pc'[t] = "inside" /\ id'[t] = id[t]
        /\ id[t] \in Ids
    BY <1>2 DEF Wake, TypeOK, EntryInUse
  <2>. QED BY <2>1, EntersAlone DEF Mutex!Next
<1>3. ASSUME NEW t \in Tasks, Leave(t)
      PROVE  [Mutex!Next]_Inside
  <2>1. PICK i \in Ids : id[t] = i
    BY <1>3 DEF Leave, EntryInUse
  <2>2. /\ \A u \in Tasks : u # t => pc'[u] = pc[u] /\ id'[u] = id[u]
        /\ pc[t] = "inside" /\ pc'[t] = "idle"
    BY <1>3 DEF Leave, Forget, TypeOK
  <2>3. Inside[i] = {t}
    BY <2>1, <2>2 DEF Inside, OneInside
  <2>4. \A j \in Ids : {u \in Tasks : pc'[u] = "inside" /\ id'[u] = j} =
                      {u \in Tasks : pc[u] = "inside" /\ id[u] = j} \ {t}
    BY <2>2
  <2>5. \A j \in Ids : {u \in Tasks : pc'[u] = "inside" /\ id'[u] = j} =
                      IF j = i THEN {}
                      ELSE {u \in Tasks : pc[u] = "inside" /\ id[u] = j}
    BY <2>1, <2>3, <2>4 DEF Inside
  <2>6. Inside' = [Inside EXCEPT ![i] = {}]
    BY <2>5 DEF Inside
  <2>. QED BY <2>3, <2>6 DEF Mutex!Next, Mutex!Leave
<1>4. ASSUME NEW t \in Tasks, Cancel(t)
      PROVE  [Mutex!Next]_Inside
  BY <1>4 DEF Cancel, Forget, TypeOK, Inside
<1>5. CASE UNCHANGED vars
  BY <1>5 DEF vars, Inside
<1>. QED BY <1>1, <1>2, <1>3, <1>4, <1>5 DEF Next

(* `zamok_platezha` implements the abstract mutex.                         *)
THEOREM LockImplementsMutex == Spec => ImplementsMutex
<1>1. Init => Mutex!Init
  BY DEF Init, Mutex!Init, Inside
<1>. QED BY <1>1, LockInvariant, MutualExclusion, StepsAreMutexSteps, PTL
         DEF Spec, ImplementsMutex, Mutex!Spec
=============================================================================
