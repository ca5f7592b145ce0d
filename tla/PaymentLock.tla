---------------------------- MODULE PaymentLock ----------------------------
(***************************************************************************)
(* The per-payment lock `zamok_platezha` (payment_sweep.py): a dictionary  *)
(* of asyncio locks kept in the memory of the api process, together with a *)
(* counter of the coroutines that use each entry, so that an entry is      *)
(* dropped only by the last of them.  A coroutine is preempted only where  *)
(* it awaits, hence one action per stretch of code between two awaits:     *)
(*                                                                         *)
(*   Enter   setdefault, counter + 1, and acquire() when it need not wait  *)
(*   Wake    acquire() returns to the first coroutine in the lock's queue  *)
(*   Leave   release() and the `finally` block                             *)
(*   Cancel  CancelledError while waiting in acquire(), and the `finally`  *)
(***************************************************************************)
EXTENDS Naturals, Sequences, FiniteSets, SequencesExt

CONSTANTS Tasks,     \* coroutines: webhook requests and payment sweeps
          Ids,       \* provider payment identifiers
          Locks,     \* asyncio.Lock objects
          NoLock, NoTask, NoId

ASSUME NullsAssumption == /\ NoLock \notin Locks
                          /\ NoTask \notin Tasks
                          /\ NoId \notin Ids
ASSUME TasksAssumption == IsFiniteSet(Tasks)

VARIABLES zamki,       \* _ZAMKI: id -> lock object, NoLock when absent
          zhdushchie,  \* _ZHDUSHCHIE: id -> coroutines using the entry
          holder,      \* lock object -> coroutine that owns it
          queue,       \* lock object -> coroutines waiting in acquire()
          pc,          \* where each coroutine is
          id,          \* the id each coroutine asked for
          zamok        \* the lock object each coroutine got

vars == <<zamki, zhdushchie, holder, queue, pc, id, zamok>>

Init == /\ zamki = [i \in Ids |-> NoLock]
        /\ zhdushchie = [i \in Ids |-> 0]
        /\ holder = [l \in Locks |-> NoTask]
        /\ queue = [l \in Locks |-> <<>>]
        /\ pc = [t \in Tasks |-> "idle"]
        /\ id = [t \in Tasks |-> NoId]
        /\ zamok = [t \in Tasks |-> NoLock]

(* A lock object just built by asyncio.Lock() is referenced by nobody.     *)
Fresh(l) == /\ \A i \in Ids : zamki[i] # l
            /\ \A t \in Tasks : zamok[t] # l

(* Mutant: _ZAMKI[id] = asyncio.Lock()                                     *)
SetAlways(i, l) == Fresh(l)

(* _ZAMKI.setdefault(id, asyncio.Lock())                                   *)
SetDefault(i, l) == IF zamki[i] = NoLock THEN Fresh(l) ELSE l = zamki[i]

(* asyncio.Lock.acquire() does not wait: nobody owns it, nobody queues.    *)
FreeForAll(l) == holder[l] = NoTask /\ queue[l] = <<>>

(* Mutant: only the coroutines that wait are counted.                      *)
EnterCountsWaiters(t, i) ==
  /\ pc[t] = "idle"
  /\ \E l \in Locks :
       /\ SetDefault(i, l)
       /\ zamki' = [zamki EXCEPT ![i] = l]
       /\ zamok' = [zamok EXCEPT ![t] = l]
       /\ \/ /\ FreeForAll(l)
             /\ holder' = [holder EXCEPT ![l] = t]
             /\ pc' = [pc EXCEPT ![t] = "inside"]
             /\ UNCHANGED <<queue, zhdushchie>>
          \/ /\ ~FreeForAll(l)
             /\ queue' = [queue EXCEPT ![l] = Append(@, t)]
             /\ pc' = [pc EXCEPT ![t] = "waiting"]
             /\ zhdushchie' = [zhdushchie EXCEPT ![i] = @ + 1]
             /\ UNCHANGED holder
  /\ id' = [id EXCEPT ![t] = i]

Enter(t, i) ==
  /\ pc[t] = "idle"
  /\ \E l \in Locks :
       /\ SetDefault(i, l)
       /\ zamki' = [zamki EXCEPT ![i] = l]
       /\ zamok' = [zamok EXCEPT ![t] = l]
       /\ \/ /\ FreeForAll(l)
             /\ holder' = [holder EXCEPT ![l] = t]
             /\ pc' = [pc EXCEPT ![t] = "inside"]
             /\ UNCHANGED queue
          \/ /\ ~FreeForAll(l)
             /\ queue' = [queue EXCEPT ![l] = Append(@, t)]
             /\ pc' = [pc EXCEPT ![t] = "waiting"]
             /\ UNCHANGED holder
  /\ id' = [id EXCEPT ![t] = i]
  /\ zhdushchie' = [zhdushchie EXCEPT ![i] = @ + 1]

Wake(t) ==
  /\ pc[t] = "waiting"
  /\ holder[zamok[t]] = NoTask
  /\ queue[zamok[t]] # <<>>
  /\ Head(queue[zamok[t]]) = t
  /\ holder' = [holder EXCEPT ![zamok[t]] = t]
  /\ queue' = [queue EXCEPT ![zamok[t]] = Tail(@)]
  /\ pc' = [pc EXCEPT ![t] = "inside"]
  /\ UNCHANGED <<zamki, zhdushchie, id, zamok>>

(* Mutant: whoever leaves drops the entry.                                 *)
ForgetAlways(t) ==
  /\ zhdushchie' = [zhdushchie EXCEPT ![id[t]] = @ - 1]
  /\ zamki' = [zamki EXCEPT ![id[t]] = NoLock]
  /\ pc' = [pc EXCEPT ![t] = "idle"]
  /\ id' = [id EXCEPT ![t] = NoId]
  /\ zamok' = [zamok EXCEPT ![t] = NoLock]

(* The `finally` block: the last user of the entry drops it.               *)
Forget(t) ==
  /\ zhdushchie' = [zhdushchie EXCEPT ![id[t]] = @ - 1]
  /\ zamki' = IF zhdushchie[id[t]] <= 1
              THEN [zamki EXCEPT ![id[t]] = NoLock] ELSE zamki
  /\ pc' = [pc EXCEPT ![t] = "idle"]
  /\ id' = [id EXCEPT ![t] = NoId]
  /\ zamok' = [zamok EXCEPT ![t] = NoLock]

(* Mutant: the lock is not released.                                       *)
LeaveHolding(t) ==
  /\ pc[t] = "inside"
  /\ Forget(t)
  /\ UNCHANGED <<holder, queue>>

Leave(t) ==
  /\ pc[t] = "inside"
  /\ holder' = [holder EXCEPT ![zamok[t]] = NoTask]
  /\ Forget(t)
  /\ UNCHANGED queue

(* Mutant: a cancelled coroutine skips the `finally` block.                *)
CancelNoFinally(t) ==
  /\ pc[t] = "waiting"
  /\ \E k \in 1..Len(queue[zamok[t]]) :
       /\ queue[zamok[t]][k] = t
       /\ queue' = [queue EXCEPT ![zamok[t]] = RemoveAt(@, k)]
  /\ pc' = [pc EXCEPT ![t] = "idle"]
  /\ id' = [id EXCEPT ![t] = NoId]
  /\ zamok' = [zamok EXCEPT ![t] = NoLock]
  /\ UNCHANGED <<holder, zamki, zhdushchie>>

Cancel(t) ==
  /\ pc[t] = "waiting"
  /\ \E k \in 1..Len(queue[zamok[t]]) :
       /\ queue[zamok[t]][k] = t
       /\ queue' = [queue EXCEPT ![zamok[t]] = RemoveAt(@, k)]
  /\ Forget(t)
  /\ UNCHANGED holder

Next == \E t \in Tasks : \/ \E i \in Ids : Enter(t, i)
                         \/ Wake(t)
                         \/ Leave(t)
                         \/ Cancel(t)

Spec == Init /\ [][Next]_vars

(* The event loop runs every ready coroutine, and the code under the lock  *)
(* ends: every call it makes has a timeout.  Nobody is forced to enter or  *)
(* to be cancelled.                                                        *)
Fairness == \A t \in Tasks : WF_vars(Wake(t)) /\ WF_vars(Leave(t))
FairSpec == Spec /\ Fairness
-----------------------------------------------------------------------------
TypeOK ==
  /\ zamki \in [Ids -> Locks \cup {NoLock}]
  /\ zhdushchie \in [Ids -> Nat]
  /\ holder \in [Locks -> Tasks \cup {NoTask}]
  /\ queue \in [Locks -> Seq(Tasks)]
  /\ pc \in [Tasks -> {"idle", "waiting", "inside"}]
  /\ id \in [Tasks -> Ids \cup {NoId}]
  /\ zamok \in [Tasks -> Locks \cup {NoLock}]

Users(i) == {t \in Tasks : pc[t] # "idle" /\ id[t] = i}

(* Two coroutines never work on the same payment at once, however often    *)
(* its dictionary entry has been dropped and built again meanwhile.        *)
OneInside == \A t, u \in Tasks :
  pc[t] = "inside" /\ pc[u] = "inside" /\ id[t] = id[u] => t = u

(* The dictionary keeps an entry exactly while somebody uses it: it does   *)
(* not grow without bound, and no lock vanishes under a coroutine waiting. *)
NoLeak == \A i \in Ids : zamki[i] = NoLock <=> Users(i) = {}

(* Each payment is served in the order of arrival, nobody starves.         *)
EveryWaiterServed == \A t \in Tasks : pc[t] = "waiting" ~> pc[t] # "waiting"

(* The lock implements the mutex its callers rely on.                      *)
Inside == [i \in Ids |-> {t \in Tasks : pc[t] = "inside" /\ id[t] = i}]
Mutex == INSTANCE PaymentMutex WITH inside <- Inside
ImplementsMutex == Mutex!Spec
-----------------------------------------------------------------------------
(* The inductive invariant.  A coroutine that is not idle holds the object *)
(* the dictionary has for its id; objects are not shared between ids; an   *)
(* owner is inside; the counter is exact.                                  *)
EntryInUse == \A t \in Tasks :
  IF pc[t] = "idle" THEN zamok[t] = NoLock
  ELSE id[t] \in Ids /\ zamok[t] \in Locks /\ zamki[id[t]] = zamok[t]

NotShared == \A i, j \in Ids : zamki[i] = zamki[j] /\ zamki[i] # NoLock => i = j

OwnerInside ==
  /\ \A t \in Tasks : pc[t] = "inside" => holder[zamok[t]] = t
  /\ \A l \in Locks : holder[l] # NoTask =>
       pc[holder[l]] = "inside" /\ zamok[holder[l]] = l

CounterExact == \A i \in Ids : zhdushchie[i] = Cardinality(Users(i))

IInv == /\ TypeOK /\ EntryInUse /\ NotShared /\ OwnerInside
        /\ CounterExact /\ NoLeak
=============================================================================
