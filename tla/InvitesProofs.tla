---------------------------- MODULE InvitesProofs ----------------------------
(***************************************************************************)
(* Theorems about Invites, for any number of codes and requests and any    *)
(* limits.                                                                 *)
(***************************************************************************)
EXTENDS Invites, FiniteSetTheorems, SequenceTheorems, TLAPS

LEMMA Limits ==
  /\ TTL \in Nat \ {0} /\ MaxEntries \in Nat \ {0} /\ Lookups \in Nat \ {0}
  /\ Window \in Nat \ {0} /\ Timeout \in Nat /\ MaxNow \in Nat /\ NoCode \notin Codes
BY LimitsAssumption

USE Limits

LEMMA IntervalCard == \A n \in Nat : IsFiniteSet(1..n) /\ Cardinality(1..n) = n
<1> SUFFICES ASSUME NEW n \in Nat PROVE IsFiniteSet(1..n) /\ Cardinality(1..n) = n
  OBVIOUS
<1>1. /\ IsFiniteSet(1..n)
      /\ Cardinality(1..n) = IF 1 > n THEN 0 ELSE n - 1 + 1
  BY FS_Interval
<1> QED BY <1>1

(* What popping from the front leaves of the deque.                        *)
LEMMA InWindowKept ==
  ASSUME TypeOK, DequeOK
  PROVE  /\ InWindow \in Seq(0..MaxNow)
         /\ Len(InWindow) <= Len(lookups)
         /\ \A i \in 1..(Len(log) - Len(InWindow)) : log[i] <= now - Window
         /\ \A i \in DOMAIN InWindow : InWindow[i] = log[Len(log) - Len(InWindow) + i]
<1> DEFINE d == Cardinality(Outdated)
           n == Len(lookups)
<1>1. /\ n \in Nat /\ DOMAIN lookups = 1..n /\ now \in Nat /\ lookups \in Seq(Int)
      /\ \A i \in 1..n : lookups[i] \in Int
  BY DEF TypeOK
<1>2. Outdated \in SUBSET (1..n) /\ IsFiniteSet(1..n) /\ Cardinality(1..n) = n
  BY <1>1, IntervalCard DEF Outdated
<1>3. IsFiniteSet(Outdated) /\ d \in Nat /\ d <= n
  BY <1>2, FS_Subset, FS_CardinalityType
<1>4. ASSUME NEW i \in Outdated PROVE i <= d
  <2>1. i \in 1..n /\ 1..i \in SUBSET Outdated
    BY <1>1 DEF Outdated
  <2>2. Cardinality(1..i) = i
    BY <2>1, IntervalCard
  <2> QED BY <1>3, <2>1, <2>2, FS_Subset
<1>5. Outdated = 1..d
  <2>1. Outdated \in SUBSET (1..d) /\ IsFiniteSet(1..d) /\ Cardinality(1..d) = d
    BY <1>2, <1>3, <1>4, IntervalCard
  <2> QED BY <2>1, FS_Subset
<1>6. /\ InWindow \in Seq(0..MaxNow)
      /\ Len(InWindow) = n - d
      /\ \A i \in 1..(n - d) : InWindow[i] = lookups[d + i]
  <2>1. /\ lookups \in Seq(0..MaxNow) /\ d + 1 \in 1..(n + 1) /\ n \in 0..n
    BY <1>1, <1>3 DEF TypeOK
  <2>2. \A i \in (d + 1)..n : lookups[i] \in 0..MaxNow
    BY <1>1, <1>3, <2>1
  <2> DEFINE a == d + 1
  <2>3. a \in Nat /\ n \in Nat /\ InWindow = SubSeq(lookups, a, n)
    BY <1>1, <1>3 DEF InWindow
  <2> HIDE DEF a
  <2>4. /\ InWindow \in Seq(0..MaxNow)
        /\ Len(InWindow) = IF a <= n THEN n - a + 1 ELSE 0
        /\ \A i \in 1..(n - a + 1) : InWindow[i] = lookups[a + i - 1]
    BY <2>1, <2>2, <2>3, SubSeqProperties, SMTT(30) DEF a
  <2>5. a \in 1..(n + 1) /\ n - a + 1 = n - d
    BY <1>1, <1>3 DEF a
  <2>6. Len(InWindow) = n - d
    BY <1>1, <2>4, <2>5
  <2>7. ASSUME NEW i \in 1..(n - d) PROVE InWindow[i] = lookups[d + i]
    <3>1. a + i - 1 = d + i
      BY <1>3 DEF a
    <3> QED BY <2>4, <2>5, <2>7, <3>1
  <2> QED BY <2>4, <2>6, <2>7
<1>7. Len(log) \in Nat /\ Len(log) - n >= 0 /\ Lost = Len(log) - n
  BY <1>1 DEF TypeOK, DequeOK, Lost
<1>8. ASSUME NEW i \in 1..(Len(log) - Len(InWindow)) PROVE log[i] <= now - Window
  <2>1. CASE i <= Lost
    BY <1>7, <2>1 DEF DequeOK
  <2>2. CASE i > Lost
    <3>1. i - Lost \in 1..d /\ Lost + (i - Lost) = i
      BY <1>1, <1>3, <1>6, <1>7, <2>2
    <3>2. lookups[i - Lost] <= now - Window
      BY <1>1, <1>3, <1>5, <3>1 DEF Outdated
    <3>3. i - Lost \in DOMAIN lookups
      BY <1>1, <1>3, <3>1
    <3> QED BY <3>1, <3>2, <3>3 DEF DequeOK
  <2> QED BY <1>1, <1>3, <1>6, <1>7, <2>1, <2>2
<1>9. ASSUME NEW i \in DOMAIN InWindow
      PROVE  InWindow[i] = log[Len(log) - Len(InWindow) + i]
  <2>1. i \in 1..(n - d) /\ d + i \in DOMAIN lookups
    BY <1>1, <1>3, <1>6, SMTT(30)
  <2>2. InWindow[i] = log[Lost + (d + i)]
    BY <1>6, <2>1 DEF DequeOK
  <2>3. Lost + (d + i) = Len(log) - Len(InWindow) + i
    <3> HIDE DEF n, d
    <3>1. Len(InWindow) = n - d /\ i \in Int /\ n \in Int /\ d \in Int
      BY <1>1, <1>3, <1>6, <2>1
    <3>2. Lost = Len(log) - n /\ Len(log) \in Int
      BY <1>7
    <3> QED BY <3>1, <3>2
  <2> QED BY <2>2, <2>3
<1> QED BY <1>1, <1>3, <1>6, <1>8, <1>9

(* A window that begins after what is out of it counts the last k only.    *)
LEMMA SeenAtMost ==
  ASSUME NEW q \in Seq(Nat), NEW k \in Nat, k <= Len(q), NEW t \in Nat, NEW u \in Int,
         \A i \in 1..(Len(q) - k) : q[i] <= u, u < t
  PROVE  Cardinality({i \in DOMAIN q : t <= q[i] /\ q[i] < t + Window}) <= k
<1> DEFINE n == Len(q)
           S == {i \in DOMAIN q : t <= q[i] /\ q[i] < t + Window}
<1>1. n \in Nat /\ DOMAIN q = 1..n /\ \A i \in 1..n : q[i] \in Nat
  OBVIOUS
<1>2. S \in SUBSET ((n - k + 1)..n)
  BY <1>1, SMTT(30)
<1>3. IsFiniteSet((n - k + 1)..n) /\ Cardinality((n - k + 1)..n) = k
  <2>1. n - k + 1 \in Int /\ n \in Int
    BY <1>1
  <2>2. /\ IsFiniteSet((n - k + 1)..n)
        /\ Cardinality((n - k + 1)..n) = IF n - k + 1 > n THEN 0 ELSE n - (n - k + 1) + 1
    BY <2>1, FS_Interval
  <2> QED BY <1>1, <2>2
<1>4. Cardinality(S) <= Cardinality((n - k + 1)..n)
  BY <1>2, <1>3, FS_Subset
<1> QED BY <1>3, <1>4

(* The window after a lookup.                                              *)
LEMMA LookupWindow ==
  ASSUME TypeOK, DequeOK, WindowKept, Len(InWindow) < Lookups,
         lookups' = Append(InWindow, now), log' = Append(log, now), UNCHANGED now
  PROVE  DequeOK' /\ WindowKept'
<1> DEFINE n == Len(log)
           k == Len(InWindow)
<1>1. /\ now \in Nat /\ log \in Seq(Nat) /\ n \in Nat /\ InWindow \in Seq(Nat) /\ k \in Nat
      /\ k <= Len(lookups) /\ Len(lookups) <= n /\ Len(lookups) \in Nat
      /\ \A i \in 1..n : log[i] \in Nat
  BY InWindowKept, SMTT(30) DEF TypeOK, DequeOK, Lost
<1>2. /\ log' \in Seq(Nat) /\ Len(log') = n + 1 /\ DOMAIN log' = 1..(n + 1)
      /\ \A i \in 1..n : log'[i] = log[i]
      /\ log'[n + 1] = now
  BY <1>1
<1>3. /\ lookups' \in Seq(Nat) /\ Len(lookups') = k + 1 /\ DOMAIN lookups' = 1..(k + 1)
      /\ \A i \in 1..k : lookups'[i] = InWindow[i]
      /\ lookups'[k + 1] = now
  BY <1>1
<1>4. Lost' = n - k
  BY <1>1, <1>2, <1>3 DEF Lost
<1>5. \A i \in 1..(n - k) : log'[i] <= now - Window
  BY <1>1, <1>2, InWindowKept
<1>6. DequeOK'
  <2>1. Lost' >= 0 /\ Len(lookups') <= Lookups
    BY <1>1, <1>3, <1>4
  <2>2. \A i \in DOMAIN log' : log'[i] <= now'
    BY <1>1, <1>2 DEF DequeOK
  <2>3. \A i \in 1..Lost' : log'[i] <= now' - Window
    BY <1>4, <1>5
  <2>4. ASSUME NEW i \in DOMAIN lookups' PROVE lookups'[i] = log'[Lost' + i]
    <3>1. CASE i \in 1..k
      <4>1. i \in DOMAIN InWindow
        BY <1>1, <3>1
      <4>2. InWindow[i] = log[n - k + i]
        BY <4>1, InWindowKept
      <4> HIDE DEF n, k
      <4>3. n - k + i \in 1..n
        BY <1>1, <3>1
      <4> QED BY <1>2, <1>3, <1>4, <3>1, <4>2, <4>3
    <3>2. CASE i = k + 1
      <4> HIDE DEF n, k
      <4>1. Lost' + i = n + 1
        BY <1>1, <1>4, <3>2
      <4> QED BY <1>2, <1>3, <3>2, <4>1
    <3>3. i \in 1..(k + 1)
      BY <1>3
    <3>4. k \in Nat
      BY <1>1
    <3> HIDE DEF k
    <3>5. i \in 1..k \/ i = k + 1
      BY <3>3, <3>4
    <3> QED BY <3>1, <3>2, <3>5
  <2> QED BY <2>1, <2>2, <2>3, <2>4 DEF DequeOK
<1>7. ASSUME NEW t \in 0..now PROVE Cardinality(Seen(t)') <= Lookups
  <2>1. CASE t <= now - Window
    <3>1. Seen(t)' = Seen(t)
      BY <1>1, <1>2, <2>1, SMTT(30) DEF Seen
    <3> QED BY <3>1 DEF WindowKept
  <2>2. CASE t > now - Window
    <3>1. k + 1 <= Len(log') /\ k + 1 \in Nat /\ Len(log') - (k + 1) = n - k
      BY <1>1, <1>2
    <3>2. Cardinality(Seen(t)') <= k + 1
      <4> DEFINE u == now - Window
      <4>1. u \in Int /\ u < t /\ t \in Nat
        BY <1>1, <2>2
      <4>2. \A i \in 1..(Len(log') - (k + 1)) : log'[i] <= u
        BY <1>5, <3>1
      <4> QED BY <1>2, <3>1, <4>1, <4>2, SeenAtMost DEF Seen
    <3>3. Cardinality(Seen(t)') \in Nat
      <4>1. Seen(t)' \in SUBSET (1..(n + 1)) /\ IsFiniteSet(1..(n + 1))
        BY <1>1, <1>2, FS_Interval DEF Seen
      <4> QED BY <4>1, FS_Subset, FS_CardinalityType
    <3> QED BY <1>1, <3>2, <3>3
  <2> QED BY <1>1, <2>1, <2>2
<1> QED BY <1>6, <1>7 DEF WindowKept
-----------------------------------------------------------------------------
(* A cache in order, without one of its entries.                           *)
LEMMA Removed ==
  ASSUME NEW q \in Seq(Entries), NEW k \in DOMAIN q
  PROVE  /\ RemoveAt(q, k) \in Seq(Entries)
         /\ Len(RemoveAt(q, k)) = Len(q) - 1
         /\ \A i \in 1..(Len(q) - 1) : RemoveAt(q, k)[i] = q[IF i < k THEN i ELSE i + 1]
<1> DEFINE n == Len(q)
           u == SubSeq(q, 1, k - 1)
           v == SubSeq(q, k + 1, n)
<1>1. n \in Nat /\ k \in 1..n /\ \A i \in 1..n : q[i] \in Entries
  OBVIOUS
<1>2. /\ u \in Seq(Entries) /\ Len(u) = k - 1
      /\ \A i \in 1..(k - 1) : u[i] = q[i]
  <2> DEFINE b == k - 1
  <2>1. b \in Int /\ (1 <= b \/ b = 0) /\ \A i \in 1..b : q[i] \in Entries
    BY <1>1
  <2> HIDE DEF b
  <2>2. /\ SubSeq(q, 1, b) \in Seq(Entries)
        /\ Len(SubSeq(q, 1, b)) = IF 1 <= b THEN b - 1 + 1 ELSE 0
        /\ \A i \in 1..(b - 1 + 1) : SubSeq(q, 1, b)[i] = q[1 + i - 1]
    BY <2>1, SubSeqProperties
  <2>3. Len(SubSeq(q, 1, b)) = b /\ \A i \in 1..b : SubSeq(q, 1, b)[i] = q[i]
    BY <2>1, <2>2
  <2> QED BY <2>2, <2>3 DEF b
<1>3. /\ v \in Seq(Entries) /\ Len(v) = n - k
      /\ \A i \in 1..(n - k) : v[i] = q[k + i]
  <2> DEFINE a == k + 1
  <2>1. a \in Int /\ n \in Int /\ a <= n + 1 /\ (\A i \in a..n : q[i] \in Entries)
    BY <1>1
  <2> HIDE DEF a, n
  <2>2. /\ SubSeq(q, a, n) \in Seq(Entries)
        /\ Len(SubSeq(q, a, n)) = IF a <= n THEN n - a + 1 ELSE 0
        /\ \A i \in 1..(n - a + 1) : SubSeq(q, a, n)[i] = q[a + i - 1]
    BY <2>1, SubSeqProperties
  <2>3. n - a + 1 = n - k /\ (a <= n \/ n - k = 0) /\ \A i \in Int : a + i - 1 = k + i
    BY <1>1, <2>1 DEF a
  <2>4. Len(SubSeq(q, a, n)) = n - k
    BY <2>1, <2>2, <2>3
  <2>5. ASSUME NEW i \in 1..(n - k) PROVE SubSeq(q, a, n)[i] = q[k + i]
    <3>1. i \in 1..(n - a + 1) /\ a + i - 1 = k + i
      BY <2>3
    <3> QED BY <2>2, <3>1
  <2>6. v = SubSeq(q, a, n)
    BY DEF a, n
  <2> QED BY <2>2, <2>4, <2>5, <2>6
<1>4. RemoveAt(q, k) = u \o v
  BY DEF RemoveAt
<1> HIDE DEF n, u, v
<1>5. /\ u \o v \in Seq(Entries)
      /\ Len(u \o v) = Len(u) + Len(v)
      /\ \A i \in 1..(Len(u) + Len(v)) :
           (u \o v)[i] = IF i <= Len(u) THEN u[i] ELSE v[i - Len(u)]
  BY <1>2, <1>3, ConcatProperties
<1>6. Len(u) + Len(v) = n - 1
  BY <1>1, <1>2, <1>3
<1>7. ASSUME NEW i \in 1..(n - 1) PROVE (u \o v)[i] = q[IF i < k THEN i ELSE i + 1]
  <2>1. CASE i < k
    <3>1. i \in 1..(k - 1) /\ i <= Len(u)
      BY <1>1, <1>2, <2>1
    <3> QED BY <1>2, <1>5, <1>6, <2>1, <3>1
  <2>2. CASE ~(i < k)
    <3>1. i - (k - 1) \in 1..(n - k) /\ k + (i - (k - 1)) = i + 1
      BY <1>1, <2>2
    <3>2. (u \o v)[i] = v[i - (k - 1)]
      BY <1>1, <1>2, <1>5, <1>6, <2>2, SMTT(30)
    <3> QED BY <1>1, <1>3, <2>2, <3>1, <3>2
  <2> QED BY <2>1, <2>2
<1> QED BY <1>4, <1>5, <1>6, <1>7 DEF n

CacheOK(q) ==
  /\ q \in Seq(Entries) /\ Len(q) <= MaxEntries /\ Ordered(q)
  /\ \A i \in DOMAIN q : EntryOK(q[i])

(* Whatever code is taken out of the cache.                                *)
LEMMA OthersOK ==
  ASSUME CacheOK(cache), NEW c \in Codes
  PROVE  CacheOK(Others(c)) /\ \A i \in DOMAIN Others(c) : Others(c)[i].code # c
<1>1. CASE Places(c) = {}
  BY <1>1 DEF Others, Places
<1>2. CASE Places(c) # {}
  <2> DEFINE k == CHOOSE i \in Places(c) : TRUE
             p == RemoveAt(cache, k)
             n == Len(cache)
             At(i) == IF i < k THEN i ELSE i + 1
  <2>1. k \in DOMAIN cache /\ cache[k].code = c /\ cache \in Seq(Entries)
    BY <1>2 DEF Places, CacheOK
  <2>2. Others(c) = p
    BY <1>2 DEF Others
  <2> HIDE DEF k
  <2>3. /\ p \in Seq(Entries) /\ Len(p) = n - 1
        /\ \A i \in 1..(n - 1) : p[i] = cache[At(i)]
    BY <2>1, Removed
  <2> HIDE DEF p
  <2>4. n \in Nat /\ k \in 1..n /\ DOMAIN p = 1..(n - 1) /\ DOMAIN cache = 1..n
    BY <2>1, <2>3
  <2>5. /\ \A i \in DOMAIN p : At(i) \in DOMAIN cache /\ At(i) # k
        /\ \A i, j \in DOMAIN p : i < j => At(i) < At(j)
    BY <2>4
  <2>6. ASSUME NEW i \in DOMAIN p PROVE p[i].code # c
    <3>1. p[i] = cache[At(i)] /\ At(i) \in DOMAIN cache /\ At(i) # k /\ At(i) \in Int
      BY <2>3, <2>4, <2>5
    <3> HIDE DEF At
    <3>2. At(i) < k \/ k < At(i)
      BY <2>4, <3>1
    <3> QED BY <2>1, <3>1, <3>2 DEF CacheOK, Ordered
  <2>7. ASSUME NEW i \in DOMAIN p, NEW j \in DOMAIN p, i < j
        PROVE  p[i].until <= p[j].until /\ p[i].code # p[j].code
    <3>1. /\ p[i] = cache[At(i)] /\ p[j] = cache[At(j)] /\ At(i) < At(j)
          /\ At(i) \in DOMAIN cache /\ At(j) \in DOMAIN cache
      BY <2>3, <2>4, <2>5, <2>7
    <3> HIDE DEF At
    <3> QED BY <3>1 DEF CacheOK, Ordered
  <2>8. \A i \in DOMAIN p : EntryOK(p[i])
    BY <2>3, <2>4, <2>5 DEF CacheOK
  <2> QED BY <2>2, <2>3, <2>4, <2>6, <2>7, <2>8 DEF CacheOK, Ordered
<1> QED BY <1>1, <1>2

(* A new entry at the end, and the first one evicted.                      *)
LEMMA EvictedOK ==
  ASSUME NEW q, CacheOK(q), NEW e \in Entries, EntryOK(e), e.until = now + TTL, now \in Nat,
         \A i \in DOMAIN q : q[i].code # e.code
  PROVE  CacheOK(Evicted(Append(q, e)))
<1> DEFINE n == Len(q)
           p == Append(q, e)
<1>1. n \in Nat /\ q \in Seq(Entries) /\ DOMAIN q = 1..n /\ n <= MaxEntries
  BY DEF CacheOK
<1>2. /\ p \in Seq(Entries) /\ Len(p) = n + 1 /\ DOMAIN p = 1..(n + 1)
      /\ \A i \in 1..n : p[i] = q[i]
      /\ p[n + 1] = e
  BY <1>1
<1> HIDE DEF p
<1>3. \A i \in DOMAIN p : EntryOK(p[i])
  BY <1>1, <1>2 DEF CacheOK
<1>4. Ordered(p)
  <2> SUFFICES ASSUME NEW i \in DOMAIN p, NEW j \in DOMAIN p, i < j
               PROVE  p[i].until <= p[j].until /\ p[i].code # p[j].code
    BY DEF Ordered
  <2>1. CASE j \in 1..n
    BY <1>1, <1>2, <2>1 DEF CacheOK, Ordered
  <2>2. CASE j = n + 1
    BY <1>1, <1>2, <2>2 DEF CacheOK, EntryOK
  <2> QED BY <1>1, <1>2, <2>1, <2>2
<1>5. CASE n + 1 <= MaxEntries
  BY <1>2, <1>3, <1>4, <1>5 DEF Evicted, CacheOK, p
<1>6. CASE n + 1 > MaxEntries
  <2>1. Evicted(p) = Tail(p) /\ n = MaxEntries
    BY <1>1, <1>2, <1>6 DEF Evicted
  <2>2. /\ Tail(p) \in Seq(Entries) /\ Len(Tail(p)) = n /\ DOMAIN Tail(p) = 1..n
        /\ \A i \in 1..n : Tail(p)[i] = p[i + 1]
    BY <1>1, <1>2
  <2>3. \A i \in DOMAIN Tail(p) : EntryOK(Tail(p)[i])
    BY <1>1, <1>2, <1>3, <2>2
  <2>4. ASSUME NEW i \in DOMAIN Tail(p), NEW j \in DOMAIN Tail(p), i < j
        PROVE  Tail(p)[i].until <= Tail(p)[j].until /\ Tail(p)[i].code # Tail(p)[j].code
    <3>1. i + 1 \in DOMAIN p /\ j + 1 \in DOMAIN p /\ i + 1 < j + 1
      BY <1>1, <1>2, <2>2, <2>4
    <3> QED BY <1>4, <2>2, <3>1 DEF Ordered
  <2> QED BY <1>1, <2>1, <2>2, <2>3, <2>4 DEF CacheOK, Ordered, p
<1> QED BY <1>1, <1>5, <1>6
-----------------------------------------------------------------------------
THEOREM InviteInvariant == Spec => []InviteInv
<1>1. Init => InviteInv
  <2> SUFFICES ASSUME Init PROVE InviteInv
    OBVIOUS
  <2>1. TypeOK
    BY DEF Init, TypeOK, Records, Idle
  <2>2. DequeOK
    BY DEF Init, DequeOK, Lost
  <2>3. WindowKept
    <3>1. \A t \in 0..now : Seen(t) = {}
      BY DEF Init, Seen
    <3> QED BY <3>1, FS_EmptySet DEF WindowKept
  <2>4. CacheInOrder /\ \A i \in DOMAIN cache : EntryOK(cache[i])
    BY DEF Init, CacheInOrder, Ordered
  <2>5. \A r \in Requests : RequestOK(req[r])
    BY DEF Init, RequestOK, Idle
  <2> QED BY <2>1, <2>2, <2>3, <2>4, <2>5 DEF InviteInv
<1>2. InviteInv /\ [Next]_vars => InviteInv'
  <2> SUFFICES ASSUME InviteInv, [Next]_vars PROVE InviteInv'
    OBVIOUS
  <2>1. /\ TypeOK /\ DequeOK /\ WindowKept /\ CacheOK(cache) /\ now \in Nat
        /\ \A r \in Requests : RequestOK(req[r])
    BY DEF InviteInv, CacheInOrder, CacheOK, TypeOK
  <2> SUFFICES /\ TypeOK' /\ DequeOK' /\ WindowKept' /\ CacheOK(cache)'
               /\ \A p \in Requests : RequestOK(req[p])'
    BY DEF InviteInv, CacheInOrder, CacheOK
  <2>2. ASSUME NEW r \in Requests, NEW c \in Codes, Lookup(r, c)
        PROVE  /\ TypeOK' /\ DequeOK' /\ WindowKept' /\ CacheOK(cache)'
               /\ \A p \in Requests : RequestOK(req[p])'
    <3>1. DequeOK' /\ WindowKept'
      BY <2>1, <2>2, LookupWindow DEF Lookup
    <3>2. CacheOK(cache)'
      BY <2>1, <2>2, OthersOK DEF Lookup, CacheOK, EntryOK
    <3>3. lookups' \in Seq(0..MaxNow) /\ log' \in Seq(0..MaxNow)
      BY <2>1, <2>2, InWindowKept DEF Lookup, TypeOK
    <3>4. req' \in [Requests -> Records]
      BY <2>1, <2>2 DEF Lookup, TypeOK, Records, Idle
    <3>5. TypeOK'
      BY <2>1, <2>2, <3>2, <3>3, <3>4 DEF Lookup, TypeOK, CacheOK
    <3>6. \A p \in Requests : RequestOK(req[p])'
      BY <2>1, <2>2, SMTT(30) DEF Lookup, TypeOK, RequestOK, Idle, Records
    <3> QED BY <3>1, <3>2, <3>5, <3>6
  <2>3. ASSUME NEW r \in Requests, NEW c \in Codes, Refuse(r, c)
        PROVE  /\ TypeOK' /\ DequeOK' /\ WindowKept' /\ CacheOK(cache)'
               /\ \A p \in Requests : RequestOK(req[p])'
    <3>1. /\ InWindow \in Seq(0..MaxNow) /\ Len(InWindow) \in Nat
          /\ Len(InWindow) <= Len(lookups)
          /\ \A i \in 1..(Len(log) - Len(InWindow)) : log[i] <= now - Window
          /\ \A i \in DOMAIN InWindow : InWindow[i] = log[Len(log) - Len(InWindow) + i]
      BY <2>1, InWindowKept
    <3>2. DequeOK'
      BY <2>1, <2>3, <3>1 DEF Refuse, DequeOK, Lost, TypeOK
    <3>3. WindowKept'
      BY <2>1, <2>3 DEF Refuse, WindowKept, Seen
    <3>4. CacheOK(cache)'
      BY <2>1, <2>3, OthersOK DEF Refuse, CacheOK, EntryOK
    <3>5. TypeOK'
      BY <2>1, <2>3, <3>1, <3>4 DEF Refuse, TypeOK, CacheOK
    <3> QED BY <2>1, <2>3, <3>2, <3>3, <3>4, <3>5 DEF Refuse, RequestOK
  <2>4. ASSUME UNCHANGED <<now, lookups, log>> PROVE DequeOK' /\ WindowKept'
    BY <2>1, <2>4 DEF DequeOK, Lost, WindowKept, Seen
  <2>5. ASSUME NEW r \in Requests, AskPanel(r) \/ AskBot(r)
        PROVE  /\ TypeOK' /\ DequeOK' /\ WindowKept' /\ CacheOK(cache)'
               /\ \A p \in Requests : RequestOK(req[p])'
    <3>1. DequeOK' /\ WindowKept'
      BY <2>4, <2>5 DEF AskPanel, AskBot
    <3>2. CacheOK(cache)'
      BY <2>1, <2>5 DEF AskPanel, AskBot, CacheOK, EntryOK
    <3>3. req \in [Requests -> Records] /\ req[r] \in Records /\ req[r].at # "idle"
      BY <2>1, <2>5 DEF AskPanel, AskBot, TypeOK
    <3>4. PICK q \in Records :
            /\ req' = [req EXCEPT ![r] = q] /\ q.code = req[r].code /\ q.began = req[r].began
            /\ q.at = "store" /\ ~q.url => q.code \notin known
      <4>1. CASE AskPanel(r)
        <5>1. [req[r] EXCEPT !.at = "bot"] \in Records /\ [req[r] EXCEPT !.at = "store"] \in Records
          BY <3>3 DEF Records
        <5> QED BY <3>3, <4>1, <5>1 DEF AskPanel, Records
      <4>2. CASE AskBot(r)
        <5> DEFINE a == [req[r] EXCEPT !.at = "store", !.url = req[r].code \in known]
        <5>0. ASSUME NEW b \in BOOLEAN, NEW q \in Records
              PROVE  LET n == [q EXCEPT !.at = "store", !.url = b]
                     IN  n \in Records /\ n.code = q.code /\ n.began = q.began /\ n.url = b
          BY DEF Records
        <5>1. /\ a \in Records /\ a.code = req[r].code /\ a.began = req[r].began
              /\ a.url = (req[r].code \in known)
          <6>1. (req[r].code \in known) \in BOOLEAN
            OBVIOUS
          <6> QED BY <3>3, <5>0, <6>1, Zenon
        <5>2. req' = [req EXCEPT ![r] = a]
          BY <4>2 DEF AskBot
        <5> HIDE DEF a
        <5>3. ~a.url => a.code \notin known
          BY <5>1, Zenon
        <5> QED BY <5>1, <5>2, <5>3, Zenon
      <4> QED BY <2>5, <4>1, <4>2
    <3>5. TypeOK'
      <4>1. req' \in [Requests -> Records]
        BY <3>3, <3>4
      <4> QED BY <2>1, <2>5, <4>1 DEF AskPanel, AskBot, TypeOK
    <3>6. RequestOK(req'[r]) /\ UNCHANGED <<now, since, known>>
      BY <2>1, <2>5, <3>3, <3>4 DEF AskPanel, AskBot, RequestOK
    <3>7. \A p \in Requests : RequestOK(req[p])'
      BY <2>1, <3>3, <3>4, <3>6 DEF RequestOK
    <3> QED BY <3>1, <3>2, <3>5, <3>7
  <2>6. ASSUME NEW r \in Requests, Store(r)
        PROVE  /\ TypeOK' /\ DequeOK' /\ WindowKept' /\ CacheOK(cache)'
               /\ \A p \in Requests : RequestOK(req[p])'
    <3> DEFINE q == req[r]
               e == Stored(q)
    <3>1. /\ q \in Records /\ q.at = "store" /\ q.code \in Codes /\ e \in Entries
          /\ e.code = q.code /\ e.url = q.url /\ e.until = now + TTL
      BY <2>1, <2>6 DEF Store, Stored, TypeOK, Records, Entries, RequestOK
    <3>2. EntryOK(e)
      <4>1. e.until <= now + TTL
        BY <2>1, <3>1 DEF Entries
      <4>2. ASSUME ~e.url, e.code \in known
            PROVE  e.until <= since[e.code] + TTL + Timeout
        <5>1. RequestOK(q) /\ ~q.url /\ q.code \in known
          BY <2>1, <3>1, <4>2
        <5>2. q.began <= since[q.code] /\ now <= q.began + Timeout
          BY <3>1, <5>1 DEF RequestOK
        <5>3. since[q.code] \in Nat /\ q.began \in Nat
          BY <2>1, <3>1 DEF TypeOK, Records
        <5> HIDE DEF q, e
        <5> QED BY <2>1, <3>1, <5>2, <5>3
      <4> QED BY <4>1, <4>2 DEF EntryOK
    <3> HIDE DEF e, q
    <3>3. CacheOK(Evicted(Append(Others(q.code), e)))
      BY <2>1, <3>1, <3>2, OthersOK, EvictedOK
    <3>4. CacheOK(cache)'
      BY <2>6, <3>3 DEF Store, CacheOK, EntryOK, e, q
    <3>5. TypeOK'
      BY <2>1, <2>6, <3>4 DEF Store, TypeOK, CacheOK, Idle, Records
    <3>6. \A p \in Requests : RequestOK(req[p])'
      BY <2>1, <2>6 DEF Store, TypeOK, RequestOK, Idle
    <3> QED BY <2>4, <2>6, <3>4, <3>5, <3>6 DEF Store
  <2>7. ASSUME NEW r \in Requests, Fail(r)
        PROVE  /\ TypeOK' /\ DequeOK' /\ WindowKept' /\ CacheOK(cache)'
               /\ \A p \in Requests : RequestOK(req[p])'
    <3>1. CacheOK(cache)'
      BY <2>1, <2>7 DEF Fail, CacheOK, EntryOK
    <3>2. TypeOK'
      BY <2>1, <2>7 DEF Fail, TypeOK, Idle, Records
    <3>3. \A p \in Requests : RequestOK(req[p])'
      BY <2>1, <2>7 DEF Fail, TypeOK, RequestOK, Idle
    <3> QED BY <2>4, <2>7, <3>1, <3>2, <3>3 DEF Fail
  <2>8. ASSUME NEW c \in Codes, Change(c)
        PROVE  /\ TypeOK' /\ DequeOK' /\ WindowKept' /\ CacheOK(cache)'
               /\ \A p \in Requests : RequestOK(req[p])'
    <3>1. TypeOK'
      <4>1. /\ known \in SUBSET Codes /\ since \in [Codes -> 0..MaxNow]
            /\ now \in 0..MaxNow /\ 0 \in 0..MaxNow
        BY <2>1 DEF TypeOK
      <4>2. known' \in SUBSET Codes
        BY <2>8, <4>1 DEF Change
      <4>3. since' \in [Codes -> 0..MaxNow]
        <5> DEFINE T == 0..MaxNow
        <5>1. since \in [Codes -> T] /\ now \in T /\ 0 \in T
          BY <4>1
        <5>2. since' = [since EXCEPT ![c] = 0] \/ since' = [since EXCEPT ![c] = now]
          BY <2>8 DEF Change
        <5> HIDE DEF T
        <5>3. since' \in [Codes -> T]
          BY <5>1, <5>2
        <5> QED BY <5>3 DEF T
      <4> QED BY <2>1, <2>8, <4>2, <4>3 DEF Change, TypeOK
    <3>2. ASSUME NEW e \in Entries, EntryOK(e) PROVE EntryOK(e)'
      BY <2>1, <2>8, <3>2 DEF Change, TypeOK, EntryOK, Entries
    <3>3. CacheOK(cache)'
      BY <2>1, <2>8, <3>2 DEF Change, CacheOK
    <3>4. \A p \in Requests : RequestOK(req[p])'
      BY <2>1, <2>8 DEF Change, TypeOK, RequestOK, Records
    <3> QED BY <2>4, <2>8, <3>1, <3>3, <3>4 DEF Change
  <2>9. CASE Tick
    <3>1. TypeOK'
      BY <2>1, <2>9 DEF Tick, TypeOK
    <3>2. DequeOK'
      <4>1. \A i \in DOMAIN log : log[i] \in Nat
        BY <2>1 DEF TypeOK
      <4>2. \A i \in 1..Lost : i \in DOMAIN log
        BY <2>1 DEF TypeOK, DequeOK, Lost
      <4>3. now' = now + 1 /\ UNCHANGED <<lookups, log>> /\ Lost' = Lost
        BY <2>9 DEF Tick, Lost
      <4> QED BY <2>1, <4>1, <4>2, <4>3 DEF DequeOK
    <3>3. ASSUME NEW t \in 0..now' PROVE Cardinality(Seen(t)') <= Lookups
      <4>1. Seen(t)' = Seen(t)
        BY <2>9 DEF Tick, Seen
      <4>2. CASE t \in 0..now
        BY <4>1, <4>2, <2>1 DEF WindowKept
      <4>3. CASE t = now + 1
        <5>1. Seen(t) = {}
          BY <2>1, <4>3 DEF Seen, DequeOK, TypeOK
        <5> QED BY <4>1, <5>1, FS_EmptySet
      <4> QED BY <2>1, <2>9, <4>2, <4>3 DEF Tick
    <3>4. CacheOK(cache)'
      <4>1. ASSUME NEW e \in Entries, EntryOK(e) PROVE EntryOK(e)'
        BY <2>1, <2>9, <4>1 DEF Tick, EntryOK, Entries
      <4> QED BY <2>1, <2>9, <4>1 DEF Tick, CacheOK
    <3>5. \A p \in Requests : RequestOK(req[p])'
      BY <2>1, <2>9 DEF Tick, TypeOK, RequestOK, Records
    <3> QED BY <3>1, <3>2, <3>3, <3>4, <3>5 DEF WindowKept
  <2>10. CASE UNCHANGED vars
    BY <2>1, <2>4, <2>10 DEF vars, TypeOK, CacheOK, EntryOK, RequestOK
  <2> QED BY <2>2, <2>3, <2>5, <2>6, <2>7, <2>8, <2>9, <2>10 DEF Next
<1> QED BY <1>1, <1>2, PTL DEF Spec

THEOREM WindowIsKept == Spec => []WindowKept
<1>1. InviteInv => WindowKept
  BY DEF InviteInv
<1> QED BY <1>1, InviteInvariant, PTL

THEOREM CacheIsInOrder == Spec => []CacheInOrder
<1>1. InviteInv => CacheInOrder
  BY DEF InviteInv
<1> QED BY <1>1, InviteInvariant, PTL

THEOREM NoneIsNotStale == Spec => []NoStaleNone
<1>1. InviteInv => NoStaleNone
  <2> SUFFICES ASSUME InviteInv, NEW c \in Codes, NEW e \in Fresh(c), ~e.url, c \in known
               PROVE  now <= since[c] + TTL + Timeout
    BY DEF NoStaleNone
  <2>1. PICK i \in DOMAIN cache : cache[i] = e /\ e.code = c /\ now < e.until
    BY DEF Fresh, Entry, Places
  <2>2. /\ e \in Entries /\ EntryOK(e) /\ now \in Nat /\ since[c] \in Nat
    BY <2>1 DEF InviteInv, TypeOK
  <2> QED BY <2>1, <2>2 DEF EntryOK, Entries
<1> QED BY <1>1, InviteInvariant, PTL
=============================================================================
