------------------------------- MODULE Invites -------------------------------
(***************************************************************************)
(* The resolver of invitation codes (referral_invite.py): a public route   *)
(* turns a friend's code into a link of the sales bot, over a cache in     *)
(* memory and a limit on the lookups of the whole process.  The requests   *)
(* share both and give way to each other while they wait for the panel and *)
(* for the bot.                                                            *)
(*                                                                         *)
(* The clock counts ticks.  A link is TRUE, no link is FALSE.              *)
(***************************************************************************)
EXTENDS Integers, FiniteSets, SequencesExt

CONSTANTS
  Codes,
  Requests,
  TTL,          \* _CACHE_TTL_SECONDS
  MaxEntries,   \* _CACHE_MAX_ENTRIES
  Lookups,      \* _LOOKUPS_PER_WINDOW
  Window,       \* _LOOKUP_WINDOW_SECONDS
  Timeout,      \* the longest a lookup waits for the panel and the bot
  MaxNow,       \* bound of the time modelled
  NoCode

ASSUME LimitsAssumption == /\ {TTL, MaxEntries, Lookups, Window} \subseteq Nat \ {0}
                           /\ {Timeout, MaxNow} \subseteq Nat /\ NoCode \notin Codes

VARIABLES
  now,
  cache,        \* the OrderedDict: its entries in their order
  lookups,      \* the deque of the moments of the last lookups
  log,          \* the moments of all of them (history)
  known,        \* codes whose owners the panel and the bot both know
  since,        \* when they came to know them (history)
  req           \* the requests in progress

vars == <<now, cache, lookups, log, known, since, req>>

(* at     the await a request stands at                                    *)
(* began  the moment of its lookup                                         *)
Idle == [at |-> "idle", code |-> NoCode, began |-> 0, url |-> FALSE]
-----------------------------------------------------------------------------
Init ==
  /\ now = 0
  /\ cache = <<>>
  /\ lookups = <<>>
  /\ log = <<>>
  /\ known \in SUBSET Codes
  /\ since = [c \in Codes |-> 0]
  /\ req = [r \in Requests |-> Idle]

(* Where a code is in the cache, and the cache without it.                 *)
Places(c) == {i \in DOMAIN cache : cache[i].code = c}
Others(c) == IF Places(c) = {} THEN cache ELSE RemoveAt(cache, CHOOSE i \in Places(c) : TRUE)
Entry(c) == {cache[i] : i \in Places(c)}

(* _from_cache: a fresh entry is the answer, and nothing changes.          *)
Fresh(c) == {e \in Entry(c) : now < e.until}

(* The deque loses from its front what has left the window.                *)
Outdated == {i \in DOMAIN lookups : \A j \in 1..i : lookups[j] <= now - Window}
InWindow == SubSeq(lookups, Cardinality(Outdated) + 1, Len(lookups))

(* Mutant: a window that is full takes one lookup more.                    *)
LookupLoose(r, c) ==
  /\ req[r] = Idle /\ Fresh(c) = {} /\ Len(InWindow) <= Lookups
  /\ cache' = Others(c)
  /\ lookups' = Append(InWindow, now)
  /\ log' = Append(log, now)
  /\ req' = [req EXCEPT ![r] = [Idle EXCEPT !.at = "panel", !.code = c, !.began = now]]
  /\ UNCHANGED <<now, known, since>>

(* A miss drops an entry that is over; _lookup_allowed lets it through.    *)
Lookup(r, c) ==
  /\ req[r] = Idle /\ Fresh(c) = {} /\ Len(InWindow) < Lookups
  /\ cache' = Others(c)
  /\ lookups' = Append(InWindow, now)
  /\ log' = Append(log, now)
  /\ req' = [req EXCEPT ![r] = [Idle EXCEPT !.at = "panel", !.code = c, !.began = now]]
  /\ UNCHANGED <<now, known, since>>

(* A miss over the limit is answered with nothing, and nothing is kept.    *)
Refuse(r, c) ==
  /\ req[r] = Idle /\ Fresh(c) = {} /\ Len(InWindow) >= Lookups
  /\ cache' = Others(c)
  /\ lookups' = InWindow
  /\ UNCHANGED <<now, log, known, since, req>>

(* The panel reads the account: there, alive and with a telegram, or not.  *)
AskPanel(r) ==
  /\ req[r].at = "panel"
  /\ \/ req' = [req EXCEPT ![r].at = "bot"]
     \/ req[r].code \notin known /\ req' = [req EXCEPT ![r].at = "store"]
  /\ UNCHANGED <<now, cache, lookups, log, known, since>>

(* The bot reads its user: with a code of the bot, or not.                 *)
AskBot(r) ==
  /\ req[r].at = "bot"
  /\ req' = [req EXCEPT ![r].at = "store", ![r].url = req[r].code \in known]
  /\ UNCHANGED <<now, cache, lookups, log, known, since>>

Evicted(c) == IF Len(c) > MaxEntries THEN Tail(c) ELSE c
Stored(q) == [code |-> q.code, until |-> now + TTL, url |-> q.url]

(* Mutant: an entry that is there is renewed in its place.                 *)
StoreInPlace(r) == LET q == req[r] IN
  /\ q.at = "store"
  /\ cache' = IF Entry(q.code) # {}
              THEN [i \in DOMAIN cache |-> IF cache[i].code = q.code THEN Stored(q) ELSE cache[i]]
              ELSE Evicted(Append(cache, Stored(q)))
  /\ req' = [req EXCEPT ![r] = Idle]
  /\ UNCHANGED <<now, lookups, log, known, since>>

(* _store                                                                  *)
Store(r) == LET q == req[r] IN
  /\ q.at = "store"
  /\ cache' = Evicted(Append(Others(q.code), Stored(q)))
  /\ req' = [req EXCEPT ![r] = Idle]
  /\ UNCHANGED <<now, lookups, log, known, since>>

(* Mutant: a failure is kept like an answer.                               *)
FailKept(r) == LET q == req[r] IN
  /\ q.at # "idle"
  /\ cache' = Evicted(Append(Others(q.code), [Stored(q) EXCEPT !.url = FALSE]))
  /\ req' = [req EXCEPT ![r] = Idle]
  /\ UNCHANGED <<now, lookups, log, known, since>>

(* The panel or the bot fails: resolve answers nothing and keeps nothing.  *)
Fail(r) ==
  /\ req[r].at # "idle"
  /\ req' = [req EXCEPT ![r] = Idle]
  /\ UNCHANGED <<now, cache, lookups, log, known, since>>

(* No request outlives its timeouts.                                       *)
Tick ==
  /\ now < MaxNow
  /\ \A r \in Requests : req[r].at # "idle" => now < req[r].began + Timeout
  /\ now' = now + 1
  /\ UNCHANGED <<cache, lookups, log, known, since, req>>

Change(c) ==
  /\ \/ c \in known /\ known' = known \ {c} /\ since' = [since EXCEPT ![c] = 0]
     \/ c \notin known /\ known' = known \cup {c} /\ since' = [since EXCEPT ![c] = now]
  /\ UNCHANGED <<now, cache, lookups, log, req>>

Next ==
  \/ \E r \in Requests :
       \/ AskPanel(r) \/ AskBot(r) \/ Store(r) \/ Fail(r)
       \/ \E c \in Codes : Lookup(r, c) \/ Refuse(r, c)
  \/ \E c \in Codes : Change(c)
  \/ Tick

Spec == Init /\ [][Next]_vars
-----------------------------------------------------------------------------
Entries == [code : Codes, until : 0..MaxNow + TTL, url : BOOLEAN]
Records == [at : {"idle", "panel", "bot", "store"}, code : Codes \cup {NoCode},
            began : 0..MaxNow, url : BOOLEAN]

TypeOK ==
  /\ now \in 0..MaxNow
  /\ cache \in Seq(Entries)
  /\ lookups \in Seq(0..MaxNow)
  /\ log \in Seq(0..MaxNow)
  /\ known \subseteq Codes
  /\ since \in [Codes -> 0..MaxNow]
  /\ req \in [Requests -> Records]

(* However the requests of all codes interleave, no span of Window ticks   *)
(* sees more than Lookups lookups, though the deque forgets the old ones   *)
(* (referral_invite.py:177).                                               *)
Seen(t) == {i \in DOMAIN log : t <= log[i] /\ log[i] < t + Window}
WindowKept == \A t \in 0..now : Cardinality(Seen(t)) <= Lookups

(* The entry that eviction takes is the one that would end first, and a    *)
(* code has one entry, though two requests may store it (line 232).        *)
Ordered(q) == \A i, j \in DOMAIN q : i < j => q[i].until <= q[j].until /\ q[i].code # q[j].code
CacheInOrder == Len(cache) <= MaxEntries /\ Ordered(cache)

(* An inviter who has been known to both for as long as an entry and a     *)
(* lookup last is not answered with "no link" out of the cache (line 48).  *)
NoStaleNone ==
  \A c \in Codes : \A e \in Fresh(c) :
    ~e.url /\ c \in known => now <= since[c] + TTL + Timeout
-----------------------------------------------------------------------------
(* The inductive invariant.  The deque is the end of the log, and what it  *)
(* has lost is out of every window to come.                                *)
Lost == Len(log) - Len(lookups)

DequeOK ==
  /\ Lost >= 0 /\ Len(lookups) <= Lookups
  /\ \A i \in DOMAIN log : log[i] <= now
  /\ \A i \in 1..Lost : log[i] <= now - Window
  /\ \A i \in DOMAIN lookups : lookups[i] = log[Lost + i]

(* An entry, and an answer that is about to be one, was found out while    *)
(* its lookup lasted: an owner who is known by now came later than it.     *)
EntryOK(e) ==
  /\ e.until <= now + TTL
  /\ ~e.url /\ e.code \in known => e.until <= since[e.code] + TTL + Timeout

RequestOK(q) == q.at # "idle" =>
  /\ q.code \in Codes
  /\ q.began <= now /\ now <= q.began + Timeout
  /\ q.at = "store" /\ ~q.url /\ q.code \in known => q.began <= since[q.code]

InviteInv ==
  /\ TypeOK /\ DequeOK /\ WindowKept /\ CacheInOrder
  /\ \A i \in DOMAIN cache : EntryOK(cache[i])
  /\ \A r \in Requests : RequestOK(req[r])
=============================================================================
