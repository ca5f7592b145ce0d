--------------------------- MODULE SessionsProofs ---------------------------
(***************************************************************************)
(* Theorems about Sessions, for any number of tokens, requests and         *)
(* providers, whatever fails and however the requests interleave.          *)
(***************************************************************************)
EXTENDS Sessions, TLAPS

USE TokensAssumption, ArgumentsAssumption, ServedAssumption, EpochAssumption

LEMMA RowType == TypeOK => Row \in [state : States, ids : SUBSET Providers, personal : BOOLEAN]
BY DEF TypeOK, Row, States

LEMMA BeginTypeOK ==
  ASSUME TypeOK, NEW r \in Requests, NEW k \in Served,
         NEW stage \in {"user", "email", "revoke", "commit", "refused"},
         NEW a \in Nat \cup Providers \cup {NoArg}, NEW e \in Nat,
         Begin(r, k, stage, a, e), k = "signin" => a \in Providers
  PROVE  TypeOK'
BY RowType, Zenon DEF TypeOK, Begin, row, ledger

LEMMA EndTypeOK ==
  ASSUME TypeOK, NEW r \in Requests, End(r)
  PROVE  /\ kind' \in [Requests -> Served \cup {"none"}]
         /\ at' \in [Requests -> {"idle", "user", "email", "revoke", "commit", "answer",
                                  "refused"}]
         /\ arg' \in [Requests -> Nat \cup Providers \cup {NoArg}]
         /\ \A q \in Requests : kind'[q] = "signin" => arg'[q] \in Providers
         /\ copy' \in [Requests -> [state : States, ids : SUBSET Providers,
                                    personal : BOOLEAN]]
         /\ hit' \in [Requests -> SUBSET Tokens]
         /\ asOf' \in [Requests -> Nat]
<1>1. Blank \in [state : States, ids : SUBSET Providers, personal : BOOLEAN]
  BY DEF Blank, States
<1> QED BY <1>1 DEF TypeOK, End

LEMMA IssueTypeOK ==
  ASSUME TypeOK, NEW r \in Requests, NEW t \in Tokens, NEW e \in Nat, Issue(r, t, e)
  PROVE  /\ kind' \in [Requests -> Served \cup {"none"}]
         /\ at' \in [Requests -> {"idle", "user", "email", "revoke", "commit", "answer",
                                  "refused"}]
         /\ arg' \in [Requests -> Nat \cup Providers \cup {NoArg}]
         /\ \A q \in Requests : kind'[q] = "signin" => arg'[q] \in Providers
         /\ copy' \in [Requests -> [state : States, ids : SUBSET Providers,
                                    personal : BOOLEAN]]
         /\ hit' \in [Requests -> SUBSET Tokens]
         /\ asOf' \in [Requests -> Nat]
         /\ root' \in [Tokens -> Nat]
<1>1. Blank \in [state : States, ids : SUBSET Providers, personal : BOOLEAN]
  BY DEF Blank, States
<1> QED BY <1>1 DEF TypeOK, Issue

LEMMA NextTypeOK == TypeOK /\ [Next]_vars => TypeOK'
<1> SUFFICES ASSUME TypeOK, [Next]_vars PROVE TypeOK'
  OBVIOUS
<1>1. ASSUME NEW r \in Requests, BeginAny(r) PROVE TypeOK'
  <2>1. epoch \in Nat /\ NoArg \in Nat \cup Providers \cup {NoArg}
    BY DEF TypeOK
  <2>2. ASSUME NEW d \in {letter}, ResetBegin(r, d) PROVE TypeOK'
    <3>1. d \in Nat \cup Providers \cup {NoArg} /\ "reset" \in Served
      BY <2>2 DEF ResetBegin, TypeOK, Begin
    <3> QED BY <2>1, <2>2, <3>1, BeginTypeOK DEF ResetBegin
  <2>3. ASSUME NEW p \in Providers, SignInBegin(r, p) \/ UnlinkBegin(r, p) PROVE TypeOK'
    BY <2>1, <2>3, BeginTypeOK DEF SignInBegin, UnlinkBegin, Begin
  <2>4. CASE RegisterBegin(r) \/ LoginBegin(r) \/ ChangeBegin(r) \/ DeleteBegin(r)
             \/ ProfileBegin(r)
    BY <2>1, <2>4, BeginTypeOK
    DEF RegisterBegin, LoginBegin, ChangeBegin, DeleteBegin, ProfileBegin, Begin
  <2> QED BY <1>1, <2>2, <2>3, <2>4 DEF BeginAny
<1>2. ASSUME NEW r \in Requests, Work(r) PROVE TypeOK'
  <2>1. CASE RefreshUser(r)
    BY <2>1, RowType DEF RefreshUser, Goto, TypeOK, row, ledger
  <2>2. CASE SignInEmail(r)
    <3>1. CASE End(r)
      BY <2>2, <3>1, EndTypeOK DEF SignInEmail, TypeOK, row, ledger
    <3>2. CASE copy' = [copy EXCEPT ![r] = Row] /\ Goto(r, "commit")
      BY <2>2, <3>2, RowType DEF SignInEmail, Goto, TypeOK, row, ledger
    <3> QED BY <2>2, <3>1, <3>2 DEF SignInEmail
  <2>3. CASE RevokeAll(r)
    BY <2>3 DEF RevokeAll, TypeOK, row, ledger
  <2>4. CASE ResetCommit(r)
    BY <2>4, EndTypeOK DEF ResetCommit, Closed, TypeOK
  <2>5. CASE DeleteCommit(r)
    <3>1. ids \ copy[r].ids \in SUBSET Providers /\ epoch + 1 \in Nat
      BY DEF TypeOK
    <3> QED BY <2>5, <3>1, EndTypeOK DEF DeleteCommit, Closed, TypeOK, States
  <2>6. CASE ProfileCommit(r) \/ UnlinkCommit(r) \/ Fail(r)
    BY <2>6, EndTypeOK DEF ProfileCommit, UnlinkCommit, Fail, TypeOK, row, ledger
  <2> QED BY <1>2, <2>1, <2>2, <2>3, <2>4, <2>5, <2>6 DEF Work
<1>3. ASSUME NEW r \in Requests, Answered(r) PROVE TypeOK'
  BY <1>3, EndTypeOK DEF Answered, TypeOK, row, ledger
<1>4. ASSUME NEW r \in Requests, NEW t \in Tokens, RefreshBegin(r, t) PROVE TypeOK'
  <2>1. /\ t \in Nat \cup Providers \cup {NoArg} /\ "refresh" \in Served
        /\ root[t] \in Nat
    BY <1>4 DEF RefreshBegin, TypeOK, Begin
  <2> QED BY <1>4, <2>1, BeginTypeOK DEF RefreshBegin
<1>5. ASSUME NEW r \in Requests, NEW t \in Tokens, CommitPair(r, t) PROVE TypeOK'
  <2>1. asOf[r] \in Nat /\ epoch \in Nat /\ epoch + 1 \in Nat
    BY DEF TypeOK
  <2>2. CASE RegisterCommit(r, t)
    BY <2>1, <2>2, IssueTypeOK DEF RegisterCommit, TypeOK, States
  <2>3. CASE LoginCommit(r, t)
    BY <2>1, <2>3, IssueTypeOK DEF LoginCommit, TypeOK, row
  <2>4. CASE RefreshCommit(r, t)
    BY <2>1, <2>4, IssueTypeOK DEF RefreshCommit, TypeOK, row
  <2>5. CASE ChangeCommit(r, t)
    BY <2>1, <2>5, IssueTypeOK DEF ChangeCommit, Closed, TypeOK
  <2>6. CASE SignInCommit(r, t)
    <3>1. arg[r] \in Providers
      BY <2>6 DEF SignInCommit, TypeOK
    <3>2. state' \in States /\ ids' \subseteq Providers /\ personal' \in BOOLEAN
      BY <2>6, <3>1 DEF SignInCommit, TypeOK, States
    <3> QED BY <2>1, <2>6, <3>2, IssueTypeOK DEF SignInCommit, TypeOK
  <2> QED BY <1>5, <2>2, <2>3, <2>4, <2>5, <2>6 DEF CommitPair
<1>6. ASSUME NEW t \in Tokens, Expire(t) PROVE TypeOK'
  BY <1>6 DEF Expire, TypeOK, row, request
<1>7. CASE MailLink
  BY <1>7 DEF MailLink, TypeOK, row, request, ledger
<1>8. CASE UNCHANGED vars
  BY <1>8 DEF TypeOK, vars
<1> QED BY <1>1, <1>2, <1>3, <1>4, <1>5, <1>6, <1>7, <1>8 DEF Next

-----------------------------------------------------------------------------
(* Changes of the password against sessions.                               *)
RaceOK == TypeOK /\ epoch > 0 /\ OldSessionsClosed /\ RequestsOK

(* A request that begins, goes on or ends, and touches no session.         *)
LEMMA BeginKeepsRace ==
  ASSUME RaceOK, TypeOK', NEW r \in Requests, NEW k \in Served,
         NEW stage \in {"user", "email", "revoke", "commit", "refused"}, NEW a,
         NEW e \in {0, epoch}, k \in Changers => stage = "revoke",
         Begin(r, k, stage, a, e)
  PROVE  RaceOK'
<1>1. UNCHANGED <<session, root, epoch, hit>>
  BY DEF Begin, ledger
<1>2. OldSessionsClosed' /\ epoch' > 0
  BY <1>1 DEF RaceOK, OldSessionsClosed
<1>3. ASSUME NEW q \in Requests, Undisturbed(q)'
      PROVE  asOf'[q] = epoch' /\ \A c \in Requests : Changing(c)' => c = q
  BY <1>1, <1>3 DEF RaceOK, RequestsOK, Undisturbed, Changing, Running, Begin, TypeOK
<1>4. ASSUME NEW c \in Requests, Changing(c)', at'[c] = "commit", NEW t \in Tokens,
             session'[t] = "live", root'[t] # 0
      PROVE  t \in hit'[c]
  BY <1>1, <1>4 DEF RaceOK, RequestsOK, Changing, Running, Begin, TypeOK, Changers
<1> QED BY <1>2, <1>3, <1>4 DEF RaceOK, RequestsOK

LEMMA EndKeepsRace ==
  ASSUME RaceOK, TypeOK', NEW r \in Requests, End(r), UNCHANGED <<root, epoch>>,
         UNCHANGED session
  PROVE  RaceOK'
<1>2. OldSessionsClosed' /\ epoch' > 0
  BY DEF RaceOK, OldSessionsClosed
<1>3. ASSUME NEW q \in Requests, Undisturbed(q)'
      PROVE  asOf'[q] = epoch' /\ \A c \in Requests : Changing(c)' => c = q
  BY <1>3 DEF RaceOK, RequestsOK, Undisturbed, Changing, Running, End, TypeOK
<1>4. ASSUME NEW c \in Requests, Changing(c)', at'[c] = "commit", NEW t \in Tokens,
             session'[t] = "live", root'[t] # 0
      PROVE  t \in hit'[c]
  BY <1>4 DEF RaceOK, RequestsOK, Changing, Running, End, TypeOK
<1> QED BY <1>2, <1>3, <1>4 DEF RaceOK, RequestsOK

(* A request that is not a change goes from one await to the next.         *)
LEMMA GotoKeepsRace ==
  ASSUME RaceOK, TypeOK', NEW r \in Requests, NEW stage \in {"commit", "refused"},
         Running(r), kind[r] \notin Changers, Goto(r, stage),
         UNCHANGED <<session, root, epoch>>
  PROVE  RaceOK'
<1>2. OldSessionsClosed' /\ epoch' > 0
  BY DEF RaceOK, OldSessionsClosed
<1>3. ASSUME NEW q \in Requests, Undisturbed(q)'
      PROVE  asOf'[q] = epoch' /\ \A c \in Requests : Changing(c)' => c = q
  BY <1>3 DEF RaceOK, RequestsOK, Undisturbed, Changing, Running, Goto, TypeOK
<1>4. ASSUME NEW c \in Requests, Changing(c)', at'[c] = "commit", NEW t \in Tokens,
             session'[t] = "live", root'[t] # 0
      PROVE  t \in hit'[c]
  BY <1>4 DEF RaceOK, RequestsOK, Changing, Running, Goto, TypeOK
<1> QED BY <1>2, <1>3, <1>4 DEF RaceOK, RequestsOK

LEMMA RevokeKeepsRace ==
  ASSUME RaceOK, TypeOK', NEW r \in Requests, RevokeAll(r)
  PROVE  RaceOK'
<1>1. UNCHANGED <<session, root, epoch, asOf, kind>>
  BY DEF RevokeAll, ledger
<1>2. OldSessionsClosed' /\ epoch' > 0
  BY <1>1 DEF RaceOK, OldSessionsClosed
<1>3. ASSUME NEW q \in Requests, Undisturbed(q)'
      PROVE  asOf'[q] = epoch' /\ \A c \in Requests : Changing(c)' => c = q
  BY <1>1, <1>3 DEF RaceOK, RequestsOK, Undisturbed, Changing, Running, RevokeAll, TypeOK
<1>4. ASSUME NEW c \in Requests, Changing(c)', at'[c] = "commit", NEW t \in Tokens,
             session'[t] = "live", root'[t] # 0
      PROVE  t \in hit'[c]
  BY <1>1, <1>4 DEF RaceOK, RequestsOK, Changing, Running, RevokeAll, TypeOK
<1> QED BY <1>2, <1>3, <1>4 DEF RaceOK, RequestsOK

(* reset and delete: the sessions not hit have run beside the change.      *)
LEMMA CloseKeepsRace ==
  ASSUME RaceOK, TypeOK', NEW r \in Requests, Changing(r), at[r] = "commit", End(r),
         session' = Closed(r), epoch' = epoch + 1, UNCHANGED root
  PROVE  RaceOK'
<1>1. ASSUME NEW t \in Tokens, session'[t] = "live" PROVE root'[t] = 0
  BY <1>1 DEF RaceOK, RequestsOK, Closed, TypeOK
<1>2. \A q \in Requests : ~Undisturbed(q)'
  BY DEF RaceOK, RequestsOK, Undisturbed, Changing, Running, End, TypeOK
<1>3. epoch' > 0
  BY DEF RaceOK, TypeOK
<1> QED BY <1>1, <1>2, <1>3 DEF RaceOK, RequestsOK, OldSessionsClosed

(* A pair of tokens is issued to a request that changes no password.       *)
LEMMA IssueKeepsRace ==
  ASSUME RaceOK, TypeOK', NEW r \in Requests, NEW t \in Tokens,
         Running(r), kind[r] \notin Changers, NEW e \in {0, asOf[r]}, Issue(r, t, e),
         UNCHANGED epoch, session'[t] = "live",
         \A u \in Tokens : u # t /\ session'[u] = "live" => session[u] = "live"
  PROVE  RaceOK'
<1>1. asOf[r] # 0 => asOf[r] = epoch /\ \A c \in Requests : ~Changing(c)
  BY DEF RaceOK, RequestsOK, Undisturbed, Changing
<1>2. \A u \in Tokens : root'[u] = IF u = t THEN e ELSE root[u]
  BY DEF Issue, RaceOK, TypeOK
<1>3. OldSessionsClosed' /\ epoch' > 0
  BY <1>1, <1>2 DEF RaceOK, OldSessionsClosed
<1>4. ASSUME NEW q \in Requests, Undisturbed(q)'
      PROVE  asOf'[q] = epoch' /\ \A c \in Requests : Changing(c)' => c = q
  BY <1>4 DEF RaceOK, RequestsOK, Undisturbed, Changing, Running, Issue, TypeOK
<1>5. ASSUME NEW c \in Requests, Changing(c)', at'[c] = "commit", NEW u \in Tokens,
             session'[u] = "live", root'[u] # 0
      PROVE  u \in hit'[c]
  <2>1. c # r /\ Changing(c) /\ at[c] = "commit" /\ hit'[c] = hit[c]
    BY <1>5 DEF Issue, Changing, Running, RaceOK, TypeOK
  <2>2. u # t
    BY <1>1, <1>2, <1>5, <2>1
  <2> QED BY <1>2, <1>5, <2>1, <2>2 DEF RaceOK, RequestsOK
<1> QED BY <1>3, <1>4, <1>5 DEF RaceOK, RequestsOK

LEMMA ChangeKeepsRace ==
  ASSUME RaceOK, TypeOK', NEW r \in Requests, NEW t \in Tokens, ChangeCommit(r, t)
  PROVE  RaceOK'
<1>1. Changing(r) /\ at[r] = "commit" /\ epoch' = epoch + 1
  BY DEF ChangeCommit, Changing, Running, Changers
<1>2. \A u \in Tokens : root'[u] = IF u = t THEN IF asOf[r] = 0 THEN 0 ELSE epoch + 1
                                   ELSE root[u]
  BY DEF ChangeCommit, Issue, RaceOK, TypeOK
<1>3. ASSUME NEW u \in Tokens, u # t, session'[u] = "live" PROVE root'[u] = 0
  BY <1>1, <1>2, <1>3 DEF RaceOK, RequestsOK, ChangeCommit, Closed, TypeOK
<1>4. \A q \in Requests : ~Undisturbed(q)'
  BY <1>1 DEF RaceOK, RequestsOK, Undisturbed, Changing, Running, ChangeCommit, Issue, TypeOK
<1>5. epoch' > 0
  BY <1>1 DEF RaceOK, TypeOK
<1>6. OldSessionsClosed'
  BY <1>1, <1>2, <1>3 DEF OldSessionsClosed
<1>7. ASSUME NEW c \in Requests, Changing(c)', at'[c] = "commit", NEW u \in Tokens,
             session'[u] = "live", root'[u] # 0
      PROVE  u \in hit'[c]
  <2>1. u = t /\ asOf[r] # 0
    BY <1>2, <1>3, <1>7
  <2>2. c # r /\ Changing(c)
    BY <1>7 DEF ChangeCommit, Issue, Changing, Running, RaceOK, TypeOK
  <2> QED BY <1>1, <2>1, <2>2 DEF RaceOK, RequestsOK, Undisturbed, Changing
<1> QED BY <1>4, <1>5, <1>6, <1>7 DEF RaceOK, RequestsOK

LEMMA NextRaceOK == RaceOK /\ [Next]_vars => RaceOK'
<1> SUFFICES ASSUME RaceOK, [Next]_vars PROVE RaceOK'
  OBVIOUS
<1>0. TypeOK /\ TypeOK'
  BY NextTypeOK DEF RaceOK
<1>1. ASSUME NEW r \in Requests, BeginAny(r) PROVE RaceOK'
  <2>1. ASSUME NEW d \in {letter}, ResetBegin(r, d) PROVE RaceOK'
    <3>1. "reset" \in Served
      BY <2>1 DEF ResetBegin, Begin
    <3> QED BY <1>0, <2>1, <3>1, BeginKeepsRace DEF ResetBegin
  <2>2. ASSUME NEW p \in Providers, SignInBegin(r, p) \/ UnlinkBegin(r, p) PROVE RaceOK'
    <3>1. CASE SignInBegin(r, p)
      <4>1. "signin" \in Served
        BY <3>1 DEF SignInBegin, Begin
      <4> QED BY <1>0, <3>1, <4>1, BeginKeepsRace DEF SignInBegin, Changers
    <3>2. CASE UnlinkBegin(r, p)
      <4>1. "unlink" \in Served
        BY <3>2 DEF UnlinkBegin, Begin
      <4> QED BY <1>0, <3>2, <4>1, BeginKeepsRace DEF UnlinkBegin, Changers
    <3> QED BY <2>2, <3>1, <3>2
  <2>3. CASE RegisterBegin(r)
    <3>1. "register" \in Served
      BY <2>3 DEF RegisterBegin, Begin
    <3> QED BY <1>0, <2>3, <3>1, BeginKeepsRace DEF RegisterBegin, Changers
  <2>4. CASE LoginBegin(r)
    <3>1. "login" \in Served
      BY <2>4 DEF LoginBegin, Begin
    <3> QED BY <1>0, <2>4, <3>1, BeginKeepsRace DEF LoginBegin, Changers
  <2>5. CASE ChangeBegin(r)
    <3>1. "change" \in Served
      BY <2>5 DEF ChangeBegin, Begin
    <3> QED BY <1>0, <2>5, <3>1, BeginKeepsRace DEF ChangeBegin
  <2>6. CASE DeleteBegin(r)
    <3>1. "delete" \in Served
      BY <2>6 DEF DeleteBegin, Begin
    <3> QED BY <1>0, <2>6, <3>1, BeginKeepsRace DEF DeleteBegin
  <2>7. CASE ProfileBegin(r)
    <3>1. "profile" \in Served
      BY <2>7 DEF ProfileBegin, Begin
    <3> QED BY <1>0, <2>7, <3>1, BeginKeepsRace DEF ProfileBegin, Changers
  <2> QED BY <1>1, <2>1, <2>2, <2>3, <2>4, <2>5, <2>6, <2>7 DEF BeginAny
<1>2. ASSUME NEW r \in Requests, Work(r) PROVE RaceOK'
  <2>1. CASE RefreshUser(r)
    BY <1>0, <2>1, GotoKeepsRace DEF RefreshUser, Running, Changers, ledger
  <2>2. CASE SignInEmail(r)
    BY <1>0, <2>2, GotoKeepsRace, EndKeepsRace DEF SignInEmail, Running, Changers, ledger
  <2>3. CASE RevokeAll(r)
    BY <1>0, <2>3, RevokeKeepsRace
  <2>4. CASE ResetCommit(r)
    BY <1>0, <2>4, CloseKeepsRace DEF ResetCommit, Changing, Running, Changers
  <2>5. CASE DeleteCommit(r)
    BY <1>0, <2>5, CloseKeepsRace DEF DeleteCommit, Changing, Running, Changers
  <2>6. CASE ProfileCommit(r) \/ UnlinkCommit(r) \/ Fail(r)
    BY <1>0, <2>6, EndKeepsRace DEF ProfileCommit, UnlinkCommit, Fail, ledger
  <2> QED BY <1>2, <2>1, <2>2, <2>3, <2>4, <2>5, <2>6 DEF Work
<1>3. ASSUME NEW r \in Requests, Answered(r) PROVE RaceOK'
  BY <1>0, <1>3, EndKeepsRace DEF Answered, ledger
<1>4. ASSUME NEW r \in Requests, NEW t \in Tokens, RefreshBegin(r, t) PROVE RaceOK'
  <2>1. CASE session[t] = "live"
    <3>1. root[t] \in {0, epoch} /\ "refresh" \in Served
      BY <1>4, <2>1 DEF RefreshBegin, Begin, RaceOK, OldSessionsClosed
    <3> QED BY <1>0, <1>4, <2>1, <3>1, BeginKeepsRace DEF RefreshBegin, Changers
  <2>2. CASE session[t] # "live"
    <3>1. Begin(r, "refresh", "refused", t, root[t])
      BY <1>4, <2>2 DEF RefreshBegin
    <3>2. ~Running(r)'
      BY <1>0, <3>1 DEF Begin, Running, TypeOK
    <3>3. ASSUME NEW q \in Requests, q # r
          PROVE  /\ Running(q)' = Running(q) /\ Changing(q)' = Changing(q)
                 /\ at'[q] = at[q] /\ asOf'[q] = asOf[q]
      BY <1>0, <3>1, <3>3 DEF Begin, Running, Changing, Changers, TypeOK
    <3>4. UNCHANGED <<session, root, epoch, hit>>
      BY <3>1 DEF Begin, ledger
    <3> QED BY <1>0, <3>2, <3>3, <3>4
        DEF RaceOK, OldSessionsClosed, RequestsOK, Undisturbed, Changing
  <2> QED BY <2>1, <2>2
<1>5. ASSUME NEW r \in Requests, NEW t \in Tokens, CommitPair(r, t) PROVE RaceOK'
  <2>1. CASE RegisterCommit(r, t)
    <3>1. Running(r) /\ kind[r] \notin Changers
      BY <2>1 DEF RegisterCommit, Running, Changers
    <3> QED BY <1>0, <2>1, <3>1, IssueKeepsRace DEF RegisterCommit, TypeOK
  <2>2. CASE LoginCommit(r, t)
    BY <1>0, <2>2, IssueKeepsRace DEF LoginCommit, Running, Changers, TypeOK
  <2>3. CASE RefreshCommit(r, t)
    <3>1. Running(r) /\ kind[r] \notin Changers /\ Issue(r, t, asOf[r]) /\ UNCHANGED epoch
      BY <2>3 DEF RefreshCommit, Running, Changers
    <3>2. /\ session'[t] = "live"
          /\ \A u \in Tokens : u # t /\ session'[u] = "live" => session[u] = "live"
      BY <1>0, <2>3 DEF RefreshCommit, TypeOK
    <3> QED BY <1>0, <3>1, <3>2, IssueKeepsRace
  <2>4. CASE ChangeCommit(r, t)
    BY <1>0, <2>4, ChangeKeepsRace
  <2>5. CASE SignInCommit(r, t)
    <3>1. Running(r) /\ kind[r] \notin Changers /\ Issue(r, t, asOf[r]) /\ UNCHANGED epoch
      BY <2>5 DEF SignInCommit, Running, Changers
    <3>2. /\ session'[t] = "live"
          /\ \A u \in Tokens : u # t /\ session'[u] = "live" => session[u] = "live"
      BY <1>0, <2>5 DEF SignInCommit, TypeOK
    <3> QED BY <1>0, <3>1, <3>2, IssueKeepsRace
  <2> QED BY <1>5, <2>1, <2>2, <2>3, <2>4, <2>5 DEF CommitPair
<1>6. ASSUME NEW t \in Tokens, Expire(t) PROVE RaceOK'
  BY <1>0, <1>6
  DEF Expire, RaceOK, OldSessionsClosed, RequestsOK, Undisturbed, Changing, Running, request, TypeOK
<1>7. CASE MailLink \/ UNCHANGED vars
  BY <1>0, <1>7
  DEF MailLink, RaceOK, OldSessionsClosed, RequestsOK, Undisturbed, Changing, Running, request,
      ledger, vars
<1> QED BY <1>1, <1>2, <1>3, <1>4, <1>5, <1>6, <1>7 DEF Next

-----------------------------------------------------------------------------
(* Links and copies.                                                       *)
LEMMA BeginKeepsLetter ==
  ASSUME TypeOK, LetterOK, NEW r \in Requests, NEW k, NEW stage, NEW a, NEW e,
         Begin(r, k, stage, a, e)
  PROVE  LetterOK'
BY DEF Begin, LetterOK, row

LEMMA NextLetterOK == TypeOK /\ LetterOK /\ [Next]_vars => LetterOK'
<1> SUFFICES ASSUME TypeOK, LetterOK, [Next]_vars PROVE LetterOK'
  OBVIOUS
<1> USE DEF LetterOK, row
<1>1. ASSUME NEW r \in Requests, BeginAny(r) PROVE LetterOK'
  BY <1>1, BeginKeepsLetter
  DEF BeginAny, RegisterBegin, LoginBegin, ChangeBegin, DeleteBegin, ProfileBegin, ResetBegin,
      SignInBegin, UnlinkBegin
<1>2. ASSUME NEW r \in Requests, Work(r) PROVE LetterOK'
  <2>1. CASE RefreshUser(r) \/ SignInEmail(r) \/ RevokeAll(r) \/ Fail(r)
    BY <2>1 DEF RefreshUser, SignInEmail, RevokeAll, Fail
  <2>2. CASE ResetCommit(r)
    BY <2>2 DEF ResetCommit, TypeOK
  <2>3. CASE DeleteCommit(r)
    BY <2>3 DEF DeleteCommit, TypeOK
  <2>4. CASE ProfileCommit(r) \/ UnlinkCommit(r)
    BY <2>4 DEF ProfileCommit, UnlinkCommit
  <2> QED BY <1>2, <2>1, <2>2, <2>3, <2>4 DEF Work
<1>3. ASSUME NEW r \in Requests, Answered(r) PROVE LetterOK'
  BY <1>3 DEF Answered
<1>4. ASSUME NEW r \in Requests, NEW t \in Tokens, RefreshBegin(r, t) PROVE LetterOK'
  BY <1>4, BeginKeepsLetter DEF RefreshBegin
<1>5. ASSUME NEW r \in Requests, NEW t \in Tokens, CommitPair(r, t) PROVE LetterOK'
  <2>1. CASE RegisterCommit(r, t)
    BY <2>1 DEF RegisterCommit, TypeOK
  <2>2. CASE LoginCommit(r, t) \/ RefreshCommit(r, t)
    BY <2>2 DEF LoginCommit, RefreshCommit
  <2>3. CASE ChangeCommit(r, t)
    BY <2>3 DEF ChangeCommit, TypeOK
  <2>4. CASE SignInCommit(r, t)
    BY <2>4 DEF SignInCommit, TypeOK
  <2> QED BY <1>5, <2>1, <2>2, <2>3, <2>4 DEF CommitPair
<1>6. ASSUME NEW t \in Tokens, Expire(t) PROVE LetterOK'
  BY <1>6 DEF Expire
<1>7. CASE MailLink
  BY <1>7 DEF MailLink, TypeOK
<1>8. CASE UNCHANGED vars
  BY <1>8 DEF vars
<1> QED BY <1>1, <1>2, <1>3, <1>4, <1>5, <1>6, <1>7, <1>8 DEF Next

(* One conjunct of CopiesOK, for a request that goes on undisturbed.       *)
CopyOK(r) == at[r] = "commit" =>
  /\ kind[r] = "unlink" =>
       state # "absent" /\ (state = "active" => digest # 0 \/ copy[r].ids \ {arg[r]} # {})
  /\ kind[r] = "profile" => copy[r].state = "active"
  /\ kind[r] = "signin" => ~Gone(copy[r])

(* What the steps of one request leave of the others.                      *)
RowMoves ==
  /\ state = "absent" \/ state' # "absent"
  /\ state' = "active" => state = "absent" \/ (state = "active" /\ (digest # 0 => digest' # 0))

LEMMA OtherCopyOK ==
  ASSUME TypeOK, NEW r \in Requests, CopyOK(r), RowMoves,
         at'[r] = at[r], kind'[r] = kind[r], arg'[r] = arg[r], copy'[r] = copy[r]
  PROVE  CopyOK(r)'
BY DEF CopyOK, RowMoves, Gone

LEMMA NextCopiesOK == TypeOK /\ LetterOK /\ CopiesOK /\ [Next]_vars => CopiesOK'
<1> SUFFICES ASSUME TypeOK, LetterOK, CopiesOK, [Next]_vars, NEW q \in Requests
             PROVE  CopyOK(q)'
  BY DEF CopiesOK, CopyOK
<1>0. CopyOK(q)
  BY DEF CopiesOK, CopyOK
<1>1. ASSUME NEW r \in Requests, NEW k, NEW stage, NEW a, NEW e, Begin(r, k, stage, a, e),
             k = "unlink" => state # "absent" /\ (digest # 0 \/ ids \ {a} # {}),
             k = "profile" => state = "active",
             k = "signin" /\ stage = "commit" => a \in ids
      PROVE  CopyOK(q)'
  <2>1. RowMoves
    BY <1>1 DEF Begin, row, RowMoves, TypeOK, States
  <2>2. CASE q = r
    <3>1. /\ at'[q] = stage /\ kind'[q] = k /\ arg'[q] = a /\ copy'[q] = Row
          /\ UNCHANGED <<state, digest>>
      BY <1>1, <2>2 DEF Begin, TypeOK, row
    <3>2. /\ Row.state = state /\ Row.ids = ids
          /\ k = "signin" /\ stage = "commit" => ~Gone(Row)
      BY <1>1 DEF Row, Gone
    <3> QED BY <1>1, <3>1, <3>2, Zenon DEF CopyOK, Gone
  <2>3. CASE q # r
    BY <1>0, <1>1, <2>1, <2>3, OtherCopyOK DEF Begin, TypeOK
  <2> QED BY <2>2, <2>3
<1>2. ASSUME NEW r \in Requests, BeginAny(r) PROVE CopyOK(q)'
  <2>1. CASE RegisterBegin(r) \/ LoginBegin(r) \/ ChangeBegin(r) \/ DeleteBegin(r)
             \/ ProfileBegin(r)
    BY <1>1, <2>1 DEF RegisterBegin, LoginBegin, ChangeBegin, DeleteBegin, ProfileBegin
  <2>2. ASSUME NEW d \in {letter}, ResetBegin(r, d) PROVE CopyOK(q)'
    BY <1>1, <2>2 DEF ResetBegin
  <2>3. ASSUME NEW p \in Providers, SignInBegin(r, p) PROVE CopyOK(q)'
    BY <1>1, <2>3 DEF SignInBegin
  <2>4. ASSUME NEW p \in Providers, UnlinkBegin(r, p) PROVE CopyOK(q)'
    BY <1>1, <2>4 DEF UnlinkBegin
  <2> QED BY <1>2, <2>1, <2>2, <2>3, <2>4 DEF BeginAny
(* A request that ends, or has answered, is at no commit.                  *)
<1>3. ASSUME NEW r \in Requests, End(r), RowMoves PROVE CopyOK(q)'
  <2>1. CASE q = r
    BY <1>3, <2>1 DEF End, CopyOK, TypeOK
  <2>2. CASE q # r
    BY <1>0, <1>3, <2>2, OtherCopyOK DEF End, TypeOK
  <2> QED BY <2>1, <2>2
<1>4. ASSUME NEW r \in Requests, NEW t, NEW e, Issue(r, t, e), RowMoves PROVE CopyOK(q)'
  <2>1. CASE q = r
    BY <1>4, <2>1 DEF Issue, CopyOK, TypeOK
  <2>2. CASE q # r
    BY <1>0, <1>4, <2>2, OtherCopyOK DEF Issue, TypeOK
  <2> QED BY <2>1, <2>2
<1>5. ASSUME UNCHANGED <<state, digest>> PROVE RowMoves
  BY <1>5 DEF RowMoves, TypeOK, States
<1>6. ASSUME NEW r \in Requests, Work(r) PROVE CopyOK(q)'
  <2>1. CASE RefreshUser(r)
    <3>1. CASE q = r
      BY <2>1, <3>1 DEF RefreshUser, Goto, CopyOK
    <3>2. CASE q # r
      BY <1>0, <1>5, <2>1, <3>2, OtherCopyOK DEF RefreshUser, Goto, row, TypeOK
    <3> QED BY <3>1, <3>2
  <2>2. CASE SignInEmail(r)
    <3>1. CASE End(r)
      BY <1>3, <1>5, <2>2, <3>1 DEF SignInEmail, row
    <3>2. CASE ~(state = "deleted" /\ ~personal) /\ q = r
      <4>1. copy'[q] = Row /\ kind'[q] = "signin"
        BY <2>2, <3>2 DEF SignInEmail, Goto, TypeOK
      <4>2. ~Gone(Row)
        BY <3>2 DEF Gone, Row
      <4> QED BY <4>1, <4>2, Zenon DEF CopyOK, Gone
    <3>3. CASE ~(state = "deleted" /\ ~personal) /\ q # r
      BY <1>0, <1>5, <2>2, <3>3, OtherCopyOK DEF SignInEmail, Goto, row, TypeOK
    <3> QED BY <2>2, <3>1, <3>2, <3>3 DEF SignInEmail
  <2>3. CASE RevokeAll(r)
    <3>1. CASE q = r
      BY <2>3, <3>1 DEF RevokeAll, CopyOK, Changers
    <3>2. CASE q # r
      BY <1>0, <1>5, <2>3, <3>2, OtherCopyOK DEF RevokeAll, row, TypeOK
    <3> QED BY <3>1, <3>2
  <2>4. CASE ResetCommit(r)
    BY <1>3, <2>4 DEF ResetCommit, RowMoves, TypeOK, LetterOK, States
  <2>5. CASE DeleteCommit(r)
    BY <1>3, <2>5 DEF DeleteCommit, RowMoves
  <2>6. CASE ProfileCommit(r) \/ UnlinkCommit(r) \/ Fail(r)
    BY <1>3, <1>5, <2>6 DEF ProfileCommit, UnlinkCommit, Fail, row
  <2> QED BY <1>6, <2>1, <2>2, <2>3, <2>4, <2>5, <2>6 DEF Work
<1>7. ASSUME NEW r \in Requests, Answered(r) PROVE CopyOK(q)'
  BY <1>3, <1>5, <1>7 DEF Answered, row
<1>8. ASSUME NEW r \in Requests, NEW t \in Tokens, RefreshBegin(r, t) PROVE CopyOK(q)'
  BY <1>1, <1>8 DEF RefreshBegin
<1>9. ASSUME NEW r \in Requests, NEW t \in Tokens, CommitPair(r, t) PROVE CopyOK(q)'
  <2>1. CASE RegisterCommit(r, t)
    BY <1>4, <2>1 DEF RegisterCommit, RowMoves
  <2>2. CASE LoginCommit(r, t) \/ RefreshCommit(r, t)
    BY <1>4, <1>5, <2>2 DEF LoginCommit, RefreshCommit, row
  <2>3. CASE ChangeCommit(r, t)
    BY <1>4, <2>3 DEF ChangeCommit, RowMoves, TypeOK, LetterOK, States
  <2>4. CASE SignInCommit(r, t)
    BY <1>4, <2>4 DEF SignInCommit, RowMoves, TypeOK, States
  <2> QED BY <1>9, <2>1, <2>2, <2>3, <2>4 DEF CommitPair
<1>10. ASSUME NEW t \in Tokens, Expire(t) PROVE CopyOK(q)'
  BY <1>0, <1>5, <1>10, OtherCopyOK DEF Expire, row, request
<1>11. CASE MailLink \/ UNCHANGED vars
  BY <1>0, <1>5, <1>11, OtherCopyOK DEF MailLink, row, request, vars
<1> QED BY <1>2, <1>6, <1>7, <1>8, <1>9, <1>10, <1>11 DEF Next
-----------------------------------------------------------------------------
(* The inductive invariant of the ways into an account, for any number of  *)
(* requests, tokens and providers, whatever fails.                         *)
THEOREM SessionInvariant == Spec => []SessionInv
<1>1. Init => SessionInv
  <2> SUFFICES ASSUME Init PROVE SessionInv
    OBVIOUS
  <2>1. Blank \in [state : States, ids : SUBSET Providers, personal : BOOLEAN]
    BY DEF Blank, States
  <2>2. TypeOK
    BY <2>1 DEF Init, TypeOK, States
  <2> QED BY <2>2 DEF Init, SessionInv, OldSessionsClosed, RequestsOK, Undisturbed, Changing,
                      Running, LetterOK, CopiesOK
<1>2. SessionInv /\ [Next]_vars => SessionInv'
  BY NextTypeOK, NextRaceOK, NextLetterOK, NextCopiesOK DEF SessionInv, RaceOK
<1> QED BY <1>1, <1>2, PTL DEF Spec

(* No session survives a change of the password or a removal, unless the   *)
(* request it descends from ran beside one.                                *)
THEOREM OldSessionsAreClosed == Spec => []OldSessionsClosed
<1>1. SessionInv => OldSessionsClosed
  BY DEF SessionInv
<1> QED BY <1>1, SessionInvariant, PTL

(* The types of the state.                                                 *)
THEOREM SessionTypeOK == Spec => []TypeOK
<1>1. SessionInv => TypeOK
  BY DEF SessionInv
<1> QED BY <1>1, SessionInvariant, PTL

(* Only a request that begins takes up its kind.                           *)
LEMMA KindsOnlyEnd ==
  ASSUME TypeOK, NEW r \in Requests, NEW q \in Requests,
         End(r) \/ (\E t, e : Issue(r, t, e)) \/ kind' = kind
  PROVE  kind'[q] \in {kind[q], "none"}
BY DEF End, Issue, TypeOK

(* A reset link works once, whatever requests run beside the first.        *)
THEOREM LinkIsOneTime == Spec => LinkWorksOnce
<1>1. SessionInv /\ [Next]_vars =>
        [\A r \in Requests : kind[r] = "none" /\ kind'[r] = "reset" => ~spent]_vars
  <2> SUFFICES ASSUME SessionInv, Next, NEW q \in Requests,
                      kind[q] = "none", kind'[q] = "reset", spent
               PROVE  FALSE
    BY DEF vars
  <2>0. TypeOK /\ LetterOK
    BY DEF SessionInv
  <2>1. ASSUME NEW r \in Requests, BeginAny(r) PROVE FALSE
    <3>1. ASSUME NEW k, k # "reset", NEW stage, NEW a, NEW e, Begin(r, k, stage, a, e)
          PROVE  FALSE
      BY <2>0, <3>1 DEF Begin, TypeOK
    <3>2. ASSUME NEW d \in {letter}, ResetBegin(r, d) PROVE FALSE
      BY <2>0, <3>2 DEF ResetBegin, LetterOK
    <3> QED BY <2>1, <3>1, <3>2 DEF BeginAny, RegisterBegin, LoginBegin, ChangeBegin,
              DeleteBegin, ProfileBegin, SignInBegin, UnlinkBegin
  <2>2. ASSUME NEW r \in Requests, Work(r) \/ Answered(r) PROVE FALSE
    BY <2>0, <2>2, KindsOnlyEnd DEF Work, Answered, RefreshUser, SignInEmail, RevokeAll,
       ResetCommit, DeleteCommit, ProfileCommit, UnlinkCommit, Fail, Goto
  <2>3. ASSUME NEW r \in Requests, NEW t \in Tokens, CommitPair(r, t) PROVE FALSE
    BY <2>0, <2>3, KindsOnlyEnd DEF CommitPair, RegisterCommit, LoginCommit, RefreshCommit,
       ChangeCommit, SignInCommit
  <2>4. ASSUME NEW r \in Requests, NEW t \in Tokens, RefreshBegin(r, t) PROVE FALSE
    BY <2>0, <2>4 DEF RefreshBegin, Begin, TypeOK
  <2>5. ASSUME NEW t \in Tokens, Expire(t) \/ MailLink PROVE FALSE
    BY <2>5 DEF Expire, MailLink, request
  <2>6. CASE MailLink
    BY <2>6 DEF MailLink, request
  <2> QED BY <2>1, <2>2, <2>3, <2>4, <2>5, <2>6 DEF Next
<1> QED BY <1>1, SessionInvariant, PTL DEF Spec, LinkWorksOnce

(* The steps that may write the row of users, one by one.                  *)
LEMMA NextRow ==
  ASSUME Next, ~UNCHANGED row
  PROVE  \E r \in Requests :
           \/ ResetCommit(r) \/ DeleteCommit(r) \/ ProfileCommit(r) \/ UnlinkCommit(r)
           \/ \E t \in Tokens :
                RegisterCommit(r, t) \/ ChangeCommit(r, t) \/ SignInCommit(r, t)
<1>1. ASSUME NEW r \in Requests, BeginAny(r) PROVE FALSE
  BY <1>1 DEF BeginAny, RegisterBegin, LoginBegin, ChangeBegin, DeleteBegin,
     ProfileBegin, ResetBegin, SignInBegin, UnlinkBegin, Begin
<1>2. ASSUME NEW r \in Requests, NEW t \in Tokens,
             RefreshBegin(r, t) \/ LoginCommit(r, t) \/ RefreshCommit(r, t)
      PROVE  FALSE
  BY <1>2 DEF RefreshBegin, Begin, LoginCommit, RefreshCommit
<1>3. ASSUME NEW r \in Requests,
             RefreshUser(r) \/ SignInEmail(r) \/ RevokeAll(r) \/ Fail(r) \/ Answered(r)
      PROVE  FALSE
  BY <1>3 DEF RefreshUser, SignInEmail, RevokeAll, Fail, Answered
<1>4. ASSUME NEW t \in Tokens, Expire(t) PROVE FALSE
  BY <1>4 DEF Expire
<1>5. CASE MailLink
  BY <1>5 DEF MailLink
<1> QED BY <1>1, <1>2, <1>3, <1>4, <1>5 DEF Next, Work, CommitPair

(* The last way in goes only with an unlink that has not seen another.     *)
THEOREM WayInIsKept == Spec => LastWayKept
<1>1. SessionInv /\ [Next]_vars =>
        [WayIn /\ ~WayIn' => \E r \in Requests :
           kind[r] = "unlink" /\ kind'[r] = "none" /\ copy[r].ids # ids]_vars
  <2> SUFFICES ASSUME SessionInv, Next, WayIn, ~WayIn'
               PROVE  \E r \in Requests :
                        kind[r] = "unlink" /\ kind'[r] = "none" /\ copy[r].ids # ids
    OBVIOUS
  <2>0. TypeOK /\ LetterOK /\ CopiesOK /\ epoch > 0
    BY DEF SessionInv
  <2>1. ~UNCHANGED row
    BY DEF WayIn, row
  <2>2. ASSUME NEW r \in Requests, NEW t \in Tokens,
               RegisterCommit(r, t) \/ ChangeCommit(r, t) \/ SignInCommit(r, t)
        PROVE  FALSE
    <3>1. CASE RegisterCommit(r, t) \/ ChangeCommit(r, t)
      BY <2>0, <3>1 DEF RegisterCommit, ChangeCommit, WayIn, TypeOK
    <3>2. CASE SignInCommit(r, t)
      <4>1. digest' = digest /\ (ids' # {} \/ UNCHANGED <<state, ids>>)
        BY <3>2 DEF SignInCommit
      <4> QED BY <4>1 DEF WayIn
    <3> QED BY <2>2, <3>1, <3>2
  <2>3. ASSUME NEW r \in Requests, ResetCommit(r) \/ DeleteCommit(r) \/ ProfileCommit(r)
        PROVE  FALSE
    BY <2>0, <2>3 DEF ResetCommit, DeleteCommit, ProfileCommit, WayIn, TypeOK
  <2>4. ASSUME NEW r \in Requests, UnlinkCommit(r), copy[r].ids = ids PROVE FALSE
    BY <2>0, <2>4 DEF UnlinkCommit, CopiesOK, WayIn
  <2>5. ASSUME NEW r \in Requests, UnlinkCommit(r)
        PROVE  kind[r] = "unlink" /\ kind'[r] = "none"
    BY <2>0, <2>5 DEF UnlinkCommit, End, TypeOK
  <2> QED BY <2>1, <2>2, <2>3, <2>4, <2>5, NextRow
<1> QED BY <1>1, SessionInvariant, PTL DEF Spec, LastWayKept

(* An account once anonymous is written again only by a request that had   *)
(* read it before.                                                         *)
THEOREM DeletedIsGone == Spec => DeletedStaysGone
<1>1. SessionInv /\ [Next]_vars =>
        [Gone(Row) /\ ~Gone(Row)' => \E r \in Requests :
           at[r] = "commit" /\ at'[r] # "commit" /\ ~Gone(copy[r])]_vars
  <2> SUFFICES ASSUME SessionInv, Next, Gone(Row), ~Gone(Row)'
               PROVE  \E r \in Requests :
                        at[r] = "commit" /\ at'[r] # "commit" /\ ~Gone(copy[r])
    OBVIOUS
  <2>0. TypeOK /\ CopiesOK
    BY DEF SessionInv
  <2>1. /\ state = "deleted" /\ ~personal /\ ids = {}
        /\ ~(state' = "deleted" /\ ~personal' /\ ids' = {})
    BY DEF Gone, Row
  <2>2. ~UNCHANGED row
    BY <2>1 DEF row
  <2>3. ASSUME NEW r \in Requests, NEW t \in Tokens, RegisterCommit(r, t) \/ ChangeCommit(r, t)
        PROVE  FALSE
    BY <2>1, <2>3 DEF RegisterCommit, ChangeCommit
  <2>4. ASSUME NEW r \in Requests, ResetCommit(r) \/ DeleteCommit(r) \/ UnlinkCommit(r)
        PROVE  FALSE
    BY <2>1, <2>4 DEF ResetCommit, DeleteCommit, UnlinkCommit
  <2>5. ASSUME NEW r \in Requests, NEW t \in Tokens, SignInCommit(r, t)
        PROVE  at[r] = "commit" /\ at'[r] # "commit" /\ ~Gone(copy[r])
    BY <2>0, <2>5 DEF SignInCommit, Issue, CopiesOK, TypeOK
  <2>6. ASSUME NEW r \in Requests, ProfileCommit(r)
        PROVE  at[r] = "commit" /\ at'[r] # "commit" /\ ~Gone(copy[r])
    BY <2>0, <2>6 DEF ProfileCommit, End, CopiesOK, Gone, TypeOK
  <2> QED BY <2>2, <2>3, <2>4, <2>5, <2>6, NextRow
<1> QED BY <1>1, SessionInvariant, PTL DEF Spec, DeletedStaysGone
=============================================================================
