------------------------------ MODULE Sessions ------------------------------
(***************************************************************************)
(* The ways into one account: AuthService (services/auth.py), OAuthService *)
(* (services/oauth.py), their routes and get_current_user.  Requests run   *)
(* side by side, each with a database session of its own, and may be       *)
(* overtaken at every await.  PostgreSQL is at READ COMMITTED: a statement *)
(* sees what is committed when it runs, a changed row stays locked until   *)
(* the transaction ends, and the ORM writes what its request assigned      *)
(* whatever has become of the rest of the row.  A password is a version:   *)
(* digest is the epoch it was set in.                                      *)
(***************************************************************************)
EXTENDS Integers

CONSTANTS
  Tokens,       \* refresh tokens, numbered in the order they are issued
  Requests,     \* requests in progress at a time
  Providers,    \* VK, Yandex: each knows the person by the same e-mail
  Served,       \* the kinds of request that come
  MaxEpoch,     \* bound: no change of the password begins after so many
  NoArg

ASSUME TokensAssumption == Tokens \subseteq Nat
ASSUME ArgumentsAssumption == Providers \cap Nat = {} /\ NoArg \notin Nat \cup Providers
ASSUME ServedAssumption == Served \subseteq
         {"register", "login", "refresh", "signin", "unlink", "profile", "reset",
          "change", "delete"}
ASSUME EpochAssumption == MaxEpoch \in Nat

VARIABLES
  state,        \* the row of users: not there, is_active, or anonymized
  digest,       \* password_digest, 0 for none
  ids,          \* external_identities: the providers linked
  personal,     \* the row bears the person's name and e-mail
  session,      \* refresh_sessions by token: live, or revoked or expired
  letter,       \* the digest in the link of the last letter, if any
  kind, at,     \* what a request is, and the await it stands at
  arg,          \* the token, provider or digest (of a link) it came with
  copy,         \* the row of users as it has read it
  hit,          \* the sessions its _revoke_all_sessions has changed
  epoch,        \* grows with each change of the password and removal
  asOf,         \* history: the epoch of the login behind a request, 0 once a
                \*   change of the password has run beside it
  root,         \* history: the same of the request that made a token
  spent         \* history: the link of the last letter has worked

row == <<state, digest, ids, personal>>
request == <<kind, at, arg, copy, hit, asOf>>
ledger == <<session, root>>
vars == <<state, digest, ids, personal, session, letter, kind, at, arg, copy, hit,
          epoch, asOf, root, spent>>

Changers == {"reset", "change", "delete"}
States == {"absent", "active", "deleted"}

Blank == [state |-> "absent", ids |-> {}, personal |-> FALSE]
Row == [state |-> state, ids |-> ids, personal |-> personal]

Running(r) == at[r] \in {"user", "email", "revoke", "commit"}
Changing(r) == Running(r) /\ kind[r] \in Changers
-----------------------------------------------------------------------------
Init ==
  /\ state = "absent" /\ digest = 0 /\ ids = {} /\ personal = FALSE
  /\ session = [t \in Tokens |-> "unused"]
  /\ letter = NoArg /\ spent = FALSE /\ epoch = 1
  /\ kind = [r \in Requests |-> "none"]
  /\ at = [r \in Requests |-> "idle"]
  /\ arg = [r \in Requests |-> NoArg]
  /\ copy = [r \in Requests |-> Blank]
  /\ hit = [r \in Requests |-> {}]
  /\ asOf = [r \in Requests |-> 0]
  /\ root = [t \in Tokens |-> 0]

(* A request begins, with the row as its first statement finds it, on the  *)
(* strength of a login in epoch e.                                         *)
Begin(r, k, stage, a, e) ==
  /\ at[r] = "idle" /\ k \in Served
  /\ k \in Changers => epoch < MaxEpoch
  /\ kind' = [kind EXCEPT ![r] = k]
  /\ at' = [at EXCEPT ![r] = stage]
  /\ arg' = [arg EXCEPT ![r] = a]
  /\ copy' = [copy EXCEPT ![r] = Row]
  /\ asOf' = [q \in Requests |->
       CASE q = r -> IF \E c \in Requests : Changing(c) THEN 0 ELSE e
         [] q # r -> IF k \in Changers THEN 0 ELSE asOf[q]]
  /\ UNCHANGED <<row, ledger, letter, hit, epoch, spent>>

Goto(r, stage) ==
  /\ at' = [at EXCEPT ![r] = stage]
  /\ UNCHANGED <<kind, arg, hit, asOf>>

(* Nothing is left to answer, or the request has come to nothing.          *)
End(r) ==
  /\ kind' = [kind EXCEPT ![r] = "none"]
  /\ at' = [at EXCEPT ![r] = "idle"]
  /\ arg' = [arg EXCEPT ![r] = NoArg]
  /\ copy' = [copy EXCEPT ![r] = Blank]
  /\ hit' = [hit EXCEPT ![r] = {}]
  /\ asOf' = [asOf EXCEPT ![r] = 0]

(* _issue_token_pair: the next token, which goes out with the answer.      *)
Issue(r, t, e) ==
  /\ session[t] = "unused"
  /\ \A u \in Tokens : u < t => session[u] # "unused"
  /\ root' = [root EXCEPT ![t] = e]
  /\ kind' = [kind EXCEPT ![r] = "none"]
  /\ at' = [at EXCEPT ![r] = "answer"]
  /\ arg' = [arg EXCEPT ![r] = t]
  /\ copy' = [copy EXCEPT ![r] = Blank]
  /\ hit' = [hit EXCEPT ![r] = {}]
  /\ asOf' = [asOf EXCEPT ![r] = 0]
-----------------------------------------------------------------------------
(* register: the e-mail is free.                                           *)
RegisterBegin(r) == state = "absent" /\ Begin(r, "register", "commit", NoArg, epoch)

RegisterCommit(r, t) ==
  /\ kind[r] = "register" /\ at[r] = "commit"
  /\ state = "absent"
  /\ state' = "active" /\ personal' = TRUE /\ digest' = epoch
  /\ Issue(r, t, asOf[r])
  /\ session' = [session EXCEPT ![t] = "live"]
  /\ UNCHANGED <<ids, letter, epoch, spent>>

(* login: the password is compared with the copy's digest.                 *)
LoginBegin(r) ==
  /\ state = "active" /\ personal /\ digest # 0
  /\ Begin(r, "login", "commit", NoArg, epoch)

LoginCommit(r, t) ==
  /\ kind[r] = "login" /\ at[r] = "commit"
  /\ Issue(r, t, asOf[r])
  /\ session' = [session EXCEPT ![t] = "live"]
  /\ UNCHANGED <<row, letter, epoch, spent>>

(* refresh: the session is read, then the user, then both are written.     *)
RefreshBegin(r, t) ==
  /\ session[t] # "unused"
  /\ Begin(r, "refresh", IF session[t] = "live" THEN "user" ELSE "refused", t, root[t])

RefreshUser(r) ==
  /\ kind[r] = "refresh" /\ at[r] = "user"
  /\ copy' = [copy EXCEPT ![r] = Row]
  /\ Goto(r, IF state = "active" THEN "commit" ELSE "refused")
  /\ UNCHANGED <<row, ledger, letter, epoch, spent>>

(* It waits for whoever has changed the session and not committed yet.     *)
RefreshCommit(r, t) ==
  /\ kind[r] = "refresh" /\ at[r] = "commit"
  /\ \A q \in Requests : arg[r] \notin hit[q]
  /\ Issue(r, t, asOf[r])
  /\ session' = [session EXCEPT ![arg[r]] = "over", ![t] = "live"]
  /\ UNCHANGED <<row, letter, epoch, spent>>

(* refresh_token_days pass.                                                *)
Expire(t) ==
  /\ session[t] = "live"
  /\ session' = [session EXCEPT ![t] = "over"]
  /\ UNCHANGED <<row, request, root, letter, epoch, spent>>
-----------------------------------------------------------------------------
(* start_password_reset                                                    *)
MailLink ==
  /\ state = "active" /\ personal
  /\ letter' = digest /\ spent' = FALSE
  /\ UNCHANGED <<row, request, ledger, epoch>>

(* Mutant: the link is not compared with the password.                     *)
ResetBeginAny(r, d) ==
  /\ d = letter
  /\ state = "active"
  /\ Begin(r, "reset", "revoke", d, epoch)

(* finish_password_reset, as far as the fingerprint                        *)
ResetBegin(r, d) ==
  /\ d = letter
  /\ state = "active" /\ digest = d
  /\ Begin(r, "reset", "revoke", d, epoch)

(* get_current_user reads the row; change_password and delete_account      *)
(* compare the password with its digest.                                   *)
ChangeBegin(r) ==
  /\ state = "active" /\ digest # 0
  /\ Begin(r, "change", "revoke", NoArg, epoch)

DeleteBegin(r) ==
  /\ state = "active" /\ digest # 0
  /\ Begin(r, "delete", "revoke", NoArg, epoch)

(* The row of users, once flushed, is locked by reset and change.          *)
HoldsUser(q) == kind[q] \in {"reset", "change"} /\ at[q] = "commit"
UserFree(r) == \A q \in Requests : q = r \/ ~HoldsUser(q)

(* Mutant: the newest session is spared.                                   *)
RevokeOthers(r) ==
  /\ kind[r] \in Changers /\ at[r] = "revoke"
  /\ \A q \in Requests : q = r \/ hit[q] = {}
  /\ kind[r] \in {"reset", "change"} => UserFree(r)
  /\ hit' = [hit EXCEPT ![r] = {t \in Tokens : \E u \in Tokens :
                                  u > t /\ session[u] # "unused"}]
  /\ at' = [at EXCEPT ![r] = "commit"]
  /\ UNCHANGED <<row, ledger, letter, kind, arg, copy, epoch, asOf, spent>>

(* _revoke_all_sessions: the statement sees the sessions that are          *)
(* committed, and waits for another that has changed them.                 *)
RevokeAll(r) ==
  /\ kind[r] \in Changers /\ at[r] = "revoke"
  /\ \A q \in Requests : q = r \/ hit[q] = {}
  /\ kind[r] \in {"reset", "change"} => UserFree(r)
  /\ hit' = [hit EXCEPT ![r] = {t \in Tokens : session[t] # "unused"}]
  /\ at' = [at EXCEPT ![r] = "commit"]
  /\ UNCHANGED <<row, ledger, letter, kind, arg, copy, epoch, asOf, spent>>

(* Mutant: the sessions are left open.                                     *)
AllOpen(r) == session

Closed(r) == [t \in Tokens |-> IF t \in hit[r] /\ session[t] = "live"
                               THEN "over" ELSE session[t]]

ResetCommit(r) ==
  /\ kind[r] = "reset" /\ at[r] = "commit"
  /\ epoch' = epoch + 1 /\ digest' = epoch + 1
  /\ session' = Closed(r)
  /\ spent' = (spent \/ arg[r] = letter)
  /\ End(r)
  /\ UNCHANGED <<state, ids, personal, root, letter>>

ChangeCommit(r, t) ==
  /\ kind[r] = "change" /\ at[r] = "commit"
  /\ epoch' = epoch + 1 /\ digest' = epoch + 1
  /\ Issue(r, t, IF asOf[r] = 0 THEN 0 ELSE epoch + 1)
  /\ session' = [Closed(r) EXCEPT ![t] = "live"]
  /\ UNCHANGED <<state, ids, personal, letter, spent>>

(* The identities of the copy are deleted, the row made anonymous.         *)
DeleteCommit(r) ==
  /\ kind[r] = "delete" /\ at[r] = "commit"
  /\ UserFree(r)
  /\ epoch' = epoch + 1 /\ digest' = 0
  /\ state' = "deleted" /\ personal' = FALSE
  /\ ids' = ids \ copy[r].ids
  /\ session' = Closed(r)
  /\ End(r)
  /\ UNCHANGED <<root, letter, spent>>

(* Mutant: of an account that is not active, too.                          *)
ProfileBeginAny(r) == state # "absent" /\ Begin(r, "profile", "commit", NoArg, epoch)

(* update_profile                                                          *)
ProfileBegin(r) == state = "active" /\ Begin(r, "profile", "commit", NoArg, epoch)

ProfileCommit(r) ==
  /\ kind[r] = "profile" /\ at[r] = "commit"
  /\ UserFree(r)
  /\ personal' = TRUE
  /\ End(r)
  /\ UNCHANGED <<state, digest, ids, ledger, letter, epoch, spent>>
-----------------------------------------------------------------------------
(* _sign_in: whose identity it is, and if nobody's, whose e-mail.  Nothing *)
(* asks whether the account is active.                                     *)
SignInBegin(r, p) == Begin(r, "signin", IF p \in ids THEN "commit" ELSE "email", p, epoch)

(* Once the row is anonymous the e-mail makes another account, not ours.   *)
SignInEmail(r) ==
  /\ kind[r] = "signin" /\ at[r] = "email"
  /\ IF state = "deleted" /\ ~personal
     THEN End(r)
     ELSE /\ copy' = [copy EXCEPT ![r] = Row]
          /\ Goto(r, "commit")
  /\ UNCHANGED <<row, ledger, letter, epoch, spent>>

(* A new account, an identity appended, or one that was found.  A second   *)
(* row of one e-mail, or of one identity, is refused by its constraint.    *)
SignInCommit(r, t) ==
  /\ kind[r] = "signin" /\ at[r] = "commit"
  /\ \/ copy[r].state = "absent" /\ state = "absent"
        /\ state' = "active" /\ personal' = TRUE /\ ids' = {arg[r]}
     \/ copy[r].state # "absent" /\ arg[r] \notin copy[r].ids \cup ids
        /\ ids' = ids \cup {arg[r]}
        /\ UNCHANGED <<state, personal>>
     \/ arg[r] \in copy[r].ids
        /\ UNCHANGED <<state, personal, ids>>
  /\ Issue(r, t, asOf[r])
  /\ session' = [session EXCEPT ![t] = "live"]
  /\ UNCHANGED <<digest, letter, epoch, spent>>

(* Mutant: the last way in is not kept.                                    *)
UnlinkBeginLast(r, p) == state = "active" /\ Begin(r, "unlink", "commit", p, epoch)

(* unlink: a password or another provider has to be left in the copy.      *)
UnlinkBegin(r, p) ==
  /\ state = "active"
  /\ digest # 0 \/ ids \ {p} # {}
  /\ Begin(r, "unlink", "commit", p, epoch)

UnlinkCommit(r) ==
  /\ kind[r] = "unlink" /\ at[r] = "commit"
  /\ ids' = IF arg[r] \in copy[r].ids THEN ids \ {arg[r]} ELSE ids
  /\ End(r)
  /\ UNCHANGED <<state, digest, personal, ledger, letter, epoch, spent>>
-----------------------------------------------------------------------------
(* The api stops, the database fails, a constraint is broken, a deadlock   *)
(* is resolved: the transaction leaves nothing.                            *)
Fail(r) ==
  /\ Running(r)
  /\ End(r)
  /\ UNCHANGED <<row, ledger, letter, epoch, spent>>

(* The answer, good or bad, has left.                                      *)
Answered(r) ==
  /\ at[r] \in {"answer", "refused"}
  /\ End(r)
  /\ UNCHANGED <<row, ledger, letter, epoch, spent>>

BeginAny(r) ==
  \/ RegisterBegin(r) \/ LoginBegin(r) \/ ChangeBegin(r) \/ DeleteBegin(r)
  \/ ProfileBegin(r)
  \/ \E d \in {letter} : ResetBegin(r, d)
  \/ \E p \in Providers : SignInBegin(r, p) \/ UnlinkBegin(r, p)

CommitPair(r, t) ==
  \/ RegisterCommit(r, t) \/ LoginCommit(r, t) \/ RefreshCommit(r, t)
  \/ ChangeCommit(r, t) \/ SignInCommit(r, t)

Work(r) ==
  \/ RefreshUser(r) \/ SignInEmail(r) \/ RevokeAll(r)
  \/ ResetCommit(r) \/ DeleteCommit(r) \/ ProfileCommit(r) \/ UnlinkCommit(r)
  \/ Fail(r)

Next ==
  \/ \E r \in Requests :
       \/ BeginAny(r) \/ Work(r) \/ Answered(r)
       \/ \E t \in Tokens : RefreshBegin(r, t) \/ CommitPair(r, t)
  \/ \E t \in Tokens : Expire(t)
  \/ MailLink

Spec == Init /\ [][Next]_vars
-----------------------------------------------------------------------------
TypeOK ==
  /\ state \in States /\ digest \in Nat /\ ids \subseteq Providers /\ personal \in BOOLEAN
  /\ session \in [Tokens -> {"unused", "live", "over"}]
  /\ letter \in Nat \cup {NoArg} /\ spent \in BOOLEAN /\ epoch \in Nat
  /\ kind \in [Requests -> Served \cup {"none"}]
  /\ at \in [Requests -> {"idle", "user", "email", "revoke", "commit", "answer", "refused"}]
  /\ arg \in [Requests -> Nat \cup Providers \cup {NoArg}]
  /\ \A r \in Requests : kind[r] = "signin" => arg[r] \in Providers
  /\ copy \in [Requests -> [state : States, ids : SUBSET Providers,
                          personal : BOOLEAN]]
  /\ hit \in [Requests -> SUBSET Tokens]
  /\ asOf \in [Requests -> Nat]
  /\ root \in [Tokens -> Nat]

(* Whoever got in by an old password is out once the password has changed  *)
(* or the account is gone: a session outlives the change only if it, or    *)
(* one it descends from, was issued by a request that ran beside a change  *)
(* (finish_password_reset closes all sessions).                            *)
OldSessionsClosed == \A t \in Tokens :
  session[t] = "live" => root[t] \in {0, epoch}

(* Whoever resets the password shuts everybody out, whatever ran beside it *)
(* (auth.py:239).  It fails: a login that compared the old password before *)
(* commits its session after the statement that closes them.               *)
AllClosedByReset == [][\A r \in Requests :
  kind[r] = "reset" /\ kind'[r] = "none" /\ epoch' # epoch =>
    \A t \in Tokens : session'[t] # "live"]_vars

(* A reset link that has worked is not taken from a later request.         *)
LinkWorksOnce == [][\A r \in Requests :
  kind[r] = "none" /\ kind'[r] = "reset" => ~spent]_vars

(* An active account can be entered (oauth.py:194).  It fails: two unlinks *)
(* that leave each other's provider leave none.                            *)
WayIn == state = "active" => digest # 0 \/ ids # {}

(* The last way into an account is lost only by an unlink whose copy of    *)
(* the identities is not what the table holds by now.                      *)
LastWayKept == [][WayIn /\ ~WayIn' =>
  \E r \in Requests : kind[r] = "unlink" /\ kind'[r] = "none" /\ copy[r].ids # ids]_vars

(* A deleted account gets a name, an e-mail or a way in again only from a  *)
(* request that had read the row before it was made anonymous.             *)
Gone(u) == u.state = "deleted" /\ ~u.personal /\ u.ids = {}
DeletedStaysGone == [][Gone(Row) /\ ~Gone(Row)' =>
  \E r \in Requests : at[r] = "commit" /\ at'[r] # "commit" /\ ~Gone(copy[r])]_vars

(* A deleted account stays without a name, an e-mail and a way in, whoever *)
(* had read it before (auth.py:348).  It fails: update_profile writes back *)
(* the name and the e-mail it has been sent.                               *)
GoneForGood == [][Gone(Row) => Gone(Row)']_vars
-----------------------------------------------------------------------------
(* The inductive invariant.  While a change of the password is under way,  *)
(* every session but its own beside it descends from a request that knows  *)
(* of the race, and the statement that closes the rest has seen them all.  *)
Undisturbed(r) == Running(r) /\ asOf[r] # 0
RequestsOK ==
  /\ \A r \in Requests : Undisturbed(r) =>
       asOf[r] = epoch /\ \A c \in Requests : Changing(c) => c = r
  /\ \A c \in Requests : Changing(c) /\ at[c] = "commit" =>
       \A t \in Tokens : session[t] = "live" /\ root[t] # 0 => t \in hit[c]

(* A link is of the past, and of this password only if it has not worked.  *)
LetterOK ==
  /\ digest <= epoch
  /\ letter \in Nat => letter <= epoch
  /\ state = "absent" => letter = NoArg
  /\ state = "active" /\ spent => letter # digest

(* What a request may write, by what it has read.                          *)
CopiesOK == \A r \in Requests : at[r] = "commit" =>
  /\ kind[r] = "unlink" =>
       state # "absent" /\ (state = "active" => digest # 0 \/ copy[r].ids \ {arg[r]} # {})
  /\ kind[r] = "profile" => copy[r].state = "active"
  /\ kind[r] = "signin" => ~Gone(copy[r])

SessionInv == /\ TypeOK /\ epoch > 0 /\ OldSessionsClosed
              /\ RequestsOK /\ LetterOK /\ CopiesOK
=============================================================================
