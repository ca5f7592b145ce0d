------------------------------- MODULE Linking -------------------------------
(***************************************************************************)
(* Which account of the panel a cabinet is linked to: the trial given at   *)
(* registration (trial.py), the link a person pastes or takes away         *)
(* (subscription.py), the cabinet opened for a buyer (checkout.py), the    *)
(* removal of an account (auth.py) and the administrator's trial           *)
(* (admin.py).  All of them read the row, wait for the panel, and write    *)
(* users.remnawave_user_id, each in a session of its own; the unique       *)
(* constraint of that column refuses a second row with one account.        *)
(*                                                                         *)
(* An e-mail stands for the user name panel_username makes of it, which    *)
(* differs from e-mail to e-mail.  The days on an account are Checkout's.  *)
(***************************************************************************)
EXTENDS Integers, FiniteSets

CONSTANTS
  Users,        \* rows of the table users
  Names,        \* names of the panel: those of e-mails, and others
  Accounts,     \* numbers the panel gives to its accounts
  Requests,     \* requests in progress at a time
  Nobody, NoName, NoAccount

ASSUME NoneAssumption == /\ Nobody \notin Users /\ NoAccount \notin Accounts
                         /\ NoName \notin Names /\ {"unused", "gone"} \cap Names = {}

VARIABLES
  row,          \* users: not there, is_active, or anonymized
  mail,         \* users.email, NoName in an anonymous row
  link,         \* users.remnawave_user_id
  panel,        \* the name of each account, or that it is unused or gone
  req           \* the requests: what each has read and is about to write

vars == <<row, mail, link, panel, req>>

(* at     the await a request stands at                                    *)
(* who    the row it is about                                              *)
(* seen   the row as it was read, with its link                            *)
(* want   the account it has got from the panel                            *)
Idle == [kind |-> "none", at |-> "idle", who |-> Nobody, name |-> NoName,
         seen |-> "none", link |-> NoAccount, want |-> NoAccount]

Live(a) == a \in Accounts /\ panel[a] \in Names
Named(n) == {a \in Accounts : panel[a] = n}
Owned(n) == {u \in Users : mail[u] = n}
-----------------------------------------------------------------------------
Init ==
  /\ row = [u \in Users |-> "none"]
  /\ mail = [u \in Users |-> NoName]
  /\ link = [u \in Users |-> NoAccount]
  /\ panel = [a \in Accounts |-> "unused"]
  /\ req = [r \in Requests |-> Idle]

(* A request for row u, as its first statement finds it.                   *)
Begin(r, kind, stage, u, n) ==
  /\ req[r] = Idle
  /\ req' = [req EXCEPT ![r] = [Idle EXCEPT !.kind = kind, !.at = stage, !.who = u,
               !.name = n, !.seen = row[u], !.link = link[u]]]

Goto(r, stage) == req' = [req EXCEPT ![r].at = stage]
End(r) == req' = [req EXCEPT ![r] = Idle]

(* The constraint: no row but u's has the account.                         *)
Unclaimed(a, u) == \A v \in Users : v # u => link[v] # a

(* register: the row is committed, the trial follows.                      *)
Register(r, u, n) ==
  /\ row[u] = "none" /\ Owned(n) = {} /\ req[r] = Idle
  /\ row' = [row EXCEPT ![u] = "active"]
  /\ mail' = [mail EXCEPT ![u] = n]
  /\ req' = [req EXCEPT ![r] = [Idle EXCEPT !.kind = "trial", !.at = "look", !.who = u,
               !.name = n, !.seen = "active"]]
  /\ UNCHANGED <<link, panel>>

(* update_profile, in one step                                             *)
ChangeMail(u, n) ==
  /\ row[u] = "active" /\ Owned(n) = {}
  /\ mail' = [mail EXCEPT ![u] = n]
  /\ UNCHANGED <<row, link, panel, req>>

(* link_subscription: get_user_by_short_uuid has found the account.        *)
BeginLink(r, u, a) ==
  /\ row[u] = "active" /\ Live(a) /\ req[r] = Idle
  /\ req' = [req EXCEPT ![r] = [Idle EXCEPT !.kind = "link", !.at = "claimed", !.who = u,
               !.seen = row[u], !.link = link[u], !.want = a]]
  /\ UNCHANGED <<row, mail, link, panel>>

BeginUnlink(r, u) == /\ row[u] = "active" /\ Begin(r, "unlink", "commit", u, NoName)
                     /\ UNCHANGED <<row, mail, link, panel>>

BeginDelete(r, u) == /\ row[u] = "active" /\ Begin(r, "delete", "commit", u, NoName)
                     /\ UNCHANGED <<row, mail, link, panel>>

(* grant_trial of admin.py asks of the row only that it is there.          *)
BeginGrant(r, u, n) == /\ row[u] # "none" /\ Begin(r, "grant", "look", u, n)
                       /\ UNCHANGED <<row, mail, link, panel>>

(* deliver: the owner of the payment or, without one, of the e-mail.       *)
BeginPurchase(r, n) ==
  /\ \/ \E u \in Users : row[u] # "none" /\ Begin(r, "purchase", "look", u, n)
     \/ /\ Owned(n) = {} /\ req[r] = Idle
        /\ req' = [req EXCEPT ![r] = [Idle EXCEPT !.kind = "purchase", !.at = "look",
                                                  !.name = n]]
  /\ UNCHANGED <<row, mail, link, panel>>
-----------------------------------------------------------------------------
(* Mutant: a purchase looks for the account by its name only.              *)
SoughtByName(q) == Named(q.name)

(* The account asked for: a purchase goes by the link it has read.         *)
Sought(q) == IF q.kind = "purchase" /\ q.link # NoAccount
             THEN {a \in {q.link} : Live(a)} ELSE Named(q.name)

(* Where a request goes with its account: a purchase opens the cabinet.    *)
Got(r, a) == req' = [req EXCEPT ![r].want = a,
                 ![r].at = IF req[r].kind = "purchase" THEN "cabinet" ELSE "commit"]

Look(r) ==
  /\ req[r].at = "look"
  /\ \/ \E a \in Sought(req[r]) : IF req[r].kind = "grant" THEN End(r) ELSE Got(r, a)
     \/ Sought(req[r]) = {} /\ Goto(r, "create")
  /\ UNCHANGED <<row, mail, link, panel>>

(* create_user: a name that is there by now is refused (Fail).  The answer *)
(* may be lost; asked again the panel refuses the name, and the request    *)
(* ends without the account it has made.                                   *)
Create(r, a) ==
  /\ req[r].at = "create"
  /\ Named(req[r].name) = {} /\ panel[a] = "unused"
  /\ panel' = [panel EXCEPT ![a] = req[r].name]
  /\ Got(r, a) \/ End(r)
  /\ UNCHANGED <<row, mail, link>>

(* Mutant: the link of the cabinet is not looked at.                       *)
OpenCabinetAlways(r) ==
  /\ req[r].at = "cabinet"
  /\ \/ \E u \in Owned(req[r].name) :
          req' = [req EXCEPT ![r].who = u, ![r].link = link[u], ![r].seen = row[u],
                             ![r].at = "claimed"]
     \/ /\ Owned(req[r].name) = {}
        /\ req' = [req EXCEPT ![r].who = Nobody, ![r].link = NoAccount,
                              ![r].seen = "none", ![r].at = "claimed"]
  /\ UNCHANGED <<row, mail, link, panel>>

(* _zavesti_kabinet: the cabinet of the e-mail, if there is one; one that  *)
(* is linked is left alone.                                                *)
OpenCabinet(r) ==
  /\ req[r].at = "cabinet"
  /\ \/ \E u \in Owned(req[r].name) :
          IF link[u] = NoAccount
          THEN req' = [req EXCEPT ![r].who = u, ![r].link = NoAccount, ![r].seen = row[u],
                                  ![r].at = "claimed"]
          ELSE End(r)
     \/ /\ Owned(req[r].name) = {}
        /\ req' = [req EXCEPT ![r].who = Nobody, ![r].link = NoAccount,
                              ![r].seen = "none", ![r].at = "claimed"]
  /\ UNCHANGED <<row, mail, link, panel>>

(* _ensure_not_claimed, and zanyato of _zavesti_kabinet: an account that   *)
(* another cabinet has is refused, or the new cabinet goes without.        *)
EnsureNotClaimed(r) == LET q == req[r] IN
  /\ q.at = "claimed"
  /\ IF q.kind = "purchase"
     THEN req' = [req EXCEPT ![r].at = "commit", ![r].want =
            IF \E v \in Users : link[v] = @ /\ mail[v] # q.name THEN NoAccount ELSE @]
     ELSE IF Unclaimed(q.want, q.who) THEN Goto(r, "commit") ELSE End(r)
  /\ UNCHANGED <<row, mail, link, panel>>
-----------------------------------------------------------------------------
(* The link a request writes, if it differs from the one it has read.      *)
Written(q) == CASE q.kind \in {"unlink", "delete"} -> NoAccount
                [] q.kind = "purchase" /\ q.want = NoAccount -> q.link
                [] OTHER -> q.want

Write(q) ==
  IF Written(q) = q.link THEN UNCHANGED link
  ELSE /\ Written(q) # NoAccount => Unclaimed(Written(q), q.who)
       /\ link' = [link EXCEPT ![q.who] = Written(q)]

(* trial, link, unlink, grant, and a purchase of somebody with a cabinet   *)
Commit(r) ==
  /\ req[r].at = "commit" /\ req[r].kind # "delete" /\ req[r].who # Nobody
  /\ Write(req[r])
  /\ End(r)
  /\ UNCHANGED <<row, mail, panel>>

(* A purchase opens a cabinet; the e-mail and the account are still free.  *)
CommitCabinet(r, u) == LET q == req[r] IN
  /\ q.at = "commit" /\ q.who = Nobody
  /\ row[u] = "none" /\ Owned(q.name) = {}
  /\ q.want # NoAccount => Unclaimed(q.want, u)
  /\ row' = [row EXCEPT ![u] = "active"]
  /\ mail' = [mail EXCEPT ![u] = q.name]
  /\ link' = [link EXCEPT ![u] = q.want]
  /\ End(r)
  /\ UNCHANGED panel

(* Mutant: the link stays in the anonymous row.                            *)
CommitDeleteLinked(r) ==
  /\ req[r].at = "commit" /\ req[r].kind = "delete"
  /\ row' = [row EXCEPT ![req[r].who] = "deleted"]
  /\ mail' = [mail EXCEPT ![req[r].who] = NoName]
  /\ End(r)
  /\ UNCHANGED <<link, panel>>

(* delete_account                                                          *)
CommitDelete(r) ==
  /\ req[r].at = "commit" /\ req[r].kind = "delete"
  /\ Write(req[r])
  /\ row' = [row EXCEPT ![req[r].who] = "deleted"]
  /\ mail' = [mail EXCEPT ![req[r].who] = NoName]
  /\ End(r)
  /\ UNCHANGED panel

(* The panel or the database fails, a constraint is broken, the api stops. *)
Fail(r) ==
  /\ req[r] # Idle
  /\ End(r)
  /\ UNCHANGED <<row, mail, link, panel>>

(* The sales bot or an administrator makes an account or removes one.      *)
PanelAdd(a, n) ==
  /\ panel[a] = "unused" /\ Named(n) = {}
  /\ panel' = [panel EXCEPT ![a] = n]
  /\ UNCHANGED <<row, mail, link, req>>

PanelRemove(a) ==
  /\ Live(a)
  /\ panel' = [panel EXCEPT ![a] = "gone"]
  /\ UNCHANGED <<row, mail, link, req>>

BeginAny(r) ==
  \/ \E u \in Users : \/ BeginUnlink(r, u) \/ BeginDelete(r, u)
                      \/ \E a \in Accounts : BeginLink(r, u, a)
                      \/ \E n \in Names : Register(r, u, n) \/ BeginGrant(r, u, n)
  \/ \E n \in Names : BeginPurchase(r, n)

Work(r) ==
  \/ Look(r) \/ OpenCabinet(r) \/ EnsureNotClaimed(r)
  \/ \E a \in Accounts : Create(r, a)
  \/ Commit(r) \/ CommitDelete(r) \/ \E u \in Users : CommitCabinet(r, u)
  \/ Fail(r)

Next ==
  \/ \E r \in Requests : BeginAny(r) \/ Work(r)
  \/ \E u \in Users, n \in Names : ChangeMail(u, n)
  \/ \E a \in Accounts : PanelRemove(a) \/ \E n \in Names : PanelAdd(a, n)

Spec == Init /\ [][Next]_vars
-----------------------------------------------------------------------------
Kinds == {"none", "trial", "link", "unlink", "delete", "grant", "purchase"}
States == {"none", "active", "deleted"}
Records == [kind : Kinds,
            at : {"idle", "look", "create", "cabinet", "claimed", "commit"},
            who : Users \cup {Nobody}, name : Names \cup {NoName}, seen : States,
            link : Accounts \cup {NoAccount}, want : Accounts \cup {NoAccount}]

TypeOK ==
  /\ row \in [Users -> States]
  /\ mail \in [Users -> Names \cup {NoName}]
  /\ link \in [Users -> Accounts \cup {NoAccount}]
  /\ panel \in [Accounts -> Names \cup {"unused", "gone"}]
  /\ req \in [Requests -> Records]

(* An account of the panel belongs to one cabinet at most.                 *)
OneOwner == \A u, v \in Users : u # v /\ link[u] = link[v] => link[u] = NoAccount

Commits(r) == req[r].at = "commit" /\ req'[r].at = "idle"

(* A cabinet loses its account, or gets another, only by what its owner or *)
(* an administrator asked for, or by a trial or a purchase that has read   *)
(* the row while it was not linked (checkout.py:540).                      *)
LinkKept == [][\A u \in Users : link[u] # NoAccount /\ link'[u] # link[u] =>
  \E r \in Requests :
    /\ Commits(r) /\ req[r].who = u
    /\ req[r].kind \in {"link", "unlink", "delete", "grant"} \/ req[r].link = NoAccount]_vars

(* Whoever is linked to an account that is there buys no second one: it is *)
(* made beside the first only if the link is newer than the purchase's     *)
(* reading of it (checkout.py:364).                                        *)
NoSecondAccount == [][\A r \in Requests, a \in Accounts :
  /\ panel[a] = "unused" /\ panel'[a] # "unused"
  /\ req[r].kind = "purchase" /\ req[r].at = "create" /\ req'[r].at # "create"
  /\ req[r].who # Nobody /\ Live(link[req[r].who])
  => link[req[r].who] # req[r].link]_vars

(* Nor beside one linked meanwhile: a purchase makes no second account for *)
(* a cabinet that has one (checkout.py:364).  It fails: the link is read   *)
(* before the panel is asked.                                              *)
NoAccountBeside == [][\A r \in Requests, a \in Accounts :
  /\ panel[a] = "unused" /\ panel'[a] # "unused"
  /\ req[r].kind = "purchase" /\ req[r].at = "create" /\ req'[r].at # "create"
  => req[r].who = Nobody \/ ~Live(link[req[r].who])]_vars

(* A removed cabinet keeps no account to itself, unless it was linked      *)
(* after the removal had read it, or by a request that had read the row    *)
(* before it was removed, or by an administrator.                          *)
Claims(u) == row[u] = "deleted" /\ link[u] # NoAccount
DeadClaimsNothing == [][\A u \in Users : ~Claims(u) /\ Claims(u)' =>
  \E r \in Requests :
    /\ Commits(r) /\ req[r].who = u
    /\ IF req[r].kind = "delete" THEN req[r].link # link[u]
       ELSE req[r].seen = "active" \/ req[r].kind = "grant"]_vars
-----------------------------------------------------------------------------
(* The inductive invariant: only active rows bear an e-mail, linked numbers*)
(* have been given by the panel, and of the requests, what each has read   *)
(* by the await it stands at.                                              *)
Given(a) == a # NoAccount => panel[a] # "unused"

RequestOK(q) ==
  /\ q.at # "idle" => q.kind # "none" /\ (q.who = Nobody => q.kind = "purchase")
  /\ q.who # Nobody => row[q.who] # "none"
  /\ q.kind \in {"trial", "link", "unlink", "delete"} => q.seen = "active"
  /\ q.kind = "trial" => q.link = NoAccount
  /\ q.kind = "purchase" /\ q.at \in {"claimed", "commit"} =>
       q.link = NoAccount /\ (q.who # Nobody => q.seen = "active")
  /\ q.kind = "purchase" /\ q.at = "create" /\ q.link # NoAccount =>
       panel[q.link] = "gone"
  /\ q.at \in {"look", "create", "cabinet"} => q.name \in Names
  /\ q.at = "cabinet" => q.kind = "purchase"
  /\ Given(q.link) /\ Given(q.want)

RowsOK ==
  \A u \in Users : /\ mail[u] # NoName => row[u] = "active"
                   /\ link[u] # NoAccount => row[u] # "none"
                   /\ Given(link[u])

RequestsOK == \A r \in Requests : RequestOK(req[r])

LinkInv == TypeOK /\ OneOwner /\ RowsOK /\ RequestsOK
=============================================================================
