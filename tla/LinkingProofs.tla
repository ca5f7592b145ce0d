---------------------------- MODULE LinkingProofs ----------------------------
(***************************************************************************)
(* LinkInv is an invariant of Linking for any number of cabinets, names,   *)
(* accounts and requests; what a step may do to a link follows from it.    *)
(***************************************************************************)
EXTENDS Linking, TLAPS

LEMMA IdleOK == Idle \in Records /\ RequestOK(Idle)
BY DEF Idle, Records, Kinds, States, RequestOK, Given

(* What the invariant says of one row and of one request.                  *)
LEMMA RowFacts ==
  ASSUME LinkInv, NEW u \in Users
  PROVE  /\ row[u] \in States /\ link[u] \in Accounts \cup {NoAccount}
         /\ mail[u] # NoName => row[u] = "active"
         /\ link[u] # NoAccount => row[u] # "none" /\ panel[link[u]] # "unused"
<1>1. row[u] \in States /\ link[u] \in Accounts \cup {NoAccount}
  BY DEF LinkInv, TypeOK
<1>2. /\ mail[u] # NoName => row[u] = "active"
      /\ link[u] # NoAccount => row[u] # "none"
      /\ Given(link[u])
  BY DEF LinkInv, RowsOK
<1>. QED BY <1>1, <1>2 DEF Given

LEMMA RequestFacts ==
  ASSUME LinkInv, NEW r \in Requests
  PROVE  req[r] \in Records /\ RequestOK(req[r])
BY DEF LinkInv, TypeOK, RequestsOK

LEMMA InitLinkInv == Init => LinkInv
<1>. SUFFICES ASSUME Init PROVE LinkInv
  OBVIOUS
<1>1. Idle \in Records
  BY DEF Idle, Records, Kinds, States
<1>2. TypeOK
  BY <1>1 DEF Init, TypeOK, States
<1>3. RequestOK(Idle)
  BY DEF Idle, RequestOK, Given
<1>. QED BY <1>2, <1>3 DEF Init, LinkInv, RowsOK, RequestsOK, OneOwner, Given

(* A step that moves one request and nothing else.                         *)
LEMMA RequestStep ==
  ASSUME LinkInv, NEW r \in Requests, NEW q \in Records, RequestOK(q),
         req' = [req EXCEPT ![r] = q], UNCHANGED <<row, mail, link, panel>>
  PROVE  LinkInv'
<1>1. TypeOK'
  BY DEF LinkInv, RowsOK, RequestsOK, TypeOK
<1>2. \A p \in Requests : req'[p] = IF p = r THEN q ELSE req[p]
  BY DEF LinkInv, RowsOK, RequestsOK, TypeOK
<1>3. \A p \in Requests : RequestOK(req[p])'
  BY <1>2 DEF LinkInv, RowsOK, RequestsOK, RequestOK, Given
<1>. QED BY <1>1, <1>3 DEF LinkInv, RowsOK, RequestsOK, OneOwner, Given

LEMMA EndStep ==
  ASSUME LinkInv, NEW r \in Requests, End(r), UNCHANGED <<row, mail, link, panel>>
  PROVE  LinkInv'
BY IdleOK, RequestStep DEF End

(* A request that begins has read its row as it is.                        *)
LEMMA BeginStep ==
  ASSUME LinkInv, NEW r \in Requests, NEW kind \in Kinds,
         NEW stage \in {"look", "commit"}, NEW u \in Users, NEW n \in Names \cup {NoName},
         Begin(r, kind, stage, u, n),
         kind \in {"unlink", "delete"} => row[u] = "active",
         kind \in {"unlink", "delete", "grant"} \/ (kind = "purchase" /\ stage = "look"),
         stage = "look" => n \in Names, row[u] # "none",
         UNCHANGED <<row, mail, link, panel>>
  PROVE  LinkInv'
<1>. DEFINE q == [Idle EXCEPT !.kind = kind, !.at = stage, !.who = u, !.name = n,
                       !.seen = row[u], !.link = link[u]]
<1>0. /\ q.kind = kind /\ q.at = stage /\ q.who = u /\ q.name = n
      /\ q.seen = row[u] /\ q.link = link[u] /\ q.want = NoAccount
  BY DEF Idle
<1>1. req' = [req EXCEPT ![r] = q]
  BY DEF Begin
<1>2. q \in Records
  BY IdleOK DEF LinkInv, TypeOK, Records
<1>3. RequestOK(q)
  BY <1>0, RowFacts, NoneAssumption DEF RequestOK, Given
<1>. HIDE DEF q
<1>. QED BY <1>1, <1>2, <1>3, RequestStep

LEMMA BeginLinkStep ==
  ASSUME LinkInv, NEW r \in Requests, NEW u \in Users, NEW a \in Accounts,
         BeginLink(r, u, a)
  PROVE  LinkInv'
<1>. DEFINE q == [Idle EXCEPT !.kind = "link", !.at = "claimed", !.who = u,
                       !.seen = row[u], !.link = link[u], !.want = a]
<1>0. /\ q.kind = "link" /\ q.at = "claimed" /\ q.who = u
      /\ q.seen = row[u] /\ q.link = link[u] /\ q.want = a
  BY DEF Idle
<1>1. req' = [req EXCEPT ![r] = q] /\ UNCHANGED <<row, mail, link, panel>>
  BY DEF BeginLink
<1>2. q \in Records
  BY IdleOK DEF LinkInv, TypeOK, Records, Kinds
<1>3. panel[a] # "unused" /\ row[u] = "active"
  BY NoneAssumption DEF BeginLink, Live
<1>4. RequestOK(q)
  BY <1>0, <1>3, NoneAssumption DEF LinkInv, RowsOK, RequestsOK, RequestOK, Given
<1>. HIDE DEF q
<1>. QED BY <1>1, <1>2, <1>4, RequestStep

LEMMA BeginPurchaseStep ==
  ASSUME LinkInv, NEW r \in Requests, NEW n \in Names, BeginPurchase(r, n)
  PROVE  LinkInv'
<1>. DEFINE q == [kind |-> "purchase", at |-> "look", who |-> Nobody, name |-> n,
                  seen |-> "none", link |-> NoAccount, want |-> NoAccount]
<1>1. UNCHANGED <<row, mail, link, panel>>
  BY DEF BeginPurchase
<1>2. CASE \E u \in Users : row[u] # "none" /\ Begin(r, "purchase", "look", u, n)
  BY <1>1, <1>2, BeginStep DEF Kinds
<1>3. CASE req' = [req EXCEPT ![r] = q]
  <2>1. q \in Records
    BY DEF Records, Kinds, States
  <2>2. RequestOK(q)
    BY DEF RequestOK, Given
  <2>. HIDE DEF q
  <2>. QED BY <1>1, <1>3, <2>1, <2>2, RequestStep
<1>. QED BY <1>2, <1>3 DEF BeginPurchase, Idle

LEMMA RegisterStep ==
  ASSUME LinkInv, NEW r \in Requests, NEW u \in Users, NEW n \in Names,
         Register(r, u, n)
  PROVE  LinkInv'
<1>. DEFINE q == [Idle EXCEPT !.kind = "trial", !.at = "look", !.who = u,
                       !.name = n, !.seen = "active"]
<1>0. /\ q.kind = "trial" /\ q.at = "look" /\ q.who = u /\ q.name = n
      /\ q.seen = "active" /\ q.link = NoAccount /\ q.want = NoAccount
  BY DEF Idle
<1>1. req' = [req EXCEPT ![r] = q] /\ UNCHANGED <<link, panel>>
  BY DEF Register
<1>2. q \in Records
  BY IdleOK DEF Records, Kinds, States
<1>3. row' \in [Users -> States] /\ row'[u] = "active"
      /\ \A v \in Users : row[v] # "none" => row'[v] # "none"
  BY DEF LinkInv, RowsOK, RequestsOK, TypeOK, Register, States
<1>6. RequestOK(q)'
  BY <1>0, <1>3, NoneAssumption DEF RequestOK, Given
<1>. HIDE DEF q
<1>7. \A p \in Requests : req'[p] = IF p = r THEN q ELSE req[p]
  BY <1>1 DEF LinkInv, RowsOK, RequestsOK, TypeOK
<1>8. TypeOK'
  BY <1>1, <1>2, <1>3 DEF LinkInv, RowsOK, RequestsOK, TypeOK, Register
<1>4. ASSUME NEW p \in Requests PROVE RequestOK(req[p])'
  <2>1. CASE p = r
    BY <1>6, <1>7, <2>1 DEF RequestOK, Given
  <2>2. CASE p # r
    <3>1. req[p] \in Records /\ RequestOK(req[p]) /\ req'[p] = req[p]
      BY <1>7, <2>2 DEF LinkInv, RowsOK, RequestsOK, TypeOK
    <3>. QED BY <1>1, <1>3, <3>1 DEF RequestOK, Given, Records
  <2>. QED BY <2>1, <2>2
<1>5. ASSUME NEW v \in Users
      PROVE  /\ mail'[v] # NoName => row'[v] = "active"
             /\ link'[v] # NoAccount => row'[v] # "none"
             /\ Given(link[v])'
  <2>1. /\ mail[v] # NoName => row[v] = "active"
        /\ link[v] # NoAccount => row[v] # "none" /\ panel[link[v]] # "unused"
    BY RowFacts
  <2>2. mail' = [mail EXCEPT ![u] = n] /\ row' = [row EXCEPT ![u] = "active"]
        /\ mail \in [Users -> Names \cup {NoName}] /\ row \in [Users -> States]
    BY DEF Register, LinkInv, TypeOK
  <2>. QED BY <1>1, <2>1, <2>2 DEF Given
<1>. QED BY <1>1, <1>4, <1>5, <1>8 DEF LinkInv, RowsOK, RequestsOK, OneOwner

LEMMA ChangeMailStep ==
  ASSUME LinkInv, NEW u \in Users, NEW n \in Names, ChangeMail(u, n)
  PROVE  LinkInv'
BY DEF LinkInv, RowsOK, RequestsOK, TypeOK, OneOwner, ChangeMail, RequestOK, Given
-----------------------------------------------------------------------------
LEMMA GotStep ==
  ASSUME LinkInv, NEW r \in Requests, NEW a \in Accounts, Got(r, a),
         req[r].at \in {"look", "create"}, panel[a] # "unused",
         UNCHANGED <<row, mail, link, panel>>
  PROVE  LinkInv'
<1>. DEFINE q == [req[r] EXCEPT !.want = a,
                    !.at = IF req[r].kind = "purchase" THEN "cabinet" ELSE "commit"]
<1>1. req[r] \in Records /\ RequestOK(req[r])
  BY RequestFacts
<1>2. q \in Records
  BY <1>1 DEF Records
<1>3. RequestOK(q)
  BY <1>1 DEF Records, RequestOK, Given
<1>4. req' = [req EXCEPT ![r] = q]
  BY DEF Got, LinkInv, RowsOK, RequestsOK, TypeOK
<1>. HIDE DEF q
<1>. QED BY <1>2, <1>3, <1>4, RequestStep

LEMMA LookStep ==
  ASSUME LinkInv, NEW r \in Requests, Look(r)
  PROVE  LinkInv'
<1>0. req[r] \in Records /\ RequestOK(req[r])
  BY DEF LinkInv, RowsOK, RequestsOK, TypeOK
<1>1. req[r].at = "look" /\ UNCHANGED <<row, mail, link, panel>>
  BY DEF Look
<1>2. CASE End(r)
  BY <1>1, <1>2, EndStep
<1>3. ASSUME NEW a \in Sought(req[r]), Got(r, a) PROVE LinkInv'
  <2>1. a \in Accounts /\ panel[a] \in Names
    BY <1>0, <1>1, <1>3 DEF Sought, Named, Live, RequestOK
  <2>2. panel[a] # "unused"
    BY <2>1, NoneAssumption
  <2>. QED BY <1>1, <1>3, <2>1, <2>2, GotStep
<1>4. CASE Sought(req[r]) = {} /\ Goto(r, "create")
  <2>. DEFINE q == [req[r] EXCEPT !.at = "create"]
  <2>1. req' = [req EXCEPT ![r] = q]
    BY <1>4 DEF Goto, LinkInv, RowsOK, RequestsOK, TypeOK
  <2>2. q \in Records
    BY <1>0 DEF Records
  <2>3. req[r].kind = "purchase" /\ req[r].link # NoAccount => panel[req[r].link] = "gone"
    BY <1>0, <1>4 DEF Sought, Live, Records, RequestOK, Given, LinkInv, RowsOK, RequestsOK, TypeOK
  <2>4. RequestOK(q)
    BY <1>0, <1>1, <2>3 DEF Records, RequestOK, Given
  <2>. HIDE DEF q
  <2>. QED BY <1>1, <2>1, <2>2, <2>4, RequestStep
<1>. QED BY <1>2, <1>3, <1>4 DEF Look

(* The panel makes an account or removes one: what is given stays given.   *)
LEMMA PanelStep ==
  ASSUME LinkInv, panel' \in [Accounts -> Names \cup {"unused", "gone"}],
         \A a \in Accounts : /\ panel[a] # "unused" => panel'[a] # "unused"
                             /\ panel[a] = "gone" => panel'[a] = "gone",
         UNCHANGED <<row, mail, link, req>>
  PROVE  LinkInv'
<1>1. TypeOK'
  BY DEF LinkInv, RowsOK, RequestsOK, TypeOK
<1>2. RowsOK'
  BY RowFacts DEF RowsOK, Given
<1>3. ASSUME NEW r \in Requests PROVE RequestOK(req[r])'
  <2>1. req[r] \in Records /\ RequestOK(req[r])
    BY DEF LinkInv, RowsOK, RequestsOK, TypeOK
  <2>. QED BY <2>1 DEF RequestOK, Given, Records
<1>. QED BY <1>1, <1>2, <1>3 DEF LinkInv, RowsOK, RequestsOK, OneOwner

LEMMA CreateStep ==
  ASSUME LinkInv, NEW r \in Requests, NEW a \in Accounts, Create(r, a)
  PROVE  LinkInv'
<1>0. req[r] \in Records /\ RequestOK(req[r]) /\ req[r].at = "create"
  BY DEF LinkInv, RowsOK, RequestsOK, TypeOK, Create
<1>1. /\ panel' = [panel EXCEPT ![a] = req[r].name] /\ panel[a] = "unused"
      /\ UNCHANGED <<row, mail, link>>
  BY DEF Create
<1>2. req[r].name \in Names
  BY <1>0 DEF RequestOK
<1>3. /\ panel' \in [Accounts -> Names \cup {"unused", "gone"}]
      /\ panel'[a] # "unused"
      /\ \A b \in Accounts : /\ panel[b] # "unused" => panel'[b] # "unused"
                             /\ panel[b] = "gone" => panel'[b] = "gone"
  BY <1>1, <1>2, NoneAssumption DEF LinkInv, RowsOK, RequestsOK, TypeOK
<1>4. PICK q \in Records : /\ req' = [req EXCEPT ![r] = q]
                           /\ q = Idle \/ q = [req[r] EXCEPT !.want = a,
                                !.at = IF req[r].kind = "purchase" THEN "cabinet" ELSE "commit"]
  <2>1. CASE End(r)
    BY <2>1, IdleOK DEF End
  <2>2. CASE Got(r, a)
    <3>. DEFINE q == [req[r] EXCEPT !.want = a,
                        !.at = IF req[r].kind = "purchase" THEN "cabinet" ELSE "commit"]
    <3>1. q \in Records
      BY <1>0 DEF Records
    <3>2. req' = [req EXCEPT ![r] = q]
      BY <2>2 DEF Got, LinkInv, RowsOK, RequestsOK, TypeOK
    <3>. QED BY <3>1, <3>2
  <2>. QED BY <2>1, <2>2 DEF Create
<1>5. RequestOK(q)'
  <2>1. CASE q = Idle
    BY <2>1 DEF Idle, RequestOK, Given
  <2>2. CASE q # Idle
    <3>1. /\ q.who = req[r].who /\ q.kind = req[r].kind /\ q.name = req[r].name
          /\ q.seen = req[r].seen /\ q.link = req[r].link /\ q.want = a
          /\ q.at = IF req[r].kind = "purchase" THEN "cabinet" ELSE "commit"
      BY <1>0, <1>4, <2>2 DEF Records
    <3>2. req[r].link # NoAccount => panel'[req[r].link] # "unused"
      BY <1>0, <1>3 DEF RequestOK, Given, Records
    <3>. QED BY <1>0, <1>1, <1>2, <1>3, <3>1, <3>2 DEF RequestOK, Given
  <2>. QED BY <2>1, <2>2
<1>6. \A p \in Requests : req'[p] = IF p = r THEN q ELSE req[p]
  BY <1>4 DEF LinkInv, RowsOK, RequestsOK, TypeOK
<1>7. ASSUME NEW p \in Requests PROVE RequestOK(req[p])'
  <2>1. CASE p = r
    BY <1>5, <1>6, <2>1 DEF RequestOK, Given
  <2>2. CASE p # r
    <3>1. req[p] \in Records /\ RequestOK(req[p]) /\ req'[p] = req[p]
      BY <1>6, <2>2 DEF LinkInv, RowsOK, RequestsOK, TypeOK
    <3>. QED BY <1>1, <1>3, <3>1 DEF RequestOK, Given, Records
  <2>. QED BY <2>1, <2>2
<1>8. TypeOK'
  BY <1>1, <1>3, <1>4 DEF LinkInv, RowsOK, RequestsOK, TypeOK
<1>9. RowsOK'
  BY <1>1, <1>3, RowFacts DEF RowsOK, Given
<1>. QED BY <1>1, <1>7, <1>8, <1>9 DEF LinkInv, RowsOK, RequestsOK, OneOwner

LEMMA PanelAddStep ==
  ASSUME LinkInv, NEW a \in Accounts, NEW n \in Names, PanelAdd(a, n)
  PROVE  LinkInv'
<1>1. /\ panel' \in [Accounts -> Names \cup {"unused", "gone"}]
      /\ \A b \in Accounts : /\ panel[b] # "unused" => panel'[b] # "unused"
                             /\ panel[b] = "gone" => panel'[b] = "gone"
  BY NoneAssumption DEF PanelAdd, LinkInv, RowsOK, RequestsOK, TypeOK
<1>. QED BY <1>1, PanelStep DEF PanelAdd

LEMMA PanelRemoveStep ==
  ASSUME LinkInv, NEW a \in Accounts, PanelRemove(a)
  PROVE  LinkInv'
<1>1. /\ panel' \in [Accounts -> Names \cup {"unused", "gone"}]
      /\ \A b \in Accounts : /\ panel[b] # "unused" => panel'[b] # "unused"
                             /\ panel[b] = "gone" => panel'[b] = "gone"
  BY DEF PanelRemove, LinkInv, RowsOK, RequestsOK, TypeOK
<1>. QED BY <1>1, PanelStep DEF PanelRemove

(* The cabinet of a buyer is read: not linked, or not there.               *)
LEMMA OpenCabinetStep ==
  ASSUME LinkInv, NEW r \in Requests, OpenCabinet(r)
  PROVE  LinkInv'
<1>0. /\ req[r] \in Records /\ RequestOK(req[r]) /\ req[r].at = "cabinet"
      /\ UNCHANGED <<row, mail, link, panel>>
  BY DEF LinkInv, RowsOK, RequestsOK, TypeOK, OpenCabinet
<1>1. CASE End(r)
  BY <1>0, <1>1, EndStep
<1>2. ASSUME NEW u \in Users \cup {Nobody}, NEW seen \in States,
             u # Nobody => seen = "active" /\ row[u] = "active",
             req' = [req EXCEPT ![r].who = u, ![r].link = NoAccount, ![r].seen = seen,
                                ![r].at = "claimed"],
             req[r].kind = "purchase"
      PROVE  LinkInv'
  <2>. DEFINE q == [req[r] EXCEPT !.who = u, !.link = NoAccount, !.seen = seen,
                                  !.at = "claimed"]
  <2>1. req' = [req EXCEPT ![r] = q]
    BY <1>2 DEF LinkInv, RowsOK, RequestsOK, TypeOK
  <2>2. q \in Records
    BY <1>0 DEF Records
  <2>3. RequestOK(q)
    BY <1>0, <1>2 DEF Records, RequestOK, Given
  <2>. HIDE DEF q
  <2>. QED BY <1>0, <2>1, <2>2, <2>3, RequestStep
<1>3. ASSUME NEW u \in Owned(req[r].name), req[r].name # NoName
      PROVE  u \in Users /\ row[u] = "active"
  BY <1>3, RowFacts DEF Owned
<1>4. req[r].kind = "purchase"
  BY <1>0 DEF RequestOK
<1>5. "none" \in States /\ "active" \in States
  BY DEF States
<1>6. req[r].name # NoName
  BY <1>0, NoneAssumption DEF RequestOK
<1>. QED BY <1>1, <1>2, <1>3, <1>4, <1>5, <1>6 DEF OpenCabinet

LEMMA EnsureNotClaimedStep ==
  ASSUME LinkInv, NEW r \in Requests, EnsureNotClaimed(r)
  PROVE  LinkInv'
<1>0. /\ req[r] \in Records /\ RequestOK(req[r]) /\ req[r].at = "claimed"
      /\ UNCHANGED <<row, mail, link, panel>>
  BY DEF LinkInv, RowsOK, RequestsOK, TypeOK, EnsureNotClaimed
<1>1. CASE End(r)
  BY <1>0, <1>1, EndStep
<1>2. ASSUME NEW w \in {req[r].want, NoAccount},
             req' = [req EXCEPT ![r] = [req[r] EXCEPT !.at = "commit", !.want = w]]
      PROVE  LinkInv'
  <2>. DEFINE q == [req[r] EXCEPT !.at = "commit", !.want = w]
  <2>1. q \in Records
    BY <1>0 DEF Records
  <2>2. RequestOK(q)
    BY <1>0 DEF Records, RequestOK, Given
  <2>. HIDE DEF q
  <2>. QED BY <1>0, <1>2, <2>1, <2>2, RequestStep DEF q
<1>3. CASE req[r].kind = "purchase"
  <2>. DEFINE w == IF \E v \in Users : link[v] = req[r].want /\ mail[v] # req[r].name
                   THEN NoAccount ELSE req[r].want
  <2>1. req' = [req EXCEPT ![r] = [req[r] EXCEPT !.at = "commit", !.want = w]]
    BY <1>0, <1>3 DEF EnsureNotClaimed, LinkInv, RowsOK, RequestsOK, TypeOK
  <2>2. w \in {req[r].want, NoAccount}
    OBVIOUS
  <2>. HIDE DEF w
  <2>. QED BY <1>2, <2>1, <2>2
<1>4. CASE Goto(r, "commit")
  <2>1. req' = [req EXCEPT ![r] = [req[r] EXCEPT !.at = "commit", !.want = req[r].want]]
    BY <1>0, <1>4 DEF Goto, LinkInv, RowsOK, RequestsOK, TypeOK, Records
  <2>. QED BY <1>2, <2>1
<1>. QED BY <1>1, <1>3, <1>4 DEF EnsureNotClaimed
-----------------------------------------------------------------------------
(* What a request writes: an account of the panel that nobody else has.    *)
LEMMA WriteStep ==
  ASSUME LinkInv, NEW r \in Requests, req[r].who \in Users, Write(req[r])
  PROVE  /\ link' \in [Users -> Accounts \cup {NoAccount}]
         /\ OneOwner'
         /\ \A u \in Users : Given(link'[u]) /\ (link'[u] # NoAccount => row[u] # "none")
<1>. DEFINE w == Written(req[r])
<1>1. req[r] \in Records /\ RequestOK(req[r]) /\ link \in [Users -> Accounts \cup {NoAccount}]
  BY DEF LinkInv, RowsOK, RequestsOK, TypeOK
<1>2. w \in Accounts \cup {NoAccount} /\ Given(w)
  BY <1>1 DEF Written, Records, RequestOK, Given
<1>3. CASE UNCHANGED link
  BY <1>1, <1>3, RowFacts DEF LinkInv, OneOwner, Given
<1>5. row[req[r].who] # "none"
  BY <1>1, NoneAssumption DEF RequestOK
<1>4. CASE link' = [link EXCEPT ![req[r].who] = w] /\ (w # NoAccount => Unclaimed(w, req[r].who))
  <2>1. \A u \in Users : link'[u] = IF u = req[r].who THEN w ELSE link[u]
    BY <1>1, <1>4
  <2>2. OneOwner'
    BY <1>4, <2>1 DEF LinkInv, RowsOK, RequestsOK, OneOwner, Unclaimed
  <2>. HIDE DEF w
  <2>. QED BY <1>1, <1>2, <1>4, <1>5, <2>1, <2>2, RowFacts DEF Given
<1>. QED BY <1>3, <1>4 DEF Write

(* A commit ends its request; what the others have read stays as it was.   *)
LEMMA CommitRequests ==
  ASSUME LinkInv, NEW r \in Requests, End(r), UNCHANGED panel,
         \A u \in Users : row[u] # "none" => row'[u] # "none"
  PROVE  /\ req' \in [Requests -> Records]
         /\ \A p \in Requests : RequestOK(req[p])'
<1>1. req' \in [Requests -> Records]
  BY IdleOK DEF LinkInv, RowsOK, RequestsOK, TypeOK, End
<1>2. \A p \in Requests : RequestOK(req'[p])
  BY IdleOK DEF LinkInv, RowsOK, RequestsOK, TypeOK, End
<1>. QED BY <1>1, <1>2 DEF RequestOK, Given, Records

LEMMA CommitStep ==
  ASSUME LinkInv, NEW r \in Requests, Commit(r)
  PROVE  LinkInv'
<1>1. /\ req[r] \in Records /\ Write(req[r]) /\ End(r) /\ UNCHANGED <<row, mail, panel>>
      /\ req[r].who \in Users
  BY DEF LinkInv, RowsOK, RequestsOK, TypeOK, Commit, Records
<1>2. /\ link' \in [Users -> Accounts \cup {NoAccount}] /\ OneOwner'
      /\ \A u \in Users : Given(link'[u]) /\ (link'[u] # NoAccount => row[u] # "none")
  BY <1>1, WriteStep
<1>3. req' \in [Requests -> Records] /\ \A p \in Requests : RequestOK(req[p])'
  BY <1>1, CommitRequests
<1>. QED BY <1>1, <1>2, <1>3 DEF LinkInv, RowsOK, RequestsOK, TypeOK, Given

LEMMA CommitDeleteStep ==
  ASSUME LinkInv, NEW r \in Requests, CommitDelete(r)
  PROVE  LinkInv'
<1>1. /\ req[r] \in Records /\ RequestOK(req[r]) /\ req[r].kind = "delete"
      /\ req[r].at = "commit" /\ Write(req[r]) /\ End(r) /\ UNCHANGED panel
      /\ row' = [row EXCEPT ![req[r].who] = "deleted"]
      /\ mail' = [mail EXCEPT ![req[r].who] = NoName]
  BY DEF LinkInv, RowsOK, RequestsOK, TypeOK, CommitDelete
<1>2. req[r].who \in Users
  BY <1>1 DEF RequestOK, Records
<1>3. /\ link' \in [Users -> Accounts \cup {NoAccount}] /\ OneOwner'
      /\ \A u \in Users : Given(link'[u]) /\ (link'[u] # NoAccount => row[u] # "none")
  BY <1>1, <1>2, WriteStep
<1>5. /\ row' \in [Users -> States] /\ mail' \in [Users -> Names \cup {NoName}]
      /\ \A u \in Users : /\ mail'[u] # NoName => row'[u] = "active"
                          /\ row[u] # "none" => row'[u] # "none"
  BY <1>1, <1>2 DEF LinkInv, RowsOK, RequestsOK, TypeOK, States
<1>4. req' \in [Requests -> Records] /\ \A p \in Requests : RequestOK(req[p])'
  BY <1>1, <1>5, CommitRequests
<1>. QED BY <1>1, <1>3, <1>4, <1>5 DEF LinkInv, RowsOK, RequestsOK, TypeOK, Given

LEMMA CommitCabinetStep ==
  ASSUME LinkInv, NEW r \in Requests, NEW u \in Users, CommitCabinet(r, u)
  PROVE  LinkInv'
<1>. DEFINE q == req[r]
<1>1. /\ q \in Records /\ RequestOK(q) /\ End(r) /\ UNCHANGED panel
      /\ q.want # NoAccount => Unclaimed(q.want, u)
      /\ row' = [row EXCEPT ![u] = "active"]
      /\ mail' = [mail EXCEPT ![u] = q.name]
      /\ link' = [link EXCEPT ![u] = q.want]
  BY DEF LinkInv, RowsOK, RequestsOK, TypeOK, CommitCabinet
<1>3. /\ row' \in [Users -> States] /\ mail' \in [Users -> Names \cup {NoName}]
      /\ link' \in [Users -> Accounts \cup {NoAccount}]
      /\ \A v \in Users : /\ mail'[v] # NoName => row'[v] = "active"
                          /\ link'[v] # NoAccount => row'[v] # "none"
                          /\ row[v] # "none" => row'[v] # "none"
  BY <1>1 DEF LinkInv, RowsOK, RequestsOK, TypeOK, States, Records
<1>2. req' \in [Requests -> Records] /\ \A p \in Requests : RequestOK(req[p])'
  BY <1>1, <1>3, CommitRequests
<1>4. \A v \in Users : link'[v] = IF v = u THEN q.want ELSE link[v]
  BY <1>1 DEF LinkInv, RowsOK, RequestsOK, TypeOK
<1>5. OneOwner'
  BY <1>1, <1>4 DEF LinkInv, RowsOK, RequestsOK, OneOwner, Unclaimed
<1>6. \A v \in Users : Given(link'[v])
  BY <1>1, <1>4, RowFacts DEF RequestOK, Given
<1>. QED BY <1>1, <1>2, <1>3, <1>5, <1>6 DEF LinkInv, RowsOK, RequestsOK, TypeOK, Given
-----------------------------------------------------------------------------
LEMMA NextLinkInv == LinkInv /\ [Next]_vars => LinkInv'
<1>. SUFFICES ASSUME LinkInv, [Next]_vars PROVE LinkInv'
  OBVIOUS
<1>1. ASSUME NEW r \in Requests, BeginAny(r) PROVE LinkInv'
  <2>1. ASSUME NEW u \in Users, BeginUnlink(r, u) PROVE LinkInv'
    BY <2>1, BeginStep DEF BeginUnlink, Kinds
  <2>2. ASSUME NEW u \in Users, BeginDelete(r, u) PROVE LinkInv'
    BY <2>2, BeginStep DEF BeginDelete, Kinds
  <2>3. ASSUME NEW u \in Users, NEW a \in Accounts, BeginLink(r, u, a) PROVE LinkInv'
    BY <2>3, BeginLinkStep
  <2>4. ASSUME NEW u \in Users, NEW n \in Names, Register(r, u, n) PROVE LinkInv'
    BY <2>4, RegisterStep
  <2>5. ASSUME NEW u \in Users, NEW n \in Names, BeginGrant(r, u, n) PROVE LinkInv'
    BY <2>5, BeginStep DEF BeginGrant, Kinds
  <2>6. ASSUME NEW n \in Names, BeginPurchase(r, n) PROVE LinkInv'
    BY <2>6, BeginPurchaseStep
  <2>. QED BY <1>1, <2>1, <2>2, <2>3, <2>4, <2>5, <2>6 DEF BeginAny
<1>2. ASSUME NEW r \in Requests, Work(r) PROVE LinkInv'
  <2>1. CASE Fail(r)
    BY <2>1, EndStep DEF Fail
  <2>. QED BY <1>2, <2>1, LookStep, OpenCabinetStep, EnsureNotClaimedStep, CreateStep,
              CommitStep, CommitDeleteStep, CommitCabinetStep DEF Work
<1>3. ASSUME NEW u \in Users, NEW n \in Names, ChangeMail(u, n) PROVE LinkInv'
  BY <1>3, ChangeMailStep
<1>4. ASSUME NEW a \in Accounts, PanelRemove(a) PROVE LinkInv'
  BY <1>4, PanelRemoveStep
<1>5. ASSUME NEW a \in Accounts, NEW n \in Names, PanelAdd(a, n) PROVE LinkInv'
  BY <1>5, PanelAddStep
<1>6. CASE UNCHANGED vars
  BY <1>6 DEF vars, LinkInv, RowsOK, RequestsOK, TypeOK, OneOwner, RequestOK, Given
<1>. QED BY <1>1, <1>2, <1>3, <1>4, <1>5, <1>6 DEF Next

(* Every request carries what the panel and the rows told it.              *)
THEOREM LinkInvariant == Spec => []LinkInv
BY InitLinkInv, NextLinkInv, PTL DEF Spec

(* Two cabinets never share an account of the panel, however the requests  *)
(* of registration, subscription, checkout and administration interleave.  *)
THEOREM OneOwnerAlways == Spec => []OneOwner
<1>1. LinkInv => OneOwner
  BY DEF LinkInv, RowsOK, RequestsOK
<1>. QED BY <1>1, LinkInvariant, PTL
-----------------------------------------------------------------------------
(* The steps that write a link are the commits of requests.                *)
LEMMA LinkWriters ==
  ASSUME LinkInv, [Next]_vars, NEW u \in Users, link'[u] # link[u]
  PROVE  \E r \in Requests :
           /\ Commits(r) /\ req[r] \in Records /\ RequestOK(req[r])
           /\ \/ (Commit(r) \/ CommitDelete(r)) /\ req[r].who = u
              \/ CommitCabinet(r, u)
<1>1. ASSUME NEW r \in Requests, End(r), req[r].at = "commit" PROVE Commits(r)
  BY <1>1 DEF Commits, End, Idle, LinkInv, RowsOK, RequestsOK, TypeOK
<1>2. ASSUME NEW r \in Requests, Commit(r) \/ CommitDelete(r)
      PROVE  req[r].who = u /\ Commits(r)
  <2>1. Write(req[r]) /\ req[r].at = "commit" /\ End(r)
    BY <1>2 DEF Commit, CommitDelete
  <2>2. req[r].who = u
    BY <2>1 DEF Write, LinkInv, RowsOK, RequestsOK, TypeOK
  <2>. QED BY <1>1, <2>1, <2>2
<1>3. ASSUME NEW r \in Requests, NEW v \in Users, CommitCabinet(r, v)
      PROVE  v = u /\ Commits(r)
  BY <1>1, <1>3 DEF CommitCabinet, LinkInv, RowsOK, RequestsOK, TypeOK
<1>4. \E r \in Requests : \/ Commit(r) \/ CommitDelete(r)
                         \/ \E v \in Users : CommitCabinet(r, v)
  BY DEF Next, BeginAny, Work, vars, Register, ChangeMail, BeginLink, BeginUnlink, BeginDelete,
         BeginGrant, BeginPurchase, Look, OpenCabinet, EnsureNotClaimed, Create, Fail,
         PanelAdd, PanelRemove
<1>5. \A r \in Requests : req[r] \in Records /\ RequestOK(req[r])
  BY DEF LinkInv, RowsOK, RequestsOK, TypeOK
<1>. QED BY <1>2, <1>3, <1>4, <1>5

(* A row is anonymized by the commit of a removal.                         *)
LEMMA RowDeleters ==
  ASSUME LinkInv, [Next]_vars, NEW u \in Users, row[u] # "deleted", row'[u] = "deleted"
  PROVE  \E r \in Requests : CommitDelete(r) /\ req[r].who = u
<1>1. ASSUME NEW r \in Requests, CommitDelete(r) PROVE req[r].who = u
  BY <1>1 DEF CommitDelete, LinkInv, TypeOK
<1>2. ASSUME NEW r \in Requests, NEW v \in Users, NEW n \in Names,
             Register(r, v, n) \/ CommitCabinet(r, v)
      PROVE  FALSE
  BY <1>2 DEF Register, CommitCabinet, LinkInv, TypeOK
<1>3. ASSUME NEW r \in Requests, NEW v \in Users, CommitCabinet(r, v)
      PROVE  FALSE
  BY <1>3 DEF CommitCabinet, LinkInv, TypeOK
<1>4. \E r \in Requests : CommitDelete(r)
  BY <1>2, <1>3
     DEF Next, BeginAny, Work, vars, ChangeMail, BeginLink, BeginUnlink, BeginDelete,
         BeginGrant, BeginPurchase, Look, OpenCabinet, EnsureNotClaimed, Create, Commit, Fail,
         PanelAdd, PanelRemove
<1>. QED BY <1>1, <1>4

LEMMA EndCommits ==
  ASSUME LinkInv, NEW r \in Requests, CommitDelete(r)
  PROVE  Commits(r)
BY DEF CommitDelete, Commits, End, Idle, LinkInv, TypeOK

(* No cabinet loses its account to a request that nobody made about it, or *)
(* to a trial or a purchase that found the cabinet linked.                 *)
THEOREM LinkIsKept == Spec => LinkKept
<1>. DEFINE Kept == \A u \in Users : link[u] # NoAccount /\ link'[u] # link[u] =>
       \E r \in Requests :
         /\ Commits(r) /\ req[r].who = u
         /\ req[r].kind \in {"link", "unlink", "delete", "grant"} \/ req[r].link = NoAccount
<1>1. ASSUME LinkInv, [Next]_vars PROVE [Kept]_vars
  <2>1. SUFFICES ASSUME NEW u \in Users, link[u] # NoAccount, link'[u] # link[u]
        PROVE \E r \in Requests :
         /\ Commits(r) /\ req[r].who = u
         /\ req[r].kind \in {"link", "unlink", "delete", "grant"} \/ req[r].link = NoAccount
    OBVIOUS
  <2>2. PICK r \in Requests :
           /\ Commits(r) /\ req[r] \in Records /\ RequestOK(req[r])
           /\ \/ (Commit(r) \/ CommitDelete(r)) /\ req[r].who = u
              \/ CommitCabinet(r, u)
    BY <1>1, <2>1, LinkWriters
  <2>3. ~CommitCabinet(r, u)
    BY <1>1, <2>1, RowFacts DEF CommitCabinet
  <2>4. /\ req[r].at = "commit" /\ req[r].who = u
        /\ u \in Users /\ req[r].kind \in Kinds
    BY <2>2, <2>3 DEF Commits, Records
  <2>5. req[r].kind \in {"link", "unlink", "delete", "grant"} \/ req[r].link = NoAccount
    BY <2>2, <2>4 DEF RequestOK, Kinds
  <2>. QED BY <2>2, <2>4, <2>5
<1>. QED BY <1>1, LinkInvariant, PTL DEF Spec, LinkKept

(* A purchase that makes an account beside one that its buyer is linked to *)
(* has read the row before that link was written.                          *)
THEOREM NoSecondAccountEver == Spec => NoSecondAccount
<1>. DEFINE Second(r, a) ==
       /\ panel[a] = "unused" /\ panel'[a] # "unused"
       /\ req[r].kind = "purchase" /\ req[r].at = "create" /\ req'[r].at # "create"
       /\ req[r].who # Nobody /\ Live(link[req[r].who])
       => link[req[r].who] # req[r].link
<1>1. ASSUME LinkInv, [Next]_vars PROVE [\A r \in Requests, a \in Accounts : Second(r, a)]_vars
  <2>1. SUFFICES ASSUME NEW r \in Requests, NEW a \in Accounts,
                        req[r].kind = "purchase", req[r].at = "create", req[r].who # Nobody,
                        Live(link[req[r].who]), link[req[r].who] = req[r].link
                 PROVE  FALSE
    OBVIOUS
  <2>2. RequestOK(req[r]) /\ req[r].link # NoAccount
    BY <1>1, <2>1, RequestFacts, NoneAssumption DEF Live
  <2>. QED BY <2>1, <2>2, NoneAssumption DEF RequestOK, Live
<1>. QED BY <1>1, LinkInvariant, PTL DEF Spec, NoSecondAccount

(* A removed cabinet is left with an account only by a request that had    *)
(* read its row before the removal, by an administrator, or by a removal   *)
(* that had read another link.                                             *)
THEOREM DeadClaimNothing == Spec => DeadClaimsNothing
<1>. DEFINE Allowed(u) == \E r \in Requests :
       /\ Commits(r) /\ req[r].who = u
       /\ IF req[r].kind = "delete" THEN req[r].link # link[u]
          ELSE req[r].seen = "active" \/ req[r].kind = "grant"
<1>1. ASSUME LinkInv, [Next]_vars
      PROVE  [\A u \in Users : ~Claims(u) /\ Claims(u)' => Allowed(u)]_vars
  <2>1. SUFFICES ASSUME NEW u \in Users, ~Claims(u), Claims(u)' PROVE Allowed(u)
    OBVIOUS
  <2>2. CASE link'[u] # link[u]
    <3>1. PICK r \in Requests :
             /\ Commits(r) /\ req[r] \in Records /\ RequestOK(req[r])
             /\ \/ (Commit(r) \/ CommitDelete(r)) /\ req[r].who = u
                \/ CommitCabinet(r, u)
      BY <1>1, <2>2, LinkWriters
    <3>2. ~CommitCabinet(r, u)
      BY <1>1, <2>1 DEF CommitCabinet, Claims, LinkInv, TypeOK
    <3>3. req[r].kind # "delete"
      <4>1. SUFFICES ASSUME req[r].kind = "delete" PROVE FALSE
        OBVIOUS
      <4>2. CommitDelete(r) /\ req[r].who = u
        BY <3>1, <3>2, <4>1 DEF Commit
      <4>3. Written(req[r]) = NoAccount
        BY <4>1 DEF Written
      <4>4. link'[u] = NoAccount
        BY <1>1, <2>2, <4>2, <4>3 DEF CommitDelete, Write, LinkInv, TypeOK
      <4>. QED BY <2>1, <4>4 DEF Claims
    <3>4. /\ req[r].at = "commit" /\ req[r].who = u
          /\ u # Nobody /\ req[r].kind \in Kinds
      BY <3>1, <3>2, NoneAssumption DEF Commits, Records
    <3>5. req[r].seen = "active" \/ req[r].kind = "grant"
      BY <3>1, <3>3, <3>4 DEF RequestOK, Kinds
    <3>. QED BY <3>1, <3>3, <3>4, <3>5
  <2>3. CASE link'[u] = link[u]
    <3>1. row[u] # "deleted" /\ row'[u] = "deleted" /\ link[u] # NoAccount
      BY <2>1, <2>3 DEF Claims
    <3>2. PICK r \in Requests : CommitDelete(r) /\ req[r].who = u
      BY <1>1, <3>1, RowDeleters
    <3>3. Written(req[r]) = NoAccount /\ req[r].kind = "delete" /\ Commits(r)
      BY <1>1, <3>2, EndCommits DEF CommitDelete, Written
    <3>4. req[r].link # link[u]
      BY <1>1, <2>3, <3>1, <3>2, <3>3 DEF CommitDelete, Write, LinkInv, TypeOK
    <3>. QED BY <3>2, <3>3, <3>4
  <2>. QED BY <2>2, <2>3
<1>. QED BY <1>1, LinkInvariant, PTL DEF Spec, DeadClaimsNothing
=============================================================================
