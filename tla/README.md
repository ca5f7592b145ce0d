# VPanfi in TLA+

VPanfi sells subscriptions to a VPN. A FastAPI process (`backend/app`) takes
orders, asks the payment provider YooKassa ("the kassa") what became of them,
extends accounts in the Remnawave panel, and rewards invitations; a React
frontend (`src`) shows the cabinet. The specifications here are about two things:
the part where money turns into days, and the part where a person gets into a
cabinet, keeps it and has it linked to an account of the panel. Both are rows of
PostgreSQL that coroutines read, leave while they wait for somebody outside, and
write afterwards. The code is one process of asyncio, so the interleavings are at
the `await`s; nothing else preempts a coroutine.

Names of the code are kept, transliterated Russian ones too (`zamok` lock,
`ozhidayushchie` waiting, `obojti` walk over, `nagrada` reward, `porog`
threshold).

## Inventory

| Component | Code (`backend/app/`) | State it keeps | Operations | Module |
|---|---|---|---|---|
| Payment lock | `services/payment_sweep.py:81-108` | `_ZAMKI`, `_ZHDUSHCHIE` in memory | enter, wait, leave, cancel | `PaymentLock` |
| Checkout | `services/checkout.py`, `api/routes/payments.py` | `payments` rows, link of a cabinet | start, confirm, needs_delivery, deliver, webhook | `Checkout` |
| Payment sweep | `services/payment_sweep.py`, `main.py:_dobor_oplat` | list of one sweep | obojti_svezhie, zakryt_ostyvshie, dovesti_platyozh | `Checkout` |
| YooKassa, Remnawave | `integrations/` | payments; accounts with tag and end | get_payment; get, create, set_expiry | `Checkout`, `Linking` (external) |
| Referral rewards | `services/referral.py`, `referral_wiring.py`, `main.py:_nagrady` | `referral_rewards` rows, `_LOCKS`, tasks | register, sync_bot, process, sweep | `Referral` |
| Administration | `services/admin.py`, `api/routes/admin.py` | - | release, reject with cascade; a trial by hand | `Referral`, `Linking` |
| Sessions | `services/auth.py`, `api/routes/auth.py` | `users`, `refresh_sessions` | register, login, refresh, reset, change, profile, delete | `Sessions` |
| External logins | `services/oauth.py` | `external_identities` | sign in, link by e-mail, unlink | `Sessions` |
| Browser | `src/api/client.ts`, `src/auth/AuthContext.tsx` | cookie, silent refresh in flight, pages loaded | load, silent refresh, logout, late answers | `Browser` |
| Trial | `services/trial.py` | `users.remnawave_user_id` | grant | `Linking` |
| Subscription linking | `services/subscription.py`, `checkout.py:_zavesti_kabinet` | the same column | link, unlink, open a cabinet | `Linking` |
| Reminders | `services/reminders.py`, `main.py:_napominaniya` | `subscription_reminders` | sweep: date, threshold, mark, letter | `Reminders` |
| Invite resolver | `services/referral_invite.py` | cache, window of lookups, in memory | resolve | `Invites` |
| Support | `services/support.py` | tickets | single statements | not modelled |
| Letters, mail, messages | `services/letters.py`, `mail.py`, `notify.py` | - | texts, sending | as events |
| Shop, payment methods, config, middleware | `services/shop.py`, `core/` | tables of the configuration | pure | not modelled |
| Deployment | `scripts/` | containers | shell scripts | not modelled |

### How they interact

* A buyer's request calls `CheckoutService.start`, which writes a `payments` row
  and gets a payment from the kassa. The kassa later posts to
  `yookassa_webhook`; its word is not believed, only used as a reason to ask.
* The webhook and the sweep of `main._dobor_oplat` both carry a payment the same
  way: under `zamok_platezha`, `confirm` and then `deliver`, each with a database
  session of its own. They share rows through PostgreSQL and locks through the
  memory of the process.
* `deliver` extends the account in the panel, commits `delivered_at`, opens a
  cabinet, writes a letter, tells the owner and offers the payment to
  `ReferralService.register`.
* A registered reward gets a background task (`zapustit_obrabotku`); the sweep of
  `main._nagrady` returns to pending ones; an administrator releases or rejects
  them. All of them end in `process`, under `_lock_for`, except that the
  administrator's requests write the row without the lock.
* `main._nagrady` also walks over the clients of the sales bot (`sync_bot`) and
  registers rewards for purchases made there.
* Registration, external logins, resets, changes of the profile and removals
  write the row of `users` and the sessions of one person with no lock between
  them; the browser's pages share the refresh token through a cookie.
* Registration, the checkout, a pasted subscription, the removal and an
  administrator all write `users.remnawave_user_id`; its unique constraint is the
  only thing they share. The reminders read it.

### What is hard

An external extension and the row that records it cannot be committed together;
a row is read before calls that take seconds and written after them; the locks
live in memory, are built on demand and thrown away; everything is retried by a
loop that has no memory of what it tried; and most requests have no lock at all.
`PROJECT.json` lists the hazards line by line. What makes each part right:

* **lock**: never two coroutines inside for one payment, no entry lost or left
  behind, whoever waits gets in;
* **checkout**: no delivery without money, one extension for one payment, no day
  that was not paid for, no day of a delivered payment lost but to an extension that
  overlaps it, a final status stays, money is not written off, the owner hears of a
  paid payment without a subscription, a paid payment is delivered in the end;
* **rewards**: one extension of each side for one reward, "granted" means given,
  a held reward gives the inviter nothing, the cap holds up to the race the code
  admits, decisions stand, a pending reward comes to an end;
* **sessions**: after a change of the password nobody who got in by the old one
  is still in; a reset link works once; a removed account stays removed;
* **external logins**: a person keeps a way in;
* **browser**: a page does not log itself out by its silent refreshes, and sends one
  at a time;
* **linking**: an account of the panel belongs to one cabinet; it is lost or
  replaced only on purpose; nobody who has an account buys a second;
* **reminders**: one letter for a threshold at most, none forgotten without a
  trace, whoever comes near the end is marked;
* **invite resolver**: the bounds of cache and window hold, an entry is evicted in
  the right order, "no link" does not outlive its time.

## Modules

| Module | What it is |
|---|---|
| `PaymentMutex` | abstract: a mutex for each payment |
| `PaymentLock` | `zamok_platezha` as written, with the queue of `asyncio.Lock`; implements `PaymentMutex` |
| `PaymentLifecycle` | abstract: what a buyer is promised for one payment |
| `Checkout` | start, webhook, sweep, kassa, panel, rows; uses the mutex `PaymentLock` implements; implements `PaymentLifecycle` while no delivery is cut in half |
| `Referral` | registration, tasks, sweep, administrators, rows, `_LOCKS` |
| `Sessions` | password, sessions, identities and reset links of one account, all requests side by side |
| `Browser` | `Sessions` composed with the pages of one browser |
| `Linking` | who is linked to which account of the panel, and everybody who writes it |
| `Reminders` | the sweep of letters, overlapping sweeps included |
| `Invites` | the cache and the window of lookups of `resolve` |
| `...Proofs` | theorems about the module they are named after |
| `MC...` | constants and symmetry for TLC |

A definition whose comment begins with "Mutant:" belongs to no specification. It
is a plausible mistake in the definition below it, kept to see that a property
notices it.

### PaymentLock

One action for each stretch of code between two awaits. `Enter` is
`setdefault`, the counter and an `acquire` that may succeed at once; `Wake` is
the return of `acquire` to the head of the lock's queue, which asyncio keeps in
order of arrival and which a new arrival may not pass while somebody waits
(`FreeForAll`); `Leave` and `Cancel` run the `finally` block (`Forget`). Lock
objects are model values: a new one is any that no variable refers to, which is
what makes "a lock was thrown away under those who wait" expressible.

### Checkout

`status`, `known`, `delivered`, `notified` are the columns of `payments`;
`linked` the number in the buyer's cabinet; `kassa`, `account`, `expiry`, `uid`
are the outside systems. A worker's `pc` names the await it stands at:

| `pc` | code | action that leaves it |
|---|---|---|
| `ask` | `get_payment` in `confirm` | `AskFailed`, `AskCanceled`, `AskMismatch`, `AskOther` |
| `claim` | `_zanyat_oplachennym` | `Claim` |
| `check` | `needs_delivery` | `Check` |
| `look` | the account is read | `LookFound`, `LookNotFound`, `PanelFailed`, `Uncaught` |
| `create`, `extend` | `create_user`, `set_expiry` | `CreateUser`, `SetExpiry`, `PanelFailed`, `Uncaught` |
| `mark` | commit of `delivered_at` | `MarkDelivered` |
| `cabinet`, `letter`, `register` | the rest of `deliver` | `OpenCabinet`, `CabinetFailed`, `Notify`, `Register` |

`loc` is what the worker remembers across awaits: the status it read, the end of
the subscription it will add to, whether the account had been paid for. `holder`
is the lock, one for each process and payment. Faults (`lost`, `crash`, `db`,
`cabinet`, `removed`) happen at most `MaxFaults` times. `Uncaught` is what leaves
`deliver` past its handlers: the panel is not configured (`PanelSet`), or
`set_expiry` is answered 404. `applied`, `claims` and `together` are history
variables that no action reads; `together` holds the payments whose extension was
between its reading and its writing while another of the same buyer was (`Joins`).
Amounts are "ours" or "another", the day is always `Today`, a payment buys `Days` =
1 day. `alert_events` is taken to name payments, so that the owner's messages go
out.

### Referral

`status`, `generous` (`inviter_days > 0`), the two marks, `attempts` and `born`
(order of `created_at`) are the columns; `friendGot` and `inviterGot` count
extensions that were applied. A registrar goes `panel` (the inviter is asked
about), `count` (`_cap_status`), `insert`; its plan `reg` is what it will write.
A worker opens a reward (`Open`: `_lock_for`), waits, enters, copies the row into
`loc` (`refresh`) and works from the copy: `friend`, `friendSave`, `inviter`,
`inviterSave`, `finish`. `Leave` drops the dictionary's entry when the worker
believes the reward is over, as `_release_lock` does, whoever waits for it.
`admin` holds a request between its read and its write. `friend_days` is taken
as positive for a first purchase, as configured. All rows count as being of the
last thirty days; `Ripen` lets the ten minutes of `_DUE_MIN_AGE` pass row by
row. One inviter invited everybody, which is the case the cap is about.

### Sessions

One account. `state`, `digest`, `ids` and `personal` (the row still bears a name
and an e-mail) are the row of `users` with its identities; `session` is
`refresh_sessions`. A password is a version: `digest` is the epoch it was set in.
A request (`kind`, `at`) begins with what its first statement finds (`Begin`
copies the row) and stands at one of:

| `at` | what it waits for | action that leaves it |
|---|---|---|
| `user` | `get_by_id` in `refresh` | `RefreshUser` |
| `email` | the search by e-mail in `_sign_in` | `SignInEmail` |
| `revoke` | the UPDATE of `_revoke_all_sessions` | `RevokeAll` |
| `commit` | its commit | the `...Commit` of its kind, or `Fail` |
| `answer`, `refused` | the response on its way | `Answered` |

PostgreSQL is at READ COMMITTED. `hit` is the set of sessions a request has
changed and not committed: a second writer of one of these waits (`RevokeAll`,
`RefreshCommit`), and the row of `users` is locked likewise once flushed
(`UserFree`). The ORM writes what its request assigned and nothing else, which is
how `ProfileCommit` gives a removed row its name back. `asOf`, `root` and `spent`
are history: the epoch of the login behind a request or a session, 0 as soon as a
change of the password has run beside it. Nothing reads them but the properties.

`Browser` extends it: `cookie` is `vpanfi_refresh`, `page` who sent a request and
`how`, and the answers of `Sessions` arrive (`Arrive`) in any order or not at all
(`Lose`). A page refreshes in two ways. `Load` is `refreshSession`, which the effect
of `AuthProvider` sends once for each page (`loaded`), through `request()` and past
`refreshInFlight`; `LoadAnonymous` is the same without a cookie. `Renew` is
`refreshAccessToken`, which any request of the page that meets a 401 starts or
joins; `refreshInFlight` keeps these apart from each other and from nothing else.
A sign-in that comes back to `AuthCallbackPage` is sent ahead of the load, effects
of children running first (`Submit`). A page loaded again is another page.

### Linking

`row`, `mail` and `link` are columns of `users`, `panel` the user name of each
account, gone or unused. A request is a record of what it has read; it goes
`look`, `create`, `claimed` (`_ensure_not_claimed`), `commit`, and a purchase
through `cabinet` (`_zavesti_kabinet`) in between. A commit writes the link only
if it differs from the one that was read, as the ORM does (`Write`), and fails if
another row has the account (`Unclaimed`, the constraint); a failed commit is
`Fail`. `panel_username` keeps e-mails apart, so an e-mail stands for the name.
A change of the e-mail is one step: it reads and writes only its own column.

### Reminders

A sweeper goes `next`, `seek` (`_uzhe_pisali`), `mark` (`_otmetit`), `send`. The
mark is committed before the letter, so `MarkFails` has the outcome in which the
commit succeeded and its answer was lost, and `Crash` any stage. `lost` is
history: marks that are known to have cost their letter.

### Invites

The clock counts ticks. `cache` is the `OrderedDict` in its order, `lookups` the
deque. A hit changes nothing, so it is no action: `Fresh` is what a hit answers
with. `_store` moves the code to the end and evicts from the front. `Timeout` is
the bound httpx puts on a lookup.

## What the runs show

| Run | Instance | States | Shows |
|---|---|---|---|
| `lock` | 4 coroutines, 2 payments, 4 lock objects | 7 361 | the invariant, mutual exclusion, no leak, refinement of the mutex, everybody who waits is served |
| `checkout` | 2 payments of one buyer, webhook and sweep | 1.2 million | paid for real, extended once, no unpaid days, the days of every delivered payment arrive (of those that overlapped, one's), first purchase offered, the owner is told, the delivery announced, final stays final, refinement of `PaymentLifecycle` |
| `checkout_overlap` | the same | trace of 18 | the days of one of two overlapping deliveries are lost |
| `checkout_recovery` | 1 payment, two processes, a fault of any kind | 154 000 | no money written off, one claim even where the lock does not help, a paid payment is delivered all the same |
| `rewards` | 1 friend with first purchase and renewal, task, sweep of one reward at a time, administrator, one fault of any kind | 116 000 | extended again only by a fault, a lock forgotten without harm, granted means given, held waits, a decision stands, pending resolved |
| `rewards_held` | 2 friends, cap 1 | trace of 22 | a held reward's friend is left without days |
| `rewards_cap` | 3 friends, two registrations at a time, cap 1 | 213 000 | the cap is exceeded by the concurrent registration at most |
| `sessions` | 1 account, 2 requests of any kind at a time, 3 tokens, 2 providers, 2 changes of the password | 1.7 million | old sessions closed, a link works once, the last way in, a removed account stays removed |
| `browser` | 2 pages, 2 requests, 3 tokens; register, sign in, refresh, delete | 827 000 | a page makes two of one token only by its load, and its silent refreshes do not refuse it its own |
| `linking` | 3 rows, 2 names, 2 accounts, 2 requests | 911 000 | a link is lost on purpose only, nobody buys a second account, a removed cabinet claims nothing |
| `reminders` | 1 person, 2 sweeps, thresholds 1 and 3, 3 days | 269 000 | one letter, marked means written, whoever is due is marked |
| `invites` | 3 codes, 2 requests, cache of 2, window of 3 lookups | 1.5 million | window, eviction, no stale "no link" |

Two runs show where the code does not do what a comment beside it says; each
checks one property, and `PROJECT.json` quotes the line.

* `checkout_overlap`: the lock is one for each payment, so the webhook of one
  payment and the sweep on another of the same buyer read one end of the
  subscription and write the same new one; the days of one payment are gone
  (`EveryDayArrives`), though `checkout.py:432` extends from that end lest a
  purchase eat paid days. `PaidDaysArrive` is what is left of the promise: the days
  of every delivered payment, of those that overlapped the days of one.
* `rewards_held`: a held reward whose friend could not be extended at once is
  never tried again (`HeldFriendServed`).

Other sentences one would like to claim fail too. Each is a definition beside the
weaker one a run checks; to see it fail, put it in the place of that run's
properties and change the bounds as said. The weaker property names the race as
the one way out it allows, so it does not catch that race: it says that there is no
other.

| Definition | Run to take, with | States of the trace | What happens |
|---|---|---|---|
| `ExtendedOnce` | `checkout`, 1 payment, `Faults = {"lost"}`, `MaxFaults = 1` | 13 | the panel extends, its answer is lost, the redelivery extends again |
| `DeliveryAnnounced` | `checkout`, 1 payment, `Faults = {"cabinet"}`, `MaxFaults = 1` | 10 | the failed cabinet rolls back, which expires the payment object; reading it raises, and neither letter nor message goes out (`checkout.py:579`, `:595`) |
| `OwnerTold` | `checkout`, 1 payment, `PanelSet = FALSE` | 7 | `RemnawaveNotConfiguredError` leaves `deliver` past its handlers (`checkout.py:671`) |
| `GrantedOnce` | `rewards`, `Faults = {"db"}` | 13 | the mark is not stored, "failed" cannot be stored in the same broken session, the next sweep extends again |
| `GrantedStays` | `rewards`, `Renewing = {}`, no fault | 12 | a rejection writes over what a worker granted after the administrator's request had read the row (`admin.py:326`) |
| `AllClosedByReset` | `sessions`, `Served = {"register", "login", "reset"}` | 10 | a login that compared the old password commits its session after the statement that closes them (`auth.py:239`) |
| `WayIn` | `sessions`, `Served = {"signin", "unlink"}` | 13 | two unlinks that leave each other's provider leave none (`oauth.py:194`) |
| `GoneForGood` | `sessions`, `Served = {"register", "profile", "delete"}` | 9 | a change of the profile gives a removed account its name back (`auth.py:348`) |
| `NoForkInOnePage` | `browser`, `Served = {"register", "refresh"}`, `MaxEpoch = 1` | 11 | the load's refresh and a silent one of the same page exchange one cookie (`client.ts:244`) |
| `NoAccountBeside` | `linking` | 8 | a purchase read the link before it asked the panel, and makes an account beside the one linked meanwhile (`checkout.py:364`) |

Two more need no definition:

* `trial.py:57` says "Наверх не бросает ничего и никогда", but the commit at its
  end raises when another cabinet holds the account by then: `Fail` of a trial.
* `reminders.py:46` says that one person's failure does not leave the others
  without a warning. A failed commit or a refused mark rolls the session back,
  which expires every row the sweep holds; the next `user.id` raises, so does the
  handler that logs `user.email`, and the rest of the sweep is dropped (`Mark`,
  `MarkFails`). The next sweep makes up for it.

### Bounds, and why they are enough

* **Payments.** Two payments are the least at which two extensions of one account
  overlap and a renewal follows a first purchase; two processes with one worker
  each are the least at which the lock does not help. Four coroutines on two
  payments have an owner, a waiter and a newcomer at one lock while the other is
  in use. One fault in `checkout_recovery` may be of any kind and at any step; the
  sweep recovers from it with no other.
* **Rewards.** The cap of one with three friends and two registrars reaches the
  cap, passes it and holds. `MaxAttempts` is 2 so that a first failure and giving
  up differ. Three lock objects for two workers are one more than can be referred
  to, so a new lock can always be had.
* **Sweeps.** `Limit` is 1 in `checkout` and in `rewards`, so that the payments or
  rewards of one sweep crowd out others. The panel and its squad are configured in
  every run; the theorems cover the rest.
* **Sessions.** Two requests give every race of two; three tokens are a session,
  its successor and the one the race makes; `MaxEpoch` 3 lets one change follow
  another, so that a link is compared with a password that is not the next one.
* **Browser.** The pages need only the requests that set or take the cookie, and
  one provider; two pages are what a single flight does not reach across, and a
  removal of the account is change enough of the epoch. `Quiet` cuts off what makes
  no difference to the pages: letters of a reset nobody serves there, and tokens
  that expire without having been exchanged, which are refused like others that are
  over.
* **Linking.** Three rows are the loser and the winner of a race for an account
  and the cabinet a purchase opens; two names with two accounts allow the first
  account to be removed and its name to get another number. Numbers are not used
  twice, so the two are all there ever are.
* **Reminders.** Two sweeps overlap; three dates around two thresholds give a
  date of which both are reached in turn. People are visited in any order and
  share nothing but the session, which a failure ends for all of them; the
  invariants were also checked with two.
* **Invites.** Three codes over a cache of two evict; the window of three and
  three ticks lets the deque forget. `Timeout` equals the time to live, so an
  answer may be as old as an entry when it is stored.

Runs use `CHECK_DEADLOCK FALSE` where the system really may come to rest: all
payments settled, all rewards decided, tokens or time used up.

Outside these instances: with two requests of administrators and three workers,
`GrantedAgainByFault` fails without a fault, because a stale release revives a
rejected reward whose lock has been thrown away under a waiter. The model has the
behaviour; one administrator is the bound.

### Fairness

`Checkout` assumes that the sweep comes round again (its loop catches every
exception), that a coroutine ends (every call has a timeout), that a payment
left unpaid expires at the kassa, and that kassa and panel do not fail the sweep
for ever; the last three of these strong. Nothing makes a buyer pay, a
notification arrive or time pass. `Referral` assumes weak fairness of the sweep,
of each task and of time; the panel may always fail there, since attempts are
counted. `PaymentLock` assumes that whoever is inside leaves and that asyncio
wakes the head of the queue. `Reminders` assumes that the sweep of the process
that stays begins again and ends (`main._napominaniya` catches every exception),
that a letter is sent or fails, and, strongly, that the panel and the database
answer at last about a person they are asked about again and again. Nobody is
made to enter, register, log in or administer, and the other modules claim no
liveness.

## What is proved

TLAPS checks these for any number of payments, friends, coroutines, processes,
rows, accounts, tokens, codes, requests, sweeps and faults, from the named assumptions on
the constants (the sets may be empty or infinite, except those that are counted:
`Tasks`, `Friends`, and `Registrars` in `CapIsKept`; and `Thresholds`). A
theorem that needs more than that says so in its ASSUME, and the reason is here.
Every invariant and every action property that a passing run checks is the
statement of a theorem; what TLC adds to them is that the hazards do occur.

* **Lock.** `IInv` says: an entry is there exactly while its counter is positive;
  the counter is the number of coroutines using the id; each of them has the
  entry's lock object; an owner is inside. Mutual exclusion alone is not
  inductive, since `Forget` keeps it only if the counter is right. From it
  `MutualExclusion`, `DictionaryClean` and `LockImplementsMutex`.
* **Checkout**, in three layers. `RowInv` (types, who holds the lock, a payment
  claimed when it leaves "pending", on the kassa's word) holds whatever fails and
  in any number of processes: `PaymentsPaidForReal`, `MoneyNeverWrittenOff`,
  `ClaimedAtMostOnce`. `LockInv` adds, for one process, that the row stays still
  under the worker that read it: `RowsStayFinal`. `OnceInv` adds, while no
  delivery is cut in half, that the panel has extended exactly the payments that
  are delivered or about to be: `PaymentExtendsOnce`, and the step-by-step
  refinement `CheckoutImplementsLifecycle`. The assumptions of each layer are in
  the theorem's statement.
* **Checkout, the days and the messages**, each from `RowInv` and an invariant
  that says who still owes what (end of `Checkout.tla`). Each theorem excludes
  exactly the faults that break its property: with two payments and one fault, of
  any excluded kind, TLC finds it violated.
  - `DaysOnTop`: the end in the panel is not before what was left and the days of
    the payments that have been extended, those that overlapped counted as one
    (`DaysDue`); a worker about to extend has read all but what overlaps, and, if
    nothing does, the end as it stands. The last is why the history `together` is
    needed: a worker that is not in it is alone with the account until it writes.
    It gives `DeliveredDaysArrive` in any number of processes; besides overlaps,
    which `EveryDayArrives` shows to lose days, only an account removed in the
    panel does.
  - `DaysPaidFor`: no end in the panel, and none that a worker has read there, is
    beyond what was left and the days of the payments the panel has extended for.
    A worker at `extend` has not, by `OnceInv`, so its own days are still to be
    counted; hence one process and whole deliveries: `OnlyPaidDays`.
  - `AnnouncementToCome`: a delivered payment whose owner has not heard is in the
    hands of a worker on its way to the letter. A crash, a failed commit or a
    failed cabinet cuts the delivery after the mark: `DeliveriesAnnounced`
    excludes the three.
  - `DeliveryToCome` with `AccountStands`: a payment that is claimed and not
    delivered is in the hands of a worker, unless the owner has been told. A
    removed account, and a panel that is not configured, let a delivery end in
    silence (`Uncaught`), so `OwnerIsTold` excludes them, as it does the crash and
    the failed commit. It holds with a squad and without.
  - `FirstToCome`: once the account of a buyer who had not paid bears the tag of a
    paid one, a payment has been offered as a first purchase, or a worker that
    remembers the account as it was is on its way to it. `FirstIsOffered` is for
    one process and no fault: a lost answer of the panel leaves the tag of a paid
    account to a delivery that begins again, and then looks like a renewal.
* **Rewards.** `RewardInv`: a mark tells of an extension; a granted row has all
  the marks it owes; the inviter has nothing for a held or unwritten row; and for
  each worker, that its copy's marks are the row's and that a row not held in its
  copy is not held again. The last is what lets `HeldWaits` survive a worker that
  works from an old copy while an administrator writes. A step of one worker
  changes a row only monotonically (`Monotone`), which is all the others need
  (`OthersKeep`). From it `RewardHeldWaits` and `RewardGrantedMeansGiven`, whatever
  fails and whoever administers, and `RewardDecisionStands`: only a step that
  began with a reading of the row before the decision changes it.
* **Rewards, the cap and the lock** (end of `Referral.tla`).
  - `Untried`: a held row has been tried by nobody; all there can be about it is
    the one task created with it, or a worker of that task with no attempt in its
    copy (`HeldIsUntried`). The next theorems need it to know that a failure does
    not give up a held row.
  - `CapInv`: `RoomTaken` counts a registration that has found room though its row
    is not inserted; beside it every other registrar has at most one. From it
    `CapIsKept`, under `NobodyRejects`: a worker inside writes "granted" over a
    rejection, and TLC finds the cap passed that way. `MaxAttempts > 1` (the code
    has 10) is needed likewise: with 1 the first failure of a held row's task
    would make it "failed", which counts. Releases are allowed; released rows do
    not count.
  - `GivenInv`: the lock of a reward is in order as long as a mark is owed
    (`LockOK`: all its workers are at the lock in the dictionary and one at most
    is inside, or every mark is there, or the row is over and only those who
    will find it so are left), a worker about to give something finds it unmarked
    in the row too (`DebtOK`), and an extension is marked, about to be, or
    accounted for by a fault (`CountsOK`). From it `LockForgottenHarmlessly` and
    `GivenOnceButByFault`, for one request of an administrator at a time; with
    two TLC finds both sides extended twice without a fault.
* **Sessions.** `SessionInv` is what a change of the password needs from those
  beside it (`RequestsOK`): a request that knows of no race has the epoch that is
  current and no other change beside it, and once a change has run its UPDATE,
  every live session with a known root is among those it closes. Neither part is
  inductive without the other. `LetterOK` says that a link is of the past, and of
  the present password only if it has not worked; `CopiesOK` what a request may
  write by what it has read. From them `OldSessionsAreClosed`, `LinkIsOneTime`,
  `WayInIsKept` and `DeletedIsGone`.
* **Linking.** `LinkInv` relates each request's reading to the await it stands at
  (`RequestOK`): a purchase that is about to make an account beside a link has
  found that link's account gone, and numbers are never given twice. From it
  `LinkIsKept`, `NoSecondAccountEver` and `DeadClaimNothing`.
* **Reminders.** `LetterInv`: between the commit of a mark and its letter one
  sweep alone holds it (`OneSender`), which is the unique constraint carried on to
  the letter. From it `OneLetter` and `MarkedIsWritten`.
* **Invites.** `InviteInv`: the deque is the end of the log of all lookups, and
  what it has lost is out of every window to come (`DequeOK`), so the lookups of a
  window are some of the deque's; an entry, and an answer about to become one, is
  no older than its lookup (`EntryOK`, `RequestOK`). From it `WindowIsKept`,
  `CacheIsInOrder` and `NoneIsNotStale`, for any limits.
* **Browser.** `BrowserImplementsSessions`: with the pages hidden, what runs is
  `Sessions`, so the theorems above hold behind a browser too. `BrowserInv` adds
  that a token on its way is known to no page, that an exchanged token is over and
  has left the cookie once its successor has arrived (`LineOK`), and that a page with a
  refresh of one sort on its way, load or silent, has no other of that sort and has
  not exchanged that token by one before (`FlightOK`), loads being once for each page
  (`LoadedOnce`). `ForkTakesLoad` alone is not inductive: two silent refreshes in
  flight would both pass it. From it `OnePageForksByLoad` and `RotationIsAccepted`.

Only model-checked: the liveness properties `EveryWaiterServed`,
`PaidIsDelivered`, `PendingResolved` and `DueIsMarked`, since the prover has no rule
for fairness, and the two runs that end in a violation. No module has a recursive
definition, so nothing is left to an induction over data.

## What is not modelled

Texts and layout of letters and messages, prices and tariffs, parsing of the
outside systems' answers, and listings: no property here is about them. The calls
of the cabinet that show a subscription or forget a device are reads of the panel
or one call to it, and keep nothing. A ticket of support is written and answered
by single statements. An administrator's extension by hand reads and writes a date
like a delivery (`NoUnpaidDays` is about that pattern), without a payment to
compare it with. The state token of an external login is signed, not stored. The
bot's and the panel's clients are modelled by what they may answer.

In the rewards: the comparison of devices (it only writes to a human),
statistics, self-invitation and the gap in days before a renewal, all of which
only decide that a registration does not begin; and the end date of an inviter's
subscription: two rewards of one inviter are under different locks and may lose an
extension to each other, the same pattern `Checkout` has for two payments.

Configuration, middleware and deployment have no behaviour of their own between
two steps of the program.

## Plan

Done, most important first: `PaymentLock`, `Checkout`, `Referral`, `Sessions`,
`Browser`, `Linking`, `Reminders`, `Invites`, each with its proofs.

What would add most next:

1. `CheckoutReferral`: `Checkout`'s `Register` composed with `Referral`'s
   registration, for two first payments of one friend delivered at once.
2. The dates of an inviter's subscription in `Referral`, with two rewards of one
   inviter overlapping.
3. `Linking`'s accounts as the accounts `Checkout` extends, so that a link that
   changes under a delivery moves the days with it.
4. An abstract life of one reward (owed, given, on record, decided), which
   `Referral` implements step by step from `GivenInv`, as `Checkout` implements
   `PaymentLifecycle`; and the proofs of what items 1 to 3 add.
