# RollPig Cloud in TLA+

RollPig Cloud (`src/rollpig_cloud`) is the shared database of several chat bots
("Plus" clients). It is a FastAPI service without background jobs: everything
happens in request handlers that run concurrently, in several threads and
possibly several instances, against MySQL or SQLite. Nearly all of its
difficulty lies in what concurrent, repeated, late and abandoned requests do to
the same rows. That is what these modules model.

## The system

| Component | State | Operations | Interacts with |
| --- | --- | --- | --- |
| Reservation gathering (`routers/roast_reservations.py`, `services/reservations.py`) | `roast_reservations` (target, mode, threshold, arrival, waiting notice, unique active slot), participants | prepare, join-by-message, waiting notices, activation and reconciliation | reads rolls and protections, consumes charges, hands rows to delivery |
| Reservation delivery (same router) | status, sender, claim token, lease time, frozen outcome, feed receipts | claim, outcome/prepare, outcome, sending, complete, release, transfer of the sender | settles feeds and protection hits, writes events |
| Protections (`routers/protections.py`, `services/protections.py`) | protections per group with a level and a baseline for each source, days in a row, breaks; a global one that groups copy | grant, replace-group | changes the threshold of waiting reservations |
| Daily rolls (`routers/daily_rolls.py`) | one roll per user and day with the growth it recorded | get-or-create, makeup, snapshot | activates reservations, feeds growth |
| Growth and feed (`services/progress.py`) | progress per user and pig, collection, streak of duplicates, one feed per user and day | apply_created_roll_progress, apply_daily_feed | rolls, reservations, events |
| Events (`routers/events.py`, `services/events.py`) | `roast_events`; no unique key, one event per reservation rests on the lock on the reservation | create, list | feed, delivery |
| Uses and charges (`services/usage.py`, `routers/cooldowns.py`) | charge bucket and force use per user | consume, recover | prepare, refills |
| Daily report delivery (`routers/daily_reports.py`) | one row per (date, group) with lease and attempts | claim, transition, snapshot | the bots send the report |
| Group refills (`services/roast_refills.py` and its router) | votes (unique active key), active users of the day | mark, prepare, bind, active, fail, complete | refills charges |
| Key usage, sessions (`services/key_usage.py`, `db.py`, `main.py`) | statistics per key, the connection pool | middleware | a second session per request |
| Runtime migrations (`migrations.py`) | the schema | start-up DDL and backfill | several instances start at once |
| Configuration, views, catalog, schemas, tools | none, or single statements | | |

### What is hard, and what correctness means

* **Delivery.** A bot process takes a lease, draws a random result, sends it and
  reports. It may die at any point, answers get lost, leases lapse while the
  process lives, three generations of clients share the rows. Correct: a result
  is drawn once and never changes; the group sees it at most once; side effects
  (feed, protection level, event) happen once; what was abandoned before the
  send boundary is recovered.
* **Gathering.** A reservation and the target's roll commit in either order, and
  a transaction may read the roll from an old snapshot. Protection may be
  granted, raised or withdrawn meanwhile. Correct: a reservation fires when and
  only when its conditions hold, none is forgotten, and uses and charges are
  consumed exactly for what they bought.
* **Daily report.** SQLite has no row locks, so two requests decide on the same
  snapshot and conditional updates keep them apart. Correct: shown at most once,
  the status tells the truth, attempts are bounded, the report does not wait for
  ever, the polling hint hides nothing.
* **Refills.** Clients' clocks decide on expiry, `/complete` is repeated, the
  threshold depends on earlier rounds. Correct: one open vote, final results, one
  refill per success, thresholds a group can reach.
* **Growth.** Rolls of today, makeups of yesterday and feeds raise the same rows
  from transactions of different dates. Correct: copies, bonus and streak count
  what happened, and each roll's recorded result is that of a serial order.
* **Protection.** The level of a row is the highest of several sources, each with
  its own baseline of breaks; sources are added, copied and withdrawn while
  reservations wait and bots hold leases on notices about them. Correct: each
  source counts its own breaks, thresholds follow, a notice is shown once.
* **Start-up.** Instances create and migrate the database at the same time and
  die half-way. Correct: uniqueness of active reservations never lapses, whoever
  serves finds everything migrated, everyone comes up.
* **Service.** Each request uses a pooled connection for its business and another
  one for statistics. Correct: requests never all wait for each other, statistics
  and data agree, the charge bucket gives what was earned.

`PROJECT.json` lists each hazard at its line with the properties aimed at it.

## Modules

    OnceDelivery              abstract: decide a result once, post it once
    ReservationDelivery       implements OnceDelivery (refinement mapping inside)
    ReservationDelivery_proof theorems about ReservationDelivery
    Gathering                 reservations, rolls, protections, uses and charges
    Gathering_proof           theorems about Gathering
    Protection                sources of a protection, thresholds, notices
    Protection_proof          theorems about Protection
    SerialGrowth              abstract: rolls and feeds one after the other
    Growth                    rolls and feeds of one user: copies, levels, streak;
                              implements SerialGrowth
    Growth_proof              theorems about Growth
    OneSender                 abstract: one go-ahead at a time, one message
    DailyReport               leases of one daily report; implements OneSender
    DailyReport_proof         theorems about DailyReport
    Refill                    the votes of one group and day
    Refill_proof              theorems about Refill
    Service                   requests, connections, statistics, charge bucket
    Service_proof             theorems about Service
    Startup                   instances that migrate one database
    Startup_proof             theorems about Startup
    MC*                       symmetry, constraints and instances for TLC

Composition is by interface: what one module decides is a choice in the other.
`Gathering` fires reservations that `ReservationDelivery` delivers;
`Protection` has the rows behind the level that `Gathering` uses, and the leases
of the notices it registers; `Growth` has the rows behind the feed that
`ReservationDelivery` settles and the roll that `Gathering` sees.

In every component module some operators are commented "Mutant of X". They are
plausible bugs of the definition X that follows them, kept to show that a
property would notice; the specifications do not use them.

### OnceDelivery

What a delivery promises a group: `decided` gets a value once, `posted` follows
it once, with the same value.

### ReservationDelivery

Delivery of rows from "waiting" to "recorded". A handler reads the row `FOR
UPDATE`, decides on what it read, and commits once; the commit is the action:

| Action | Code |
| --- | --- |
| `Activate`, `TakeOver`, `UpdateDeliveryCapability` | `services/reservations.py`: `_activate_reservation`, super takeover, `_update_delivery_capability` |
| `ProtectionChange` | `services/protections.py`: `sync_pending_protection` |
| `Claim`, `LeaseLapse` | `/claim`; `claimed_at` falling behind the timeout puts a row in `stale` |
| `PrepareOutcome` (with `Freeze`, `FeedNow`), `SaveOutcome`, `MarkSending`, `Complete`, `Release` | the endpoints of the same names |
| `LegacyEvent`, `RoastFeed` | `/events` of an old client, and of an immediate roast |
| `Post`, `Drop`, `Hear` | the bot process: external |

The variables `status`, `bot`, `claimToken`, `outcome`, `feedResults`,
`operator` are the columns; `capable` is the sender's gathering capability,
`gathering` the rows with a protection threshold, `shielded` the rows whose
target is protected now. `events`, `fed` and `growth` stand for their tables.
A bot process is known by the token of its lease: `phase`, `of`, `holder`,
`kind` (client generation), `said` (the result it carries) are what that process
knows. Every endpoint may run with a token of any age, so late and repeated
requests need no actions of their own; `heard` is whether the answer arrives. A
refused or rolled-back request changes nothing and is no step.

What a handler decided on is its parameter `v` (`View`). With `RowLocks`, as on
MySQL, `Readable` offers the row as it is. Without, as on SQLite, which ignores `FOR
UPDATE`, it also offers every version the row has had (`earlier`, kept by
`Remember`): a request may have read it and taken its time, and the ORM then
writes the columns it changed by the row's id. How long ago a request can have
read is not bounded here, which only adds behaviours. That is how `/sending`, `/outcome`,
`/complete`, `/release`, `/events`, an activation and the `/claim` of old clients read
on SQLite. Takeovers, protection changes, `/outcome/prepare` and the
`/claim` of v2 clients (`ClaimReads`) write first, which takes SQLite's write lock,
and decide on the row as it is on either database.

When a row fires is a choice here and decided in `Gathering`. A settlement of feeds
is one step here; what happens between its reads and its inserts is in
`Growth`.

### Gathering

Reservations against one target on one day. `row` is the sequence of
reservations, `fire` the contribution of each participant (2 when boosted),
`need` the threshold (0: unprotected), `cost` what its creation consumed; `prot`
is the level of the group's own protection row, `global` that of the row of
`__all__`, and `Shield` the one a request finds; `rolled` the target's daily roll. A request is a process (`req`) with the transactions of the
code: `PrepareBegin` reads the roll without a lock - on MySQL from the
transaction's snapshot, so it may be stale when `PrepareRun`, `PrepareCreate`,
`PrepareDenied` or `PrepareConflict` acts under the row lock; the reconciliation
of `/prepare` and of the roll is a second transaction, `Reconcile`, and a process
may die before it (`Abort`, remembered in `crashed`). `Holders`, `GlobalHolders`,
`MayLock` and `MayRead` are the locks on the two protection rows, those of MySQL. `JoinBegin`, `JoinRun` are a reply to the
notice; `Roll`, `Makeup`, `SetProtection`, `Settle`, `Close`, `TakeNotice`,
`ReturnNotice` are the handlers of the same purpose.

Who follows which protection row: `SetProtection` writes the row of a group, and the
reservations that wait in this group follow (`sync_pending_protection`). `SetGlobal`
writes the row of `__all__`, and no reservation follows, because none is of that
group. A request of a client that gathers leaves a copy of the row of `__all__`
in its group (`CopyGlobal`), and reservations that wait there already do not follow the
copy, either; `late` remembers such groups until their row is written again.
`NeedTracksProtection` is therefore about the group's own row and excepts `late`.

Abstracted: message binding, the group roll a reply inserts, the race of two
first uses of the same user, and everything about delivery except that a fired
row is settled and closed.

### DailyReport

One `daily_report_deliveries` row, a clock, and workers. A request reads in one
step (`ClaimRead`, `TransitionRead`) and writes conditionally in another
(`ClaimWrite`, `TransitionWrite`): what SQLite does, and a superset of what the
row locks of MySQL allow. Claimers, outside the repository, crash, lose answers
and repeat themselves; they report `retry` only for a rejected post, `sent` only
for an accepted one and `uncertain` when they do not know (`Asks`).

### OneSender

What that promises the group: `permit`, the go-ahead of one lease, may be given back
only while nothing was `shown`, and one message is shown, with it. `DailyReport`
maps `permit` to the token of a row that is sending, sent or uncertain (`Permit`)
and `shown` to itself. `OnceDelivery` would not do: its decision is final, and a
daily report whose post was rejected goes on to another lease.

### Refill

The votes of one group and day. A request reads in one step (`PrepareRead`,
`BindRead`, `FailRead`, `CompleteRead`, `Lookup`) and commits in a later one
(`PrepareCommit`, `Commit`). With `RowLocks` a vote that was read is locked until
then, as on MySQL; without, it is not, as on SQLite, where the ORM writes the row
by its id. When no vote is open there is no row to lock and the unique
`active_key` decides; MySQL's gap locks would exclude some of these races and are
not assumed. `PrepareAgain` is the retry after such a conflict. An expiry by
`/prepare` and the insert are one transaction. When SQLite expires and inserts,
the members are really read after the write lock is taken; the model reads them
earlier, which only adds behaviours. Clients send their own `now_ts`, up to
`Skew` off. `refills` counts `_reset_roast_charges` per user.

Requests that would change nothing are left out in `DailyReport` and `Refill`.

### Growth

One user, yesterday and today. `roll` and `feed` are the rows of the two days,
with what they recorded; `owned`, `progress`, `streak` are the collection, the
progress rows (0 copies: none) and the draw state (-1: none). A request is a
transaction: `RollBegin` sees no roll and, on MySQL, takes the snapshot from which
the collection is read later; `RollGrow` reads progress and draw state `FOR
UPDATE` and computes; `RollCommit` flushes and commits, or `Clash` finds a unique
key taken, and `RollLost` answers with the winner's roll or retries, up to
`MaxTries`. `FeedBegin`, `FeedGrow`, `FeedCommit`, `FeedLost` are a feed,
`SnapshotRead` and `SnapshotWrite` the appearance snapshot, `Repeat` a request that
finds its roll, `MarkSeen` the request that registers a user in a group by itself.
`grouped` says who put the group roll of a day there: `/get-or-create`, or
mark-seen, which looks at no roll. `OnePigPerDay` says that a made-up roll never
registers itself; mark-seen may still do it for a made-up day. With `RowLocks` a row that was read `FOR UPDATE` is locked until
the end; a row that is not there is not (gap locks would only exclude
behaviours). Without, as on SQLite, a transaction has the database from its first
write: a makeup writes its roll first, get-or-create reads first. `old` is a
history variable: the pigs owned before.

### SerialGrowth

The same rolls, feeds and snapshots without transactions: each is one step, and the
growth it records is that of the moment. `copies`, `bonus` and `duplicates` are
what the rows of `Growth` stand for (`Copies`, `Bonus`, `Duplicates`): a pig in the
collection without a progress row was drawn once, and without a draw state there
is no streak. `RollCommit` is a `Draw`, `FeedCommit` a `FeedPig`, `SnapshotWrite` a
`Dress`; reads, conflicts and retries do not show.

### Protection

One user in one group on one day, and the active reservation against the user.
`shield` is the row of the group (levels and baselines of the sources, days in a
row, breaks), `global` the level of the row of `__all__`. `List`, `Unlist` and
`ListGlobal` are `/replace-group` with and without the user and for `__all__`,
`Grant` is `/grant`; `CopyRow` is the copy that any prepare of a new client leaves
behind. `Becomes` writes the row and lets the reservation follow
(`sync_pending_protection`). A transaction holds its rows (SQLite: the database)
and is one step. `TakeNotice`, `Sending`, `Sent`, `Release` are the requests about
a notice; a client may act late, twice, or not at all, `Lapse` is its lease running
out, and lost answers are alternatives of these actions. Only the latest holder of
a notice can match its token, so the token is the holder. Histories: `worth`
counts, source by source, the level that its own breaks give; `shown` counts how
often the clients in `mine` showed the latest notice; `late` says that the copy
of `__all__` was taken while the reservation waited, which the code does not
announce to it.

The source `pig` has a place in the code's texts but nothing writes it. Changes of
`__all__` do not reach reservations that wait in groups with a row of their own.
Takeovers, and the folding of a force use into double fire, are `Gathering`'s.

### Startup

Instances that run `init_db` on one database. `roast_reservations` stands for the
tables: `cols` of the columns it should have, `keys` its unique constraints; one
user stands for the rows to be migrated (`charges`, `active`), `freed` and `sure`
for the two updates of old reservations. Each statement that commits by itself is
a step, and a read whose result is used later is a step of its own (`Boot` and
`CreateAll`, `UsageRead` and `UsageWrite`, `ColumnThere` or `AddColumn`, `ReadKeys`
and what follows). On MySQL the constraint is exchanged under the named lock in
two DDL statements, on SQLite in one transaction that copies the table. `Crash`
ends an instance between any two steps, `Timeout` ends a start that waits too
long; `Write`, `Mark`, `Spend` are what goes on meanwhile.

A charge that a running instance spends between `UsageRead` and `UsageWrite` of
another is overwritten by a full bucket. The model has that race; nothing in the
repository promises otherwise, and `ReadyIsMigrated` only asks for a bucket.
Old processes that complete reservations after `FreeSlots` would leave their slot
taken; processes of the version before only add rows here.

### Service

`Worker`s handle requests of four kinds: a roast or force use
(`routers/cooldowns.py`), a mark-seen (`routers/group_rolls.py`), and any GET. All
carry one key and concern one user, where they meet. A session gets a connection
at its first statement (`Connect`) if the pool has one; `TakeLock` takes the row
locks of the transaction in the order of its statements (`Planned`); it ends in
`Roast`, `ForceUsage`, `MarkSeen`, `Read`, a conflict (`ClashOnUsage`, retried once;
`ClashOnSeen`, not retried) or `Fail`. `Close` is the end of the dependency, with
`scope="function"` before the middleware's statistics, which take a connection of
their own (`Connect`, `Count`, or `Uncounted` when they fail). `grants` is the
history of decided roasts, with the time their bot sent, in the order of
commits, which is not always the order of times.

`ClashOnUsage` also stands for the deadlock of InnoDB's gap locks, which nobody
retries. A GET keeps its connection until `Close`. On SQLite the rows of
`usage.py` are not locked: the lost updates that follow are those of
`growth_sqlite`, and there is no run for them here.

## Runs

| Run | Shows |
| --- | --- |
| `delivery` | With row locks, one reservation, two bots, two leases, all client kinds: at most one post, of the frozen result; leases agree with the row and stay in the right hands; one hit, one event, one growth per user and day; a row that is sending is never recovered; `OnceDelivery` is implemented; a lease abandoned before sending is handed out again. |
| `gather_one` | Old and new clients, two requests at once, rolls, makeups, protection changes: fires with its fire and only then; nobody is stranded; thresholds follow protection; notices only for rows that wait; force use and charges are consumed exactly for what was created or boosted. |
| `gather_live` | Every waiting row learns of the arrival even if a process died between its two transactions. |
| `gather_retry` | *Violation*: the retry after a conflict may conflict again. |
| `report` | Two workers, two claimers: one go-ahead at a time and one message (`OneSender` is implemented), truthful and final status, attempts count leases; the hint hides nothing; the report leaves the waiting states. |
| `refill` | Two workers with row locks, three votes: one open vote, final results, one refill per success, each lost try means a vote of its own, thresholds in reach; an abandoned vote ends. |
| `refill_sqlite` | *Violation*: without row locks a committed success is overwritten. |
| `growth` | Two workers with row locks: copies, bonus and streak count what happened; recorded results are serial; feeds are earned; one pig per day; `SerialGrowth` is implemented. |
| `growth_sqlite` | *Violation*: a roll overwrites the growth of a makeup. |
| `protection` | Every order of grants, lists, withdrawals, copies and breaks: each source counts its own breaks; thresholds follow; a notice is shown once and tells the threshold that holds. |
| `startup` | Two instances on either backend, from an empty, old or half-migrated database, one of which dies: one unique constraint always, serving means migrated, no reservation lost, all come up. |
| `service` | Two requests at a time with one or two connections: some request can always go on; statistics agree with data; the bucket gives what was earned. |

Type invariants are conjuncts of `Consistent`, `NoticeMeansWaiting`,
`AttemptsCountLeases`, `OneOpenVote`, `GrowthMatchesHistory`, `LevelsTellHistory`,
`ReadyIsMigrated` and `CountsTellHistory`.

### Bounds

* Delivery: two tokens are an original lease and a re-claim; the row keeps only
  the current token and old tokens only differ by phase, so a third lease meets a
  row that the second one can also meet. Two bots are a sender and the one it is
  transferred to. Two results tell "same" from "other". Feeds compete between the
  reservation and immediate roasts of its members; several reservations that share
  members are covered by the theorem `GrowthIsAccounted`. The theorems have no
  bounds. `RowLocks` is TRUE; what is different without is under Findings.
* Gathering: two requests are enough for every pairwise race, and the row and the
  protection changes are further actors. One group and one row (`MaxRows`);
  `LevelCap = 1` gives thresholds 1 and 2; `Everywhere` are the levels the row of
`__all__` may take, none or 0, enough to be there, copied and withdrawn; `MaxMembers` is 2, and 1 in
  `gather_live`, so that the limit is reached.
* DailyReport: one retry delay of one tick means two attempts, the least that has
  a first, a last and a lapsed one; the cutoff is at 1, the lease times out after one
  tick and the deadline is at 4, where the clock stops, so that a lapsed lease can
  be taken over before the deadline. Tokens are interchangeable and drawn in
  order, and a request whose outcome does not depend on the time carries none.
  `Lag` (a claim's clock read before its row read) is 0.
* Refill: `MaxTries` is 3 in the code and 2 in `refill`, so that three votes let
  one prepare lose all its tries; 3 in `refill_sqlite`. Three users are the least
  that may vote; one is a manager, one a bot account that clients exclude. Votes
  last one tick and clocks differ by one, so that a vote is expired for one client
  and open for another. Thresholds are compared up to a group of 48 (all caps are
  reached by 37), in the rounds the run reaches; they are the threshold functions
  of the code, not the `required` a vote has stored.
* Growth: two days and two pigs give rolls of the same pig and of different ones;
  two workers are one pairwise race, repeated as often as rolls, feeds and
  snapshots remain. `Marked`, the days that clients mark as seen, is yesterday, the
  one that can be made up. `MaxLevel = 2` is reached by two rolls and a feed, so that the
  cap is met from below and from above. `MaxTries` is 3 in the code and 2 here: a try
  that clashed over growth starts again from the committed rows, so a third one is
  the second one again; the theorems are about any number. Progress and collection start in every
  combination old databases have.
* Protection: levels 1 and 2 are granted and 3 is the cap; two breaks; fire up to 3
  meets every threshold but the highest. Two clients are a holder and the next.
  Yesterday's row has one day in a row.
* Startup: two instances, two deaths, two columns, one reservation written
  meanwhile. A third instance only repeats what the second one does to the first:
  all they share is the database and one lock.
* Service: two workers; four requests and four ticks empty a bucket of two, whose
  recovery takes two ticks, and refill it to the cap; one fault. The lag of a
  bot's time (`Skew`) is one tick. The pool has one connection or two, the two
  cases in which two workers can be short of one.

### Fairness

* `delivery`: time passes (`LeaseLapse`) and the v2 client of the row's own
  bot polls `/claim`; nothing is assumed about a bot once it holds a lease. The
  safety properties of the run need no fairness.
* `gather_live`: a request that started ends (weak), and the target's client asks
  for the roll again (strong, because requests of others come between): the
  server's own reconciliation may die, the next request repairs it.
* `report`: the clock runs, workers answer (weak), and some poll is taken up whenever
  workers are free again and again (strong; no claimer in particular is favoured).
* `refill`: the clock runs, requests that read go on, and the bot asks for
  the open vote with a clock that is not behind; nothing in the service expires
  votes by itself.
* `startup`: every instance goes on and is started again (weak). Deaths are finite, and
  whoever holds a lock goes on until it serves and takes it no more, so timeouts
  are finite, too.
* `service` needs none: `SomeRequestProceeds` says that a step of some request in
  progress is enabled.

## Findings

* `gather_retry`: the comment at `routers/roast_reservations.py:176` says that a
  unique-key conflict is rolled back and retried as joining the existing
  reservation. The retry looks only for waiting rows (or any active row for a
  super request); an active row that fired unprotected is not found, so a request
  with an old snapshot of the roll inserts again, conflicts again and ends in
  `RuntimeError`. Nothing it consumed is kept.
* `refill_sqlite`: `README.md` says `/complete` restores charges and completes the
  request atomically, and `migrations.py:193` that SQLite is supported. There,
  `with_for_update` does nothing, and a `/fail`, an expiry or a second
  `/complete` that read the vote as open overwrites the success, or refills again.
  The daily report guards against this by conditional updates, and `/prepare` of
  reservations, `/outcome/prepare`, the `/claim` of v2 clients and the protections by a
  write before the read; the refills do neither.
* `growth_sqlite`: the docstring at `routers/daily_rolls.py:33` says that growth
  that competes across dates is rolled back and retried, and a test runs a roll and
  a makeup at once. On SQLite get-or-create reads the progress without a lock before
  its first write, so a makeup that commits in between is overwritten by a plain
  `UPDATE`; no key is violated and nothing is retried. On MySQL the row lock (or,
  when the row is not there, the unique key) excludes it: run `growth`.

The delivery of reservations has the hazard of `refill_sqlite`, too. With
`RowLocks = FALSE` and otherwise as in `delivery.cfg`, TLC finds short violations of
`Consistent`, `SettledOnce`, `SendingIsFinal`, `FrozenForever`, `ImplementsOnce` and
`FeedAccounting`: a `/sending` that read a lease before it was taken over lets the old
process post as well as the new one; a `/release` that read `prepared` undoes
`sending`; of two `/outcome` the later replaces the result; two `/complete`, or a
`/complete` and an `/events`, write two events, which no unique key forbids.
`LeaseInRightHands` holds there, too, and is proved. The mutants of `SettledOnce`,
`SendingIsFinal` and `FrozenForever` are this change (`ReadsLockNothing`).

## Proofs

`ReservationDelivery_proof` proves, for any reservations, bots, tokens, users and
results, under `ConstantAssumption` only (there is a reservation, a bot and a
success; the `No...` values are not members; the members who eat are users):

* With and without row locks: `TypeCorrect`, and `HandsAreRight`, that is
  `LeaseInRightHands`.

and with `RowLocks` as an assumption, which the violations above show to be needed:

* `AgreementHolds`, that is `LeaseRowAgreement`.
* `ConsistencyHolds`, types and agreement together, as the run states it; from it
  `SendsOnce`, `SendsTheFrozenResult`, and as action properties
  `ResultsAreFrozen` and `SendingStaysFinal`.
* With a conjunct of their own added: `HitsOnce`, `GrowthIsAccounted`,
  `EventsOnce`; `SettlesOnce` joins what one property of the run joins.
* `DeliversOnce`: `Spec => OnceDelivery!Spec` under the mapping
  `decided <- outcome`, `posted <- Shown`.

`LeaseInRightHands` holds on stale reads, because sender, operator and threshold are
only written by requests that write first, and none of them once a row that is open to
old clients has fired. The invariant `Hands` says so of every version of the row that a
request may have read (`Settled`): if it did not wait, the row does not wait, and if it
was open to old clients, the row still is and has the same sender. It adds that the
lease a row is in belongs to its sender (`Held`).

The other proofs start from `StepsAreLocked`: where `FOR UPDATE` locks, each handler
decides on the row as it is (`LockedStep`). `AtMostOneSend` alone is not inductive: it does not exclude that an old lease is
allowed to post while the row has moved on. The strengthening is
`TypeOK /\ LeaseRowAgreement`: a process that may post owns the row's token, and
its row is sending; a process whose result was confirmed carries the frozen
result; a row has a token exactly when it is leased, and a result exactly when it
is past `processing`. Two processes that may post then own the same token. Each
step lemma (`NextType`, `NextAgreement`, ...) has one step per action. `DeliversOnce`
maps `Freeze` and `SaveOutcome` to `Decide`, `Post` to `Post`, and everything else
to a stutter. The lemmas `ClaimLeases`, `HearType`, `FreezeType` and
`RecordEventType` state once what the shared operators do.

`DailyReport_proof` proves, for any workers, claimers, tokens, delays, lease time,
cutoff, deadline and lag, under `ConstantAssumption` (delays and the lease time are
positive, the cutoff is before the deadline): `ShownOnce`, `TruthIsTold`,
`LeasesAreCounted` (with `TypeOK`), `HintsCover`, and as an action property
`SettledStays`; with `ReportHasOneSender` below, all that `report` checks except liveness.
`ShownAtMostOnce` is not inductive: requests act on a row they read earlier. The
strengthening `TypeOK /\ Sound` says of the row that its token is issued and that a
claimed row was not posted (`RowSound`); of a token that whoever may post with it
has posted nothing yet and holds a row that is sending, and that a token the group
saw is the row's (`TokenSound`); and of every request under way that what it saw
of a lease, or was told by the claimer, is still so (`JobSound`). The last is where
a restart matters: a process that restarted after it posted is not answered the same
lease again, because the answers it could have heard died with it. There is one
lemma per action; `NextSteps` adds what a step does to the number of leases
and to a settled report. `ReportHasOneSender` is `Spec => OneSender!Spec` under the
mapping `permit <- Permit`: the report of `sending` is a `Grant` or, repeated, a
stutter, a `retry` is a `GiveBack` (`MovedSends`), a post is a `Show` (`PostSends`);
nothing else, claims and failures in particular, touches a row with a go-ahead
(`NotGoing`, `FailSends`). `TokenSound` and `JobSound` give each of these its guard: who
may still post holds the go-ahead and nothing was shown, and a `retry` under way is
of a lease that showed nothing. `ShownOnce`
follows from it for the group and is proved besides.

`Startup_proof` proves `OneIsThere` and `MigrationCompletes` (with `TypeOK`) for any
number of instances, columns, crashes and reservations, under `StartupAssumption`.
The invariant says, for each instance, that what its past steps did is still done
(`Done`; nothing undoes a step), and that it holds the lock while it exchanges the
constraint or the table, so that what it saw is current (`Exchanging`).

`Refill_proof` proves, for any votes, workers, users, tries, lifetime and skew, under
`ConstantAssumption` (votes and users are finite sets), on two levels. `Base` holds
with and without row locks: `active_key` is held by the open vote, there is no
other, and a vote that beat a try of `/prepare` has ended when the next try commits, or is
expired by it (`JobSound`). No late write gives an ended vote its key back, whichever
result it leaves, so `OnlyOneVote` (with `TypeOK`) and `EachTryHasItsRival` hold on
SQLite, too. With `RowLocks` as an assumption, `Held` adds that the vote a request
works on is open and that no two requests work on the same one: the lock taken by
the read keeps what was read true until the commit. From it `RefilledOnce` and
`ResultsStand`; `refill_sqlite` shows that the former fails without, and so that the
assumption cannot be dropped. `RoundsWinnable` is about rounds of any number and
groups up to `MaxGroup`.

`Gathering_proof` proves, for any groups, users, processes, numbers of rows and
levels of protection, under `ConstantAssumption` (the `No...` values are not members,
bounds are numbers): `FiresWithItsFire`, `NoStrandedReservation`,
`NeedTracksProtection`, `NoticeMeansWaiting` (with `TypeOK`), `UsesBuyRows`. The first
is not inductive by itself: a request fires or creates a row from a roll that it read
before it had a lock. The invariant `Inv` adds that a roll a request has seen is there
(the snapshot may be old, but not ahead; `RequestSound`), that a client which cannot
gather creates an ordinary row only while the protection row it holds locked says that
the target is unprotected, that a row waits with its target for fire alone
(`RowSound`), and that a group has one active row (`OneActive`).
`Guarded` is what every step owes the protection of a target: rows that wait still ask
for the right fire, and a request that creates a row still finds what it read, for it
holds a lock on the row it found, the group's or that of `__all__`. `Paid` counts rows
against consumed uses; a step either creates one row and consumes for it, or keeps
the terms of all rows (`SameTerms`, `StaysPaid`).

`Protection_proof` proves, for any clients, levels, days in a row and breaks, under
`ProtectionAssumption`: `LevelsTellHistory` (with `TypeOK`), `NeedFollowsLevel`,
`NoticesAreTimely`. For the levels the invariant adds that no baseline is ahead of
the breaks (`Counted`); `BreakRaises` and its like say what each write of the row does
to every source. For the notices it adds that the holder's threshold is that of the
reservation, which has its target and waits (`LeaseSound`), and that at most one
client is about to show the latest notice, none while it can still be taken
(`ShownOnce`).

`Growth_proof` proves on two levels, for any pigs, workers, tries and levels. `Base`
holds with and without row locks: what a transaction carries is what it read and
computed (`Faithful`), and from it `OnePigPerDay` and `FeedsAreEarned`. With
`RowLocks` as an assumption, `IInv` adds that locked rows are locked by one
transaction (`LocksApart`), that what was read of them, or of rows that were not
there, is still true or ends in a unique-key conflict (`UpToDate`), that each pig's
row is its history (`PigSound`), and that the last of the two rolls left the streak and
the copies (`Serial`): `GrowthMatchesHistory`, `RollsAreSerial`, `RollsAreKept` (which the run checks as a
part of the refinement). `GrowthIsSerial` is `Spec => SerialGrowth!Spec`, that is
`ImplementsSerial`: the initial rows map to an initial state, and of the steps only
commits show (`CommitDraws`, `CommitFeeds`, `CommitDresses`, `RowsUnseen`). What it needs
is that a commit writes the growth of its own moment: `UpToDate` says that the copies a
roll carries, and the level a feed carries, are those of the present rows, or the
unique key rejects the commit; `Faithful` that a makeup is of yesterday;
`CopiesMeanOwned` that `copies` is 0 exactly for a pig never drawn, which is where rows of the
time before progress count. The
assumption cannot be dropped: `growth_sqlite` violates `GrowthMatchesHistory`.

`Service_proof` proves, for any workers, pools, settings of the charges, lags of the
clocks and faults, under `ServiceAssumption`: `CountsTellHistory` (with `TypeOK`),
`BucketIsExact` and `NotAllWait`. The first needs that a request has its status exactly since it left
the handler (`Shape`) and that a mark-seen which found its row still would (`Looked`).
The second is about every sequence of roasts in the history, and its invariant
`Metered` is a balance: with `g` roasts granted since roast `i`, `c` charges left and
`u` the time up to which recovery is counted, `Recover * g + Recover * c - u` is at
most `Recover * MaxCharges` less the time of some roast since (`Bounded`), and exactly
that of roast `i` when the bucket was last full at `i` (`Reached`). A roast keeps the
balance or, when it finds the bucket full, starts it anew (`ContinueBalanced`,
`RefillBalanced`); `LastExact` draws the two inequalities from it, and they are about
the past, so later roasts do not touch them (`ExactStays`). For the third the invariant
`Held` says that whoever has a connection or a lock is in a transaction or about to
close it, and that the rows it has locked come before those it still plans to lock
(`Rank`); then a cycle of waiting would have to climb the three ranks for ever
(`WaitsForLater`), and whoever waits for a connection waits for a transaction.

Only model-checked: all liveness (`AbandonedLeaseRecovered`, `ArrivalIsNoticed`,
`NeverStuckOpen`, `VoteGivesWay`, `ComesUp`) and the half of `SomeRequestProceeds` that
says that a request which waits for nothing (`GoesOn`) has an enabled step: fairness
and `ENABLED` are outside the prover. Every other property of the passing runs is
proved.

## Plan

Done, in this order: `OnceDelivery`, `ReservationDelivery` and its proofs,
`Gathering`, `DailyReport`, `Refill`, `Growth`, `Protection` (with the leases of
waiting notices), `Startup`, `Service`, and the proofs about each.
Then the refinements of `SerialGrowth` and `OneSender`, and the part of `Refill` that
needs no row locks.

Open: properties of Refill, Growth and ReservationDelivery on SQLite stop at the
violations under Findings; once those requests take the write lock before they read,
the runs `refill`, `growth` and `delivery` and the theorems under `RowLocks` say what
should hold there.

## Not modelled, and why

Configuration and authentication read settings and compare a key. Views (draw
state, collections, groups, statistics) only query. The catalog is a single
upsert. Schemas are field validation: the models take validated requests. The
scripts in `src/tools` are run by hand, once. Within modelled components:
bind-message and the count of unrolled attempts (single statements on rows nobody
else reads for a decision), the display fields of events, settings of charges that
differ between bots, and `next_recover_seconds`. Names, texts,
appearance snapshots and the contents of events do not influence control.
