# Gym equipment issue tracker: TLA+ models and proofs

The program is a FastAPI service: members of a gym report issues with its
equipment, staff and managers work them off, and the status of each asset follows
its open critical issues. It keeps its data in PostgreSQL (SQLAlchemy, one
asynchronous session per request) and caches the equipment list in Redis.

This directory holds models of everything in it that changes stored state, the TLC
runs that check them on small instances, and proofs, checked by TLAPS, of what
holds for instances of every size. `PROJECT.json` is the machine-readable index:
components, runs, mutants, source lines of every definition, hazards, theorems.

To check a run: `tlc -config tracker.cfg MCIssueTracker.tla`.
To check proofs: `tlapm IssueTrackerProofs.tla`, and so for each `...Proofs` module.

## 1. Inventory

| Component | Source (`src/app/`) | State | Operations |
|---|---|---|---|
| Issue state machine, maintenance rule | `services/issue_service.py` | rows of `issues`, `equipment.status` | `transition_status`, `sync_equipment_status` |
| Issues | `api/v1/endpoints/issues.py`, `crud/issue.py` | `issues` | create, update, assign, delete, status, resolve; list, CSV export, get only read |
| Equipment | `endpoints/equipment.py`, `crud/equipment.py` | `equipment` | create, update, soft delete; list |
| Comments | `endpoints/comments.py`, `crud/comment.py` | `comments` | add, edit, delete, cascade with the issue; the note of a transition |
| Roles and row-level authority | `core/permissions.py`, `dependencies.py` | none (reads `users`) | `require_role`, `can_access_issue` |
| Accounts | `endpoints/users.py`, `endpoints/auth.py`, `crud/user.py`, `db/seed.py` | `users` | register, seed the first admin, role, deactivate, password, profile |
| Database sessions | `db/session.py`, `db/base.py` | open transactions | `get_db`, autoflush, commit, rollback |
| Equipment list cache | `core/cache.py`, `endpoints/equipment.py` | Redis keys with a TTL | read, store, purge by prefix |
| Pagination | `schemas/pagination.py`, the `list_*` functions | none | count, page, `has_next` |
| Tokens | `core/security.py`, `endpoints/auth.py`, `dependencies.py` | none (signed tokens, held by clients) | login, refresh, logout, the check of a bearer token |
| Rate limiting | `core/rate_limit.py` | counters kept by slowapi | |
| Application shell | `main.py`, `config.py`, `core/logging.py`, ... | none | wiring, error envelope, health probe |
| Migrations | `../alembic/` | the schema | run before the server |

`crud/base.py`, `db/init_db.py` and `services/notification_service.py` are empty files.

**How they interact.** There are no queues and no background tasks: everything
happens inside a request, or in `lifespan` when a server process starts. The
components call each other directly and share the four tables. Four things couple
them: (1) an issue's transition, and the creation of a critical issue, write
`equipment.status`; (2) every endpoint reads the caller's role once, at its start;
(3) writes of `equipment` by its endpoints purge the cached list, writes by the
maintenance rule do not; (4) the database does work of its own: unique indexes,
foreign keys, a cascade.

**What is hard.** Every `await` lets other requests run. A handler loads rows, checks
them, and writes later, with no `SELECT ... FOR UPDATE`, no version column, under
READ COMMITTED. What stands between two requests is only: an `UPDATE` names only the
columns that changed in the session; the row lock from a flush to its commit; and
the constraints of the schema. `create_issue` commits twice. The cache is filled and
purged in steps that interleave with all of this, and fails open.

**What makes each component correct.**
- State machine: `closed` is final; the stamps of a resolution follow the status
  along every path; a request never writes back what another request changed.
- Maintenance rule: an asset is under maintenance exactly while it has an active
  critical issue; decommissioned assets stay so until a manager says otherwise; and
  where the rule is lost, it is by one of a known list of steps.
- Comments: never without their issue, never with another's words, never deleted
  with an issue that is not theirs.
- Accounts: emails unique, answers about them true, a deactivation or demotion never
  undone by accident, an admin left.
- Database sessions: every request ends; one that fails half way leaves nothing half written,
  except between `create_issue`'s two commits.
- Cache: a stale page has one of the known reasons and does not last.
- Pages: following `has_next` ends if insertions do; over a still list it shows everything
  once, over one that changes it misses and repeats rows for known reasons only.
- Tokens: nothing is revoked, yet a deactivated account and a logged-out client are shut
  out within the lifetime of a token, whatever was in flight.

The hazards this leads to are listed, each at its line, in `PROJECT.json`.

## 2. Modules

```
GymDomain                rules without state
 |-- IssueTracker        one request at a time  <--refines--  IssueRequests
 |    |-- IssueTrackerProofs                                  (EXTENDS IssueTracker)
 |                                                             |-- IssueRequestsProofs
                                                                  |-- IssueRefinementProofs
 |-- UserAccounts        accounts, racing requests
 |    |-- UserAccountsProofs
 |-- EquipmentList       inventory, pages, cache
      |-- EquipmentListProofs
PagedLists               walks over lists that change
 |-- PagedListsProofs
Sessions                 tokens against deactivation and logout
 |-- SessionsProofs
MCIssueTracker, MCIssueRequests, MCUserAccounts, MCEquipmentList, MCPagedLists,
MCSessions: instances for TLC
```

**GymDomain** has the enums, the role sets, the `TRANSITIONS` table, what
`transition_status` does to a row (`Moved`), and what `sync_equipment_status` makes of
a status (`SyncTarget`). The other modules take the rules from here.

**IssueTracker** is the abstract specification: what the API promises to clients that
never race. The variables `user`, `equipment`, `issue`, `comment` are the tables: a
function from ids to rows, `NotYet` before the insert, `Gone` after a hard delete
(a UUID is never used twice). There is one action per writing endpoint, named after
its handler; its guard is the handler's checks and its effect is all that the handler
commits. `Transition` includes the stamps, the sync and the internal note;
`CreateIssueUnsynced` is `create_issue` cut off between its two commits;
`CommentsWithout` is `ON DELETE CASCADE`.

**IssueRequests** runs the same endpoints as the server does. `req[w]` is what worker
`w`'s request is doing. A request arrives with a `Begin...` action: its reads and its
checks, and what it took from them (the columns it will write, never the whole row).
It then goes on one awaited statement at a time:

| Step | Code |
|---|---|
| `InsertIssue`, `ReloadIssue` | the first commit of `create_issue` and `get` after it |
| `LoadEquipment` | the `selectin` load of the issue's relations; the session keeps this status (`eqSeen`) for the rest of the request |
| `FlushIssue` | autoflush of the moved issue before the next query; takes the row lock, waits for another holder, fails on a deleted row |
| `SelectEquipment` | `equipment_crud.get`: the query sees deletions, the identity map keeps the old status |
| `CountCritical` | `_has_active_critical`: what is committed now plus the request's own flush (`SeenBy`) |
| `FlushEquipment` | the flush before the commit updates the asset: takes its row lock, waits for another holder, while a transition keeps its issue's |
| `Commit...` | the rest of that flush and `COMMIT` |
| `Fail` | `get_db`'s rollback, or the process is gone |

`user` does not change here: a role read at the start of a request is used throughout
it, which is the same as the account changing just after. Changes of accounts under
way at the same time are `UserAccounts`'s.

**UserAccounts** is the `users` table with racing writers: registrations, server
processes that start (`BeginSeed`), role changes, deactivations, password and profile
changes. Lookup and insert are two steps and the unique index decides
(`InsertAccount`); edits load, then write only their column (`Written`, `Updated`).
A request keeps its caller (`by`), whose role was read when it arrived; a worker keeps its
last answer, so that answers can be compared with the table.

**EquipmentList** is the inventory as a sequence, its list endpoint and Redis. A row's id
is its number in the sequence. A page is a function from the ids it shows to their rows:
the matching rows whose `Place` (the number of matching rows before them) is among those
that `OFFSET` and `LIMIT` let through. A list request counts, reads and stores in three
steps and keeps in `asOf` how many writes had committed when it counted; a write commits
and then scans and purges key by key; `Expire` is the TTL; `MaintenanceFlip` is the write
that purges nothing; `Fail` is Redis or the server failing at any point. `excused` is a
history variable: it remembers which key became stale for a reason that the code accepts.

**PagedLists** is a client that follows `has_next` through the list of users, of comments
or of issues while rows come and go. A page is two statements, `Count` and `Read`, each
with its own snapshot. Rows are numbered in the order of `(created_at, id)`; `created_at`
is the start of the inserting transaction, so `BeginInsert` draws the number and `Come`,
in any order, is the commit. The lists differ in their order (issues are newest first) and
in what can leave: users never do, comments are deleted, issues stop matching a filter or
match again. `stayed`, `firstCame`, `firstLeft` and `raced` are history of the walk.

**Sessions** is login, refresh, logout and the check behind every other endpoint. The
server stores nothing about a token; `tokens` is what clients hold and what has not
expired, each with the ticks it has left, and `Tick` ages them. A request decodes its
token, looks the account up (`LookUp`), and mints or serves in a later step: an admin's
`Deactivate` falls anywhere between. `Discard` is a client that forgets a token, which is
all that a logout comes to. `shut` and `dry` are history: the ticks since nothing could
be minted for the account any more, and since its clients could not renew.

### What the models abstract

- An issue keeps its severity of all its descriptive fields: the maintenance rule
  reads no other. Equipment keeps status, serial number and deletion. A comment's text
  is known by who wrote it. `resolved_at` is whether there is a time stamp.
- Emails, passwords, names, serial numbers and UUIDs are model values. A request draws
  the UUIDs it will insert when it arrives; nobody else can draw them.
- Requests that fail their checks leave no trace and do not appear, except where their
  answer is the subject (`conflict`, `present` in UserAccounts).
- A request's first read and the checks on it are one step: nothing is awaited
  between the last read and the checks. Reads before that (the caller's account)
  are taken at the same moment; a caller whose account changes in between is covered
  in UserAccounts, where the caller's role is read strictly before the target's write.
  There the reads of the caller (`dependencies.py:59`) and of the target (`users.py:100`)
  are one step of two awaited statements. Apart, they would only let the caller be unseated
  a moment earlier in the request, which `AdminLostOnlyBy` names anyway, and let the target's
  columns be compared with a later row; what is written is the same column in both.
- `PagedLists` keeps nothing of a row but its place in the order, and the filters only as
  matching or not. The list of equipment, which is cached, is in `EquipmentList`.
- Time in `Sessions` is one coarse clock for all token ages; the last instant of a token's
  life is the tick in which it is dropped. Signatures and password hashes work.
- The row locks of an issue and of an asset are kept from a flush to the commit where a
  request does something in between: a transition, which holds its issue's and waits for
  its asset's, and a writer of an asset. Elsewhere (PATCH, assignment and delete of an
  issue, the endpoints of comments) the last flush and the commit are one step, in which
  the request waits for a lock but holds none while it waits. The locks of new rows and of
  foreign keys are left out: whoever holds one has only its commit to do. A PATCH that
  changes no column sends no `UPDATE` and takes no lock here.
- Of `EquipmentList`'s filters only `status` is kept; `category`, `location` and
  `search` enter the key and the query in the same way. Rows are listed in the order
  they were inserted. A cache hit changes nothing and is no action. A key stored while
  `SCAN` runs may be returned by it: that is an `Expire` of that key.

### Bounds

Ids are finite sets; as a UUID is never reused, a behaviour of `IssueRequests` runs out of
ids and may then stop, so its runs say `CHECK_DEADLOCK FALSE`. In `tracker`, `lists` and
`sessions` something is always possible and deadlock is checked. `MaxAssets` bounds the
rows and `MaxWrites` the commits in `EquipmentList`; a write over the bound stays at its
commit until it fails, which is why nothing about the end of writes is claimed there.
`MaxRows` bounds the rows of `PagedLists`, so that insertions end in every behaviour of it:
`WalkEnds` says that it needs this, and claims nothing of a list that keeps growing.
`Horizon` is where the counters of `Sessions` stop: the longest lifetime, beyond which its
properties tell nothing apart. `OneAtATime`, a constraint of `tracker`, keeps assignees and
comments apart from what they do not touch: one issue assigned at a time, and once a
comment was made, issues critical and nobody's. The proofs have none of these bounds, except `MaxRows` (for every value).

## 3. Runs

Passing runs:

| Run | Question | Instance, and why it is enough |
|---|---|---|
| `tracker` | state machine, maintenance rule, comments and assignees, one request at a time, with changing roles | 2 accounts of any role, 1 asset, 2 issues, critical or not, 1 comment id. Two issues make the count of the rule matter: one can be resolved while the other keeps the asset down; an own and a foreign issue, an author and somebody else. 107,000 states |
| `requests_atomic` | do the statements of the endpoints, failures included, implement `IssueTracker`? | 2 requests in flight, 1 asset, 2 issues, 1 comment id for a transition's note. Every endpoint that writes an issue or a status, but soft deletes; a comment endpoint is one read and one commit and never waits for anything. 172,918 states |
| `requests_races` | what survives any race for one issue and its comment | 2 requests, no restraint on clients. 355,876 states |
| `requests_finish` | does every request end; who writes an asset? | 2 requests on one issue and one asset, with PATCHes and deletes of both, and failures. Only the row of the issue and the row of its asset are held while a request waits, so a circle of waiting requests is one of two. An assignment, which is left out, commits by the same action as a PATCH of the issue. 150,929 states |
| `accounts_races` | emails, answers, lost updates, lost admins | from a fresh database: 2 accounts, 2 emails, the roles member and admin (no other is distinguished there), 2 workers, failures. 34,073 states |
| `cache_races` | why are pages stale, do they settle; serial numbers; paging | 2 assets, 2 commits, 2 keys (a second page, a filtered first page), 2 workers, failures. 310,943 states |
| `lists` | what does a client miss or see twice; does its walk end? | each of the three lists, 4 rows, pages of 1: rows come and go before, at and after the place of the walk, several times. 353,000 states |
| `sessions` | how long does a deactivated or logged-out account get in? | 1 account (accounts meet nowhere), lifetimes of 2 and 3 ticks so that the two kinds differ and chains of refreshes overlap, 3 requests at once, failures. 9,190 states |

What they show:

- **`StampsMatchStatus`**, **`ClosedIsTerminal`**, **`DecommissionedLeftAlone`**,
  **`AdminRemains`**: hold one request at a time. The last section shows which of them
  races break.
- **`TransitionRestoresSync`**, **`SyncLostOnlyBy`**: the maintenance rule is lost by
  exactly four kinds of step, and any later transition of one of the asset's issues
  repairs it. The four: a status set by hand (creation or PATCH of an asset), an edit
  of a severity, the delete of an issue, and a failure between `create_issue`'s two
  commits. The second and third are worth knowing: `PATCH /issues/{id}` with
  `severity: critical` does not take the asset out of service, and deleting its last
  critical issue does not bring it back.
- **`AssigneeLostOnlyBy`**: an assignee is active staff when assigned, and stops being so
  only by a demotion or a deactivation, which leave the assignment as it is.
- **`CommentsIntact`**, **`CommentsLeaveOnlyBy`**: with and without races (the foreign
  key refuses the comment whose issue went meanwhile).
- **`AtomicSpec`**: every step of every request is a step of `IssueTracker` or a
  stutter, under the mapping that shows a new issue when its creation is over.
  Precondition `OneWriter`: clients do not have two writing requests on one asset under
  way, and do not use a new issue before its POST is answered. Without it the
  refinement is false: nothing in the code enforces it, and what it excludes are the races
  of `closed_reopened` and `sync_write_skew`. With it, it is proved for every instance.
- **`NoColumnLost`**, **`OwnColumnOnly`**, **`AssetColumnOnly`**: no edit made from a stale
  copy takes back another request's column; they rest on SQLAlchemy writing changed columns
  only. The deletion of an asset is final, whatever was in flight, and a sync leaves alone
  an asset that was out of service when the request loaded it (it may still set back
  one that was decommissioned after that).
- **`AdminLostOnlyBy`**: how far the guard against demoting oneself goes. The last admin is
  unseated only by a request whose own caller was unseated while it was under way, as
  `last_admin` shows; no chain of requests one after the other does it.
- **`ResolvedHasTime`**: what is left of the stamps under races. `resolved_at` is always
  a new time and so always flushed; `resolved_by` is not when the loaded value was the
  same, and a closed issue's stamps can be lost to a racing reopen.
- **`RequestsFinish`**: a transition holds its issue's row while it waits for the row of its
  asset. Every other request that holds an asset's row only has to commit, so no circle of
  requests wait for each other, and no waiter is left behind by a delete. A deletion of an
  asset that closed its issues too would break it, which is the mutant.
- **`EmailUnique`**, **`AnswersHold`**: the lookup is racy and the index decides; who is
  told `conflict` finds an account with that email.
- **`StaleExcused`**: a cached page that is wrong is about to be purged by a write in
  flight, or is one of three cases: it was stored after a write that came since its
  `COUNT`, its purge was lost to a failure, the maintenance rule changed a status behind it.
  **`PagesSettle`**: after the last write all of them vanish.
- **`WalkSeesAll`**: `has_next` leads through every matching row once and in order, over no
  empty page but the first, for every filter and page size and every table the requests leave.
- **`MissedOnlyBy`**: a row that is there all the time is missed only if one before it left
  (a comment deleted, an issue moved out of the filter), or one came between the `COUNT`
  and the `SELECT` of the last page. **`TwiceOnlyBy`**: it is shown twice only if one before
  it came: any new issue does that, and among users and comments a late commit.
  **`WalkEnds`**: once no insertion begins any more, the walk ends, whatever rows are still
  to come, leave or come again. While at least a page of rows is inserted for every page
  read, `has_next` stays true and the walk goes on; nothing in the code bounds it then.
- **`ShutOutInTime`**: a deactivated account's tokens are gone one lifetime after the
  deactivation and the end of the last login or refresh that was then past its check.
  **`LoggedOutInTime`**: without a refresh token (and until the next login) a client is out
  within the lifetime of an access token, which cannot renew itself.
  **`NeverReadmitted`**: a deactivated account passes no check again and gets no token it
  did not have, nor one for longer, but for a pair that was on its way.
  **`DeactivatedGone`**: it comes to have no token and no request past its check, and never
  has again.
- **`SerialUnique`**: also against soft-deleted assets, which keep their number.

Violation runs: what a comment or a docstring says, and the code under races does not do.

| Run | Says | Does |
|---|---|---|
| `closed_reopened` | "closed is terminal" | two requests load a resolved issue; one closes it, the other then reopens it |
| `sync_write_skew` | "under_maintenance while it has an active critical issue" | one critical issue is logged while another is resolved; each misses the other |
| `last_admin` | the guard "avoids locking the last admin out" | two admins demote each other at once |
| `cache_stale` | "the invalidation-on-write below keeps the cache correct" | a list request stores what it read before a write, after that write's purge |

Each has few endpoints and no failures, so that the counterexample is short. The cause of
`closed_reopened` (a check on what was loaded, an `UPDATE` on the id alone) has a second
effect with no run of its own: a transition that loaded its asset before it was
decommissioned sets it back to operational.

**Fairness.** Strong fairness of `Proceed(w)`: the event loop runs every ready request
again and again, and PostgreSQL queues those who wait for a row lock, so a request
that can go on again and again does. Weak fairness is not enough while other requests
take the lock in turn. Weak fairness of `Expire(k)`: every `set_json` has a TTL. None of
`Arrive`, `MaintenanceFlip` or `Fail`: nobody has to send a request and nothing has to
break. In `PagedLists`, weak fairness of `Count` and `Read`: the client that began a walk
goes on, and no statement of a list waits for anything. In `Sessions`, weak fairness of
`Tick` (time passes) and of `Proceed(w)`, which nothing but itself or a failure disables.

**Symmetry** is used in runs without liveness, over ids that no action or property
names (in `accounts_races` not over emails: one of them is the configured admin's).

**Mutants.** Beside some definitions stands a mutated form, marked `Mutant`: the bug a
programmer could make there (a dropped guard, a whole row written back, a missing
cascade or unique index). No action uses them. Put in the place of the original, each
makes a run fail at the property it is listed with, which shows that the property
depends on the code.

## 4. Proofs

TLAPS proves these for every value of the constants, from the `ASSUME`s of the modules:
that `Severities` is a subset of the enum, that `NoUser` is no user, that `NotYet` and
`Gone` differ and are no rows; in `UserAccounts`, that the admin's email is an email,
`Roles` are roles, `NotYet` is no row, `MayFail` is a Boolean; in `EquipmentList`, that the
bounds are numbers, `Statuses` are statuses and not the absence of a filter, a key is a
filter, an offset and a positive page size, and a missing serial number is none; in `PagedLists`, that
`MaxRows` is a number and `Limit` a positive one; in `Sessions`, that lifetimes are positive
and `Idle` is no request.

| Theorem | Property | Argument |
|---|---|---|
| *IssueTrackerProofs* | | |
| `TypeCorrect` | `TypeOK` | inductive as it stands; `MovedType`, `SyncedType`, `NewRowType` give the type of the rows each endpoint writes |
| `AdminKept` | `AdminRemains` | whoever changes an account is an active admin, and not of that account |
| `StampsInvariant` | `StampsMatchStatus` | inductive with `TypeOK` (that `resolvedBy # NoUser` needs the actor to be a user) |
| `ClosedForGood` | `ClosedIsTerminal` | what each endpoint can do to an issue is one lemma (its life cycle); the table has no move from `closed` |
| `DecommissionedForGood` | `DecommissionedLeftAlone` | `SyncTarget` keeps `decommissioned` |
| `TransitionSyncs` | `TransitionRestoresSync` | only `Transition` changes a status, and it syncs against the table after its own change |
| `SyncLossExcused` | `SyncLostOnlyBy` | steps outside the list leave the asset, and whether it has an active critical issue, as they are, or sync it |
| `CommentsInvariant`, `CommentsLeave` | `CommentsIntact`, `CommentsLeaveOnlyBy` | inductive with `TypeOK`; the delete of an issue is the interesting step |
| `AssigneeKept` | `AssigneeLostOnlyBy` | an account step leaves the issues, an issue step the accounts |
| *IssueRequestsProofs* | | |
| `RequestsTyped` | `RequestTypeOK` | from `RaceInv`, below |
| `TimeKept` | `ResolvedHasTime` | part of `RaceInv`: a request that writes `resolved` writes the time with it |
| `ColumnsKept` | `NoColumnLost` | from `RaceInv`: the columns in flight are those of the operation |
| `AssetColumnsKept` | `AssetColumnOnly` | with `RaceInv`, `AssetRace`: an edit of an asset carries its own column only, and a sync has a target only for an asset it loaded in service |
| `CommentsKept` | `CommentsIntact` | with `RaceInv`, `CommentRace`: ids drawn for new comments are unused and drawn once, and who edits a comment is its author |
| *IssueRefinementProofs* | | |
| `RequestsAreAtomic` | `AtomicSpec` | if `OneWriter`: with `CareInv`, below, every commit is an action of `IssueTracker` on the issues that show, and every other step a stutter |
| *UserAccountsProofs* | | |
| `AccountsTyped` | `AccountTypeOK` | inductive: it says what every request in flight may write |
| `EmailsUnique` | `EmailUnique` | inductive with it; only `InsertAccount` matters, and no edit writes an email |
| `ColumnsKept` | `OwnColumnOnly` | from it: the columns in flight are those of the operation |
| `AnswersReliable` | `AnswersHold` | emails are never removed or changed, so an answer stays true |
| `AdminLostToRace` | `AdminLostOnlyBy` | `CallersApart`: whoever takes a role or an account away is not its owner; so the caller, were they still an admin, would remain one |
| *EquipmentListProofs* | | |
| `SerialsUnique` | `SerialUnique` | inductive with what a write in flight will change, which makes an asset of any row it is laid over |
| `ListTyping` | `ListTypeOK` | part of `ListInv`; the places of the matching rows differ, so that a page has no more rows than its limit |
| `WalksSeeAll` | `WalkSeesAll` | for every table: the places of the matching rows are the numbers below their count, each taken once; page `q` shows those from `q * limit` on, so every row is on the page of its place divided by the limit, which `has_next` reaches |
| `StaleForCause` | `StaleExcused` | part of `ListInv` (`UpToDate`): while no write has committed since a request counted, what it counted and read is what the table would give now |
| *PagedListsProofs* | | |
| `ListsTyped` | `PageTypeOK` | part of `WalkInv`; a slice is no longer than the page, by cardinality of what is ahead of each row |
| `MissedForCause` | `MissedOnlyBy` | `WalkInv`: a row that stayed and is not yet shown has at least `skip` rows ahead of it, unless one ahead of it left; and the total counts it, unless a row came since |
| `TwiceForCause` | `TwiceOnlyBy` | `WalkInv`: a row that was shown has fewer than `skip` rows ahead of it, unless one came ahead |
| *SessionsProofs* | | |
| `SessionsTyped` | `SessionTypeOK` | inductive |
| `ShutOut` | `ShutOutInTime` | what a token has left and the ticks since the account was shut add up to no more than its life, and nothing is minted for an account that is shut |
| `LoggedOut` | `LoggedOutInTime` | the same sum for accounts that cannot renew, whose tokens are all access tokens |
| `ShutForGood` | `NeverReadmitted` | every check is `LookUp`, which reads `active`; a mint is of a request past its check |

**`RaceInv`**, the invariant of `IssueRequests`, is needed because none of its properties
says anything of the requests in flight that will break or keep it. It says what each
request means to do (`Meant`: its operation, the rows and ids it holds, and columns that
are its operation's, with values they can hold), where it can be (`Placed`), and what the
tables have kept of what it saw (`Known`: the asset it will write exists, its issue was
inserted unless it is about to insert it, and an issue whose row lock it holds is not
deleted). Two new issues never have one id. One lemma (`StepKeeps`) says what a step of one
worker must leave to the others; each action is then shown to leave it.

**`CareInv`** is what `OneWriter` adds, and what the refinement needs: whatever a request
goes by is still true when it commits. No two writing requests are about one asset
(`Apart`); the status and the target of a sync are those it would find now (`SyncTrue`); a
move is still legal and its columns are those it would change now (`MoveTrue`); whoever
edits, deletes or comments may still do so; an issue in creation is as it was inserted, on
an asset in use. The part that is not obvious is what the others may do meanwhile
(`Frame`): they write issues of other assets, which do not count for this one, or assign
this asset's issues, and rows that differ in their assignee only (`Twin`) are counted
alike and moved by the same columns. `OthersKeep` says that this leaves every request in
flight what it goes by; each action is then shown to stay in its frame.

The invariants on requests in flight hold for any number of workers, where TLC has two or
three, and the refinement for any number of assets, issues and comments, where
`requests_atomic` has one asset.

**The places of a list.** `SelectSeq` and slices of sequences are defined by recursion in the
library, and facts about them need induction theorems that the provers cannot instantiate.
`EquipmentList` therefore has a page as a set of ids chosen by their `Place`, and the proofs
need only cardinalities: a row's place is smaller than the count (`PlaceBelow`), grows with
the row (`PlaceGrows`), and every number below the count is some row's place (`PlaceTaken`),
as an injection between finite sets of one size misses nothing.

Every invariant and every action property that a passing run checks is stated by a theorem.
Only model-checked is liveness (`RequestsFinish`, `PagesSettle`, `WalkEnds`,
`DeactivatedGone`), which is out of the provers' reach; of the last one, `ShutForGood` and
`ShutOut` prove what it needs of safety.

## 5. Not modelled

- **Rate limiting**: slowapi counts and decides; the repository only names the limits and
  the key of a bucket. **Shell** (settings, wiring, logging, error envelope, health probe)
  and **migrations**: no state of the domain.
- **Cryptography**: a token decodes only if it was minted, a password matches only its hash.
- **Reads that keep no state**: the CSV export and the `get` endpoints are one query each.
- **Input validation** (lengths, formats, nulls) is below the abstraction of a row; that a
  null in a required column is answered like a duplicate serial number is in `hazards`.

## 6. What could come next

1. `CareInv` for a weaker precondition than `OneWriter`: PATCHes of severity and status that
   race with each other but with no transition.
2. An instance of `IssueRequests` with two assets and three requests, for simulation.
