# Verification of the Vinaphone M2M API gateway

The gateway keeps, for each tenant account, a copy of the account's SIMs as the Vinaphone upstream reports
them, lets operators manage those SIMs, raises alerts about their usage, and mails a backup of its database.
It is one NestJS process over PostgreSQL. Nothing in it is multi-threaded; what makes it hard is that every
`await` gives way to other requests, to the cron and to the remains of earlier jobs, that the upstream, the
database and the mail server fail or answer late, and that part of the state lives in memory and dies with
the process.

TLA+ modules here follow the code under `src/`. Each is named for the part it models, TLC checks it on small
instances (`MC*.tla`, `*.cfg`), and eight modules of proofs (`*Proofs.tla`) show most of it for every value of
the constants. `PROJECT.json` lists components, runs, mutants, the source lines of every definition,
findings, hazards and theorems. A definition with the comment "Mutant of X" is a faulty X: put in its place, it
makes a property fail, which shows that the property is about that code.

## 1. Inventory

| Part | State | Operations | Met by |
|---|---|---|---|
| Sync engine, `sync.service.ts` 78-365, 405-430, 992-1145 | in memory: job statuses, loaded accounts, active accounts, token cache, chains of status writes; tables `sync_job_states`, `rating_plans` | four jobs, cron pass, status request, `updateSyncStatus`/`persistSyncStatus`, `ensureSyncStatusLoaded`, `runInTenant` | controller, cron, upstream, database, crash |
| SIM pipeline, `sync.service.ts` 431-810 | tables `sims`, `usage_history`; the run's snapshot, usage map, ids | list, read, fetch usage, upsert, file history, follow-ups | operators on the same rows, month end, failure |
| Upstream listings, `sync.service.ts` 373-403, 1153-1342 | page, attempt, result; table `sim_group_members` | quickSearch, dropdown lists, members of a group, retry | an upstream that changes and refuses |
| Monthly usage, `sync.service.ts` 812-990, 1373-1573 | table `monthly_data_usage`; the run's maps, breaker count | questions per SIM and per batch of masters, breaker, save, result | failing upstream, resets, month end |
| Master SIM totals, `sync.service.ts` 1575-1592 | table `master_sims` | sum and store | SIM changes between the two queries |
| SIM operations, `sims.service.ts` | table `sims` | confirm, lock, cancel, reset, bulk and batch changes, patch | the SIM sync |
| Alerts, `alerts.service.ts` | tables `alert_configs`, `alert_checks` | evaluation by sync or request, rule changes, single and bulk review | each other, SIM changes |
| SIM codes and groups, `sim-codes/`, `groups/` | tables `sim_codes`, `groups`, `sim_groups`, the labels of SIMs | create, update, remove, members, labels | foreign key cascades, overlapping transactions, alert rules |
| Backup, `backup/` | in memory: runs under way, minutes done; workspaces on disk; the mailbox | tick, run, dump, mail, cleanup | retries in the minute, mail server, crash |
| Authentication, `auth/` | table `accounts`; the sessions handed out | login, validation of a session, token lookup, eligible accounts | overlapping logins, expiry, a restart with another configured email |
| Tenant scope, `prisma/`, `auth/tenant-context.interceptor.ts` | the context of a request | rewriting of every query's arguments | all of the above, many requests at once |
| Event stream, `sync.controller.ts` 43-57 | a subscription | snapshot, then changes | status updates |

How they interact: the controller and the cron call the sync engine, which admits one job per account at a
time; the job calls the upstream, writes the tables that the operators' services also write, and ends by
evaluating the alert rules. Rules read what SIM codes, groups and syncs have put into the SIMs. The token of
a job comes from the authentication service. The backup shares only the process and the database.

What is hard, and where (the full list, with lines, is `hazards` in `PROJECT.json`):

* check-then-act over an await: admission to an account, confirm, find-then-create of checks, joining a backup,
  a code's name read before the transaction that writes by it, a read before a subscription;
* decisions on data read minutes before: the status snapshot, the month, the active rules, the cached token;
* writes that are queued and not awaited, lost, or land with their answer lost;
* crash and restart over a table that says `running`; a load that fails but counts as loaded;
* pages of a listing that moves between two questions; retries per page; a breaker over batches;
* steps of a run that fail with others already done.

What makes each part correct: one job per account and always released; a status that is its run's and a
stored time of the last sync that is never lost; SIMs that a completed sync left as the upstream reported
them, without undoing operators' decisions; checks for exactly the pairs the rules call for, and reviews that
stand; one mail per minute unless delivery was in doubt; results whose numbers add up; labels and members that
go only when a request takes them; rows that only their account sees; streams that end up showing what is.

## 2. Modules

**AccountLock** — what `runInTenant` promises and nothing else: an account is free or held by one chain of calls,
held accounts are given back, a restart frees them all. SyncJobs implements it (`LockImplemented`, with
`holder` the calls between `activeAccounts.add` and the `finally`).

**SyncJobs** — the sync engine. A call is a chain of awaits (a manual trigger or a cron pass) with a place `pc`;
an action is the code between two waits. `Enter` is the check and the add to `activeAccounts` behind the load;
`UpdateSyncStatus` changes the memory and queues a write, `Settle` ends the oldest write of a chain (saved,
lost, or landed with the answer lost), `AfterWrite` is what an awaited completion does with the outcome.
`HandOver` leaves an account and enters the next one in one turn, as the cron loop does. `Crash` empties
memory; the head of every chain may still land. The work of a job is reduced to what other calls can see.

**SyncEvents** — SyncJobs composed with the event streams of clients. An engine step that updates statuses
reports them to the live streams; a stream loads (`Open`), reads (`Read`) and subscribes (`Subscribe`), the last two
being microtasks of one turn, between which another chain that waited for the same load may run.

**SimSync** — what such a call's work is for `syncSims`: stages at the awaits of `syncSimsInTenant`, with the
operators of `sims.service.ts` acting between any two. `edit` remembers when an operator last changed a SIM
relative to the run's snapshot and upsert; a usage remembers the month it was reported in. Both are history
variables, read by no action.

**UpstreamPages** — the three paging loops and `withRetry`, against an upstream whose listing is cut when it is asked,
and changed in between. Where the code asks for a sort (`sync.service.ts:1177`, `1224`, `1266`) it is cut in that order;
the members of a group are asked for without one (`1308`), and their pages hold any items of the group, as many as a page
of that number has (`Unsorted`). Its listings may hold an item twice, as SimSync's may.

**MonthlyUsage** — the monthly sync with its circuit breaker, the two maps, the batches of upserts under the
foreign key to `sims`, and the counts it returns.

**AlertChecks** — evaluations (a sync's, or a request's) that step through rules, SIMs, find, create or stamp;
operators who review, edit and delete meanwhile. `changed` remembers what moved while an evaluation ran: its
promises are about the rest.

**BackupRuns** — ticks, the run a tick starts, joins or is answered from, and every fault of the environment,
with the mailbox and the workspaces as what is left behind.

**SimLabels** — SIM codes, groups and the labels patchSim writes: what a request reads, then its transaction or
query, with the foreign keys (a rename cascades to the labels, the row of a group takes its members with it).
A transaction is one step, but for the replacement of a group's members, between whose DELETE and INSERT other
requests come. A second replacement of the group waits for it: `group.update` is sent with the stamped `accountId` even
when the request gives no name (`tenant-scope.ts:29-31`), so it writes and locks the row in any case (`RowLocked`).
`given` remembers the SIMs that others gave a code while a request is under way.

**TenantScope** — `scopeTenantArgs` as operators on argument trees, each a function from the paths of its leaves; the
recursion of the code becomes a statement about the keys along a path. **Accounts** builds on it: logins with
the two upserts, the sessions they sign, requests that run in the context of a session, and their queries,
scoped and then answered from a table (`createMany` with its array among them); the clock expires tokens, a restart may change the configured email.
`by`, `everConfigured`, `overtaken` and `crossed` are history.

**TenantTables** — what the scoped client promises about rows and nothing else: every account has a table of its own, a
step changes at most one of them, that of an account some request is at work in, and no row changes hands. Accounts
implements it (`TablesApart`): `tables` are the rows of the one table by their `accountId`, `atWork` the accounts
of the requests' sessions. Which of the requests at work wrote is not said there; `OwnRows` has that.

One module feeds the next by its guarantees: SimSync and MonthlyUsage have one run at a time because
`LockMatchesRuns` holds in SyncJobs; SimSync takes the listings that UpstreamPages describes; AlertChecks is
the follow-up step of SimSync; SimLabels writes the labels that the rules of AlertChecks read, where a change
of a SIM is any change; a token that SyncJobs fetches is that of an account in Accounts' `Eligible`, and that
every module but Accounts looks at one account at a time is what `OwnRows` (reads) and `TablesApart` (writes) allow.

Abstractions common to all: identifiers are model values, messages and progress texts are left out, a
database transaction is one step (but for the one of SimLabels named above) and the database is linearizable, time is a counter of completions or
months. `Fields`, `Rules` and `Profiles` of AlertChecks stand for the comparison of scope fields by equality.

## 3. Runs

| Run | Shows | Bounds |
|---|---|---|
| `sync_safety` | lock, status, table, token and stream under every fate of a write | one account, two manual SIM syncs with nested rating plans, a stream, 2 completions, 1 queued progress write, 1 crash; 766 k states |
| `sync_ends` | the lock is implemented; plans before SIMs; every call ends; streams show the end of every job | two accounts, a cron pass, a manual SIM sync, a stream, 1 completion, no write ever saved; 147 k |
| `sims` | what a completed run stored; untouched SIMs; months; operators' decisions | two SIMs, listings with a SIM twice, 2 runs, 2 edits, 2 months; 3.5 M |
| `sims_activation` | finding, below | as above, smaller |
| `pages` | paging, retry, termination | 5 items, pages of 2, 2 attempts, 2 changes; 950 k |
| `monthly` | result, breaker, rows kept | 4 SIMs, a master, answers about a number nobody has and about one of the SIMs, breaker of 2, 1 reset, 2 months; 811 k |
| `alerts` | evaluations complete and sound, reviews stand | 2 SIMs, 2 rules, a sync and a request at once, 1 change by operators; 0.7 M |
| `alerts_review` | finding, below | 2 SIMs, 1 rule |
| `labels` | members stay, a replacement leaves what it gives, removals meet no old members | 2 SIMs, 2 codes with 2 names, 1 group, 2 operators, 4 requests; 564 k |
| `codes_rename` | finding, below | as `labels`, 1 request |
| `accounts` | own rows and all of them; tables of the accounts kept apart; refusals; sessions served by the cron | 3 logins of 2 emails, 2 requests, 1 write, 1 restart, 3 rows, tokens that live a tick or none; 237 k |
| `backup` | one run per minute, who is told what, duplicates and leftovers explained, ticks answered | 3 ticks, 2 minutes of the window and one outside, every fault, a crash; 190 k |

The type invariants of SimSync, UpstreamPages, MonthlyUsage, Accounts and BackupRuns hold on the bounds of their runs,
which do not list them. A job that finds the bound on completions used up may still fail, so no call is cut off by it.

Why the bounds suffice. A race needs two parties, so two calls, two evaluations, two ticks and one operator
per race are there; a third adds no new pair. Two runs in a row show what the first leaves for the second, two
batches what one leaves for the other, and listings of two SIMs with batches of one and two reach every
boundary of the loops. The breaker needs four SIMs to see failure, success, failure and a SIM left over. Pages of two
over five items have a first, a middle and a short last page, and two changes move an item over
a page boundary in either direction, or out of one page while another comes. Four requests on SIM codes are two for the race and two that prepare
it. One write tells whose rows a query finds, since the table starts with the rows of the legacy account. A
token that lives no tick is one that has expired when it arrives. Where a bound would hide a case the
theorems of section 4 lift it.

Restricted initial states: `MCAlertChecks` starts with a rule and a SIM that fit and with a legacy row (one
without `triggeredAt`) only where it will be stamped; `MCMonthlyUsage` starts from an empty or a full table;
`MCSimLabels` with a code that a SIM has, and with a group of that SIM at most.
Other initial states are reached from these by the operators' changes and by shorter answers.

Deadlock is not checked where the system may rest: nobody is obliged to start a sync (`sims`, `monthly`), to
ask for a label or to log in (`labels`, `accounts`). Symmetry is used in safety runs only.

**Fairness.** `SyncJobs!FairSpec` assumes that every wait of a call, every write and every load ends: each is a
query, or a request with a timeout, answered or failed. Nobody is obliged to call or to run the cron.
`EventsFairSpec` adds that a stream reads and subscribes, which are steps of the event loop; no client has to come
or to go.
`BackupRuns!FairSpec` assumes the same of the steps of a run. The code sets no timeout on `pg_dump`
(`backup.service.ts:129`), which is awaited until it exits, nor on the file system and the mail transport: that each of them ends, with
success or without, is an assumption about the environment, and a dump that hangs keeps all ticks of its minute waiting.
`UpstreamPages!FairSpec` assumes it of a question, which has a timeout, and of an upsert. None assumes that any of them ever
succeeds, nor that the upstream stops changing beyond the bound.

### Findings

* `sims_activation`: the SIM sync decides NEW → ACTIVE on statuses read before the usage batches. A SIM locked
  or cancelled meanwhile comes back as ACTIVE (`RunKeepsDecisions` says this window is the only one).
* `alerts_review`: the bulk review has its own matching rule, which takes one fitting field for all and ignores
  the SIM code label; it creates checks the rules do not call for.
* `codes_rename`: an update of a SIM code that gives both a new name and SIMs keeps the old members: the rename
  cascades to their labels, and the query that is to clear them looks for the old name.

Met while modelling, without a run of its own:

* Confirm tests the status and then updates by id (`CheckActive`, `Confirm` of SimSync): a lock in between is
  overwritten, where `src/README.md:262` asks for an active SIM.
* FR-007 (`src/specs/002-db-backup-email-cron/spec.md:94`) asks for no duplicate mail on a retry; a mail whose
  confirmation is lost is sent again (`backup.service.ts:101`). `DuplicatesNeedDoubt` says nothing else but a crash does that.
* `src/README.md:364` says that the JWT expires with the upstream's token. It does for one login; of two overlapping
  logins to an account the earlier token may be stored last, and the later session outlives it. `SessionsServed`
  holds but for those, `crossed`. It also takes the tokens of all logins to live equally long.
* Once the configured email is that of an account that exists already, its logins fail on the unique email: the
  upsert goes to the legacy row (`RefusedOnlyIfReconfigured`).
* A removal of a SIM code is two queries, and labels given in between keep it from being deleted
  (`RemovalsMeetNoOldMembers`); an update or a removal that holds a name another code has taken meanwhile clears
  that other code's labels (the last case of `Involved`).
* The `simCodeLabel` of an alert rule has no foreign key and keeps a name that the code has given up.
* `patchSim` tests the fields of its request with `in`, which is true of every declared field of the class as the
  build emits it: fields that were not sent are cleared, against the comment at `sims.service.ts:557`.
* The dropdown lists of rating plans and groups end at the first full page (`ListingComplete`), and members who left
  a group upstream stay in `sim_group_members`.
* The members of a group are asked for page by page without a sort (`sync.service.ts:1308`). Unless the upstream keeps one
  order of its own, a member may be on none of the pages though nothing has changed; so `ListingComplete` promises the
  members of a group that has one page, and of larger ones nothing.
* Two replacements of a group's members are kept apart by the row lock of `group.update` alone, and for a request without
  name and description that lock is owed to the `accountId` that the rewriting puts into its `data`.
* A usage batch that fails counts as usage 0 (`sync.service.ts:544`): `SyncReflected` and `UntouchedFollowsUsage` take that 0 as
  the answer, as the code does.

## 4. Proofs

The proof modules extend the modules they are about; the only assumptions are the named ones on the constants
(disjoint sets of calls, listings that are sequences of SIMs, positive batch sizes, bounds in `Nat`, the forms of
queries), and `OneLifetime` where it is said.

**SyncProofs**, of SyncJobs. `TypeCorrect`; `LockCorrect` (`LockMatchesRuns`); `LockRefined` (`LockImplemented`); `TokenCorrect`
(`TokenIsTheRuns`); `SyncIsDurable` (`ReportedSyncIsDurable`); `SyncTimeKept` (`SyncTimeNeverErased`); `PlansFirst`
(`SimsFollowPlans`). The lock is inductive with types alone: no action but `Enter` and `HandOver` puts a call
inside, and both test and add in one step; the refinement maps these to `Acquire`, leaving to `Release`, a crash to
`Restart` and all else to a stutter. Durability is not inductive by itself. It needs that a call is inside an
account only after its statuses were loaded (`LoadedFirst`), that the write a completion awaits is the last of its
chain (`AwaitedLast`), and that the times in table, chain and memory are ordered (`SyncTimesOrdered`). The proof has a
lemma for what a write appended to a chain does, one for what a settled write does, and one that sorts the
actions into those that append, settle or do neither. `PlansFirst` needs `PlansKept`: a rating plan sync that
is saved has left plans or found none, and the calls that come to the SIMs passed it.
Of its statuses: `TableCorrect` (`TableMatchesMemory`), from the newest write being of the state in memory
(`NewestIsCurrent`); `StatusCorrect` (`StatusIsTheRuns`), from the lock: who writes a status is inside, and alone;
`RunningCorrect` (`RunningIsBacked`).
Of SyncEvents: `StreamsOnlyWatch`: `EventsSpec => Spec`, so all of the above holds with any number of streams;
`StreamsCorrect` (`StreamCurrent`), from what a stream in its gap may have missed.
And the safety that the liveness properties rest on. `WaitsCorrect` (`WaitsAnswered`): a call that awaits its statuses
finds them loaded or loading, and the write a call awaits is the newest of its chain, so the fair steps that are to wake it
stay possible. `CallsFinite` (`CallsWindDown`): no step moves a call but to where it has less to do, by a measure over its
accounts, jobs and places. Fairness of these steps gives `CallsEnd` by hand from the two. `EndsCorrect` (`EndsAreShown`):
when the last call stops working on a job, the same step shows every client that stays how it ended; with `CallsEnd` that is
`StreamShowsEnd`.

**SimSyncProofs.** `TypeCorrect`; `HistoryCorrect` (`HistoryNotAhead`); `UntouchedCorrect` (`UntouchedFollowsUsage`);
`DecisionsKept` (`RunKeepsDecisions`); `ReflectionCorrect` (`SyncReflected`), for any SIMs, listings and batch sizes.
`UsageOfTheMonth` says that a reading is never older than the run's month; `SnapshotHolds` that the snapshot is still
right of every SIM no operator changed since, or its SIM has been activated already; `Progress` that all
SIMs before the loop's index are saved or filed. `Strengthening` is their conjunction.

**AlertChecksProofs.** `TypeCorrect`; `CompleteCorrect` (`EvaluationComplete`); `SoundCorrect` (`EvaluationSound`);
`ReviewsCorrect` (`ReviewsStand`), for any number of evaluations. The invariant `Kept` says of each evaluation that the
rules and the SIMs it holds are as they are now unless they changed since it began (`HoldsRules`, `HoldsSims`),
and that every pair called for is still to come or has its check (`LosesNone`).

**SimLabelsProofs.** `TypeCorrect`; `RemovalsCorrect` (`RemovalsMeetNoOldMembers`); `ReplacementCorrect` (`GroupReplaced`);
`MembersKept` (`MembersStay`). What a request has read stays true as far as it relies on it (`Requested`). The
members of a group are those the DELETE of its open replacement found, and no other replacement of it is open (`RowsHeld`); so
the commit leaves the members the request gives and no others (`Replaced`).

**AccountsProofs.** `QueriesFiltered`: a query without data is filtered by the account, whatever its arguments;
`NoForeignAccount`: wherever the rewriting passes an `accountId`, it is the account's own; `RefusalsExplained`
(`RefusedOnlyIfReconfigured`), since emails are unique and the legacy row's email was configured once.
`OwnRowsCorrect` (`OwnRows`): no query finds a row of another tenant, and none misses a row of its own account that
meets its other conditions, for any queries of the services' forms. `QueriesAssumption` says what these are: what changes
rows gives a `where`, as every call in the code does (without one `scopeTenantArgs` filters nothing), what writes gives an
object or, to `createMany`, an array of them, and no alternative
of an `OR` names an account (an `OR` is passed on as it is, so that one naming an account would select it). The first half rests
on `Apart`: an account but the legacy one keeps the email it got first (`EmailsStay`), sessions and rows are of the email
of their account, and a query writes its own account's rows only (`WritesOwn`). The second half is about the rewriting
alone: whatever holds of a row in the arguments given holds in the rewritten ones (`HoldsScoped`), as what is stamped is
never below an `OR` (`StampedPaths`). `TablesRefined` (`TablesApart`) maps a query to a write of the one table by
`WritesOwn`, a request that comes or goes to `Come` and `Go` unless another one is at work in its account, a
restart to `Restart`, and all of the logins to a stutter.
`SessionsCorrect` (`SessionsServed`) supposes that all tokens of the
upstream live equally long; by `LatestLast` no login is then about to store a token older than the stored one,
but for those that were overtaken.

**BackupRunsProofs.** `RunsCorrect` (`OneRunPerMinute`); `MailsCorrect` (`CompletedWasMailed`); `DuplicatesExplained`
(`DuplicatesNeedDoubt`); `LeftoversExplained` (`LeftoversNeedFault`). The invariant adds that a run before its mail finds
none recorded for its minute, and that without doubt the mailbox holds what the map records (`MailsCounted`).
`AwaitedCorrect` (`AwaitedRunsGoOn`): a tick that joined a run awaits one that is under way for its minute, whatever failed or
crashed, which is what `TicksAnswered` needs besides the end of every run.

**UpstreamPagesProofs.** `TypeCorrect`; `GivesUpCorrect` (`GivesUpLate`); `ListingCorrect` (`ListingComplete`), for any
items, page sizes and number of changes. Of a quickSearch, an item that stays and lies before the offset without having been
fetched is one for which another has left (`MissesFew`): an item that is added moves the others down, one that
leaves moves them up by one place, and as no two items have one place, only one of them crosses the offset.
`CountsFew`, that quickSearch counts no more than its pages have places, makes the page it stops at the last one. A group that ends at its first page has been asked for one page only (`OnlyPage`),
and that page held all of the group (`OnePageWhole`).
`PagesCorrect` (`PagesBounded`): a loop asks for no page beyond all the items there are; `LoopFinite` (`LoopWindsDown`): every
step of a loop leaves it fewer pages, attempts or members to save, and no change of the upstream adds to them. With the
fairness of `FairSpec` they give `LoopEnds` by hand.

**MonthlyUsageProofs.** `TypeCorrect`; `UnansweredKept` (`KeepsUnanswered`); `ReportCorrect` (`ReportTrue`);
`BreakerCorrect` (`BreakerJustified`), for any SIMs, batch sizes and answers. What is saved is in the table with its
usage unless it was reset (`SavedKept`), saved SIMs are those with an answer and failed ones the rest (`Reported`), and the number of
failing batches is that of the last batches without an answer (`LastFailed`).

Only model-checked: `CallsEnd`, `StreamShowsEnd`, `TicksAnswered` and `LoopEnds`. They need fairness, that is ENABLED, which is
beyond the prover; the theorems on waits, measures and ends above are their safety part, and TLC agreed with those on the
instances of `sync_safety`, `pages` and `backup`, which do not list them. Every other property of a passing run is stated by a theorem.
No module has a RECURSIVE operator; where the code recurses or folds, sets and functions say the same.

## 5. Not modelled

* *Master SIM totals*: a sum read in one query and stored in another. No part of the program decides on the total, and
  the next SIM sync sums anew, so that a wrong one has no consequence that a property could be about. The update
  of a master SIM's description is one query.
* *Read-only services* (dashboards, lists, searches), type declarations, wiring, configuration and the seed: no
  state that others change, or none at all.
* Composing mails and dumps, encryption and hashing, parsing of the upstream's fields: library calls or formats. Names
  and descriptions of groups, filters, sorting and paging of the gateway's own lists: nothing depends on them.
* A SIM number is taken for the same in the upstream's and the table's form (`Number` and `String` of one
  another), which holds for numbers without a leading zero, as the sync stores them. The upstream is taken to
  describe its pages truthfully.
* `AND` and `NOT` in a `where`: the rewriting passes them as it passes an `OR`, unchanged, and the account stands beside them.
  Nested creates: no service sends one.
* What Node does with the rejection that a trigger drops (`sync.controller.ts:79`): the model has the failure, not
  the end of the process it may bring.

What is left to do: sessions when the upstream's tokens live differently long: a shorter token that replaces a longer one
leaves the sessions of the longer one unserved.
