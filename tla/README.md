# VBXSystem: specification, model checking and proofs

VBXSystem is an on-premises vulnerability catalogue: a FastAPI service and one or more
worker processes over PostgreSQL (Redis only counts requests), with a Next.js frontend.
It mirrors the NVD, imports the FSTEC BDU files, the CISA KEV list, EPSS scores and exploit
references, and keeps an internal queue of tickets about vulnerabilities.

This directory holds TLA+ modules that model the stateful core of that system, the TLC
configurations that check them on small instances, and proofs that TLAPS checks for every
value of the constants. All paths are relative to `src/apps/api/app/` unless they start
with `src/`.

## 1. Inventory

| Component | State | Operations | Interacts with |
|---|---|---|---|
| Sync queue (`services/sync_jobs.py`, `api/database_routes.py`, `api/epss_routes.py`, `worker.py`) | rows of `sync_runs` (status, lease, times, error), `source_files`, files on disk | enqueue, claim, execute, finish, reclaim, upload, URL download | every importer below; API handlers insert, workers take |
| NVD mirror (`services/nvd_sync.py`) | `cves`, settings `nvd_mirror_cursor/total/complete` | decide to resume, fetch page, save checkpoint, mark complete | executed by the queue; decision in `sync_jobs.py` |
| BDU import (`services/bdu_*.py`) | `bdu_records`, `cve_bdu_links`, CVE stubs | parse, upsert in batches of 500, relink | executed by the queue; shares `cves` with the NVD mirror |
| KEV (`services/kev_sync.py`) | `cisa_kev`, `cve_records.is_cisa_kev` | upsert list, set flags | after each NVD run, or alone |
| EPSS (`services/epss_sync.py`) | `epss_scores` per (cve, day) | upsert scores, mock fallback | executed by the queue |
| Tickets (`services/tickets.py`) | `tickets`, `ticket_events`, `ticket_comments`, audit rows | create, transition, assign, comment | users, groups, permissions, mail |
| Local ids (`services/local_vulns.py`) | `local_id_sequences`, `local_vulns` | create, update | audit |
| Authentication (`api/auth_routes.py`, `api/deps.py`) | users, recovery codes, login sessions, tokens | register, login, 2FA, refresh, password, enable and disable 2FA | rate limit, audit, settings |
| Rate limit (`core/rate_limit.py`) | one Redis counter per key and address | count a request | login, upload, search handlers |
| Users, groups, API keys (`api/users_routes.py`, `services/api_keys.py`) | accounts, roles, keys | create, approve, disable, revoke | authentication, tickets |
| Dashboard layouts (`services/dashboard_layouts.py`) | system presets, personal layouts, active choice | ensure presets, save as, delete, activate | dashboard handlers |
| XDB, watchlist, settings, LDAP groups | their own rows | import, add, delete, set | administration pages |
| Search, CVEQL, dashboard | none (read only) | queries | all tables |
| Web frontend, deployment, backup | none that the API relies on | | HTTP, Docker |

Hard behaviours, listed one by one with their lines under `hazards` in `PROJECT.json`:
transactions of several processes interleave at READ COMMITTED with very few locks;
objects are read, checked in Python and written back by primary key; one operation is
often several commits, so a crash falls between them; workers die and are restarted;
long jobs outlive the lease that protects them; imports commit in batches.

## 2. Plan

Modules, the most important behaviour first.

| # | Modules | What they are about | State |
|---|---|---|---|
| 1 | `JobQueue`, `SyncJobs`, `SyncJobsProofs` | the queue every import goes through; `SyncJobs` implements the abstract `JobQueue` | modelled, checked, proved |
| 2 | `NvdMirror`, `NvdMirrorProofs` | the longest job, its checkpoint, its verdict | modelled, checked, proved |
| 3 | `TicketBoard`, `Tickets`, `TicketsProofs` | concurrent requests on tickets; `Tickets` implements the abstract `TicketBoard` | modelled, checked, proved |
| 4 | `RecordStore`, `BduImport`, `BduImportProofs` | batches, rollbacks and locks of two imports; `BduImport` implements the abstract `RecordStore` | modelled, checked, proved |
| 5 | `SecondFactor`, `Access`, `AccessProofs` | accounts, login, second factor, recovery codes, tokens, API keys; `Access` implements the abstract `SecondFactor` | modelled, checked, proved |
| 6 | `Requests`; `Layouts`, `LocalIds`, `Groups`, `Settings`, `Sessions`, `FirstUseProofs`; `RateLimit` | rows of the API that are looked up and then created or changed | modelled, checked; proved but for the liveness of `RateLimit` |
| 7 | `Catalogue`, `Epss`, `Xdb`, `FeedsProofs` | what the feeds write beside each other | modelled, checked, proved |
| 8 | `Cveql`, `Search`, `SearchProofs` | what is read: the query language against its grammar, pages against the whole result | modelled, checked; `Search` proved |

The queue and the mirror are not composed. `NvdMirror` lets any number of runs share the
cursor, whoever hands them out, so a run that was requeued while its first execution is still
alive is one of its behaviours already, and its theorems cover it.

`Requests` is extended by every module of groups 6 and 7: handlers with one request each,
in hand from its first read to its last commit. `Epss` extends `Catalogue`, because a score
is only stored for a CVE that is there. `MCFirstUse` puts the modules of
group 6 side by side, `MCCatalogue` those of groups 7 and 8; each behaviour is of one part, since
the parts share no rows.

## 3. The queue: `JobQueue`, `SyncJobs`

`services/sync_jobs.py`, `worker.py`, and the handlers of `api/database_routes.py` and
`api/epss_routes.py` that enqueue runs.

| Model | Code |
|---|---|
| `status`, `owner`, `aged` | columns `status`, `lease_owner` (written together with `leased_at`) and `started_at`, more than 24 hours ago, of `sync_runs` |
| `source`, `file` | kind of the run; the `source_files` row and the file on disk, or the URL that is still to be fetched |
| `requeued` | history: the runs a reclaim has ever put back |
| `pc`, `job`, `row`, `stale`, `left` of a worker | where it stands in `process_pending_once`, the run in hand, the columns it has read of it, the rows its reclaim selected, claims left in this poll |
| `EnqueueFeed`, `EnqueueUpload`, `EnqueueUrl` | the handlers up to their first commit |
| `StoreSource`, `AbortRequest` | the handlers' second commit; an upload too large, a URL refused, or the API stopped between the commits |
| `SelectStale`, `CommitReclaim` | the first half of `process_pending_once`: a SELECT without a lock, then one commit |
| `Lock`, `Claim` | `_claim_one_pending`: `FOR UPDATE SKIP LOCKED`, and the commit that frees the row |
| `Reload`, `Begin` | the refresh after the claim with the status check of `process_sync_run`, and its own commit of "running": it writes the columns that differ from that reading |
| `Download`, `FinishOk`, `FinishFailed` | the rest of `process_sync_run`; a missing source file is one of the failures |
| `EndPoll` | the end of `process_pending_once` and the sleep of `worker.py` |
| `Crash`, `LoseConnection`, `Restart` | the process dies, an exception reaches the loop of `worker.py`, Docker restarts the container |
| `Age` | 24 hours pass over a running row |

`JobQueue` promises: a submitted job is executed by one worker at a time, a finished job stays
finished, and only a job nobody executes is put back. The refinement maps a row to a phase
(`Phase`) and the executing worker to `executor` (`Executor`).

Two switches state what the code does not enforce. `LongJobs = FALSE`: no job takes 24 hours.
`OverlappingReclaim = FALSE`: the reclaims of two workers do not interleave. With either one
TRUE the queue is not exclusive:

- `OverlappingReclaim`: the run `sync_overlap` finds the double execution (finding).
- `LongJobs`: `started_at` is not refreshed during the execution and the reclaim looks at
  nothing else (`sync_jobs.py:208`), so a live run of more than 24 hours is requeued and
  started a second time. `ReclaimOnlyAbandoned` is violated in the configuration of
  `sync_pair` with `LongJobs = TRUE`, without a crash.

| Run | Question | Bounds |
|---|---|---|
| `sync_pair` | Under both restrictions: exclusivity, final outcomes, refinement, and that every enqueued run finishes | 2 workers, 2 runs, one claim in a poll (5 in the code), 2 crashes |
| `sync_anything` | What holds without restriction: a run that was never requeued is executed by its lease holder alone | the same, 1 crash |
| `sync_overlap` | The finding: overlapping reclaims execute a run twice | the same |

Two workers and two runs are the smallest instance in which a worker reclaims while another
claims a different run, and a poll ends with work left over. With `Batch = 1` "the first
`Batch` rows" already differs from "all rows". A third crash repeats the effect of the second
on another row; the theorems of section 11 cover every number of each.

*Fairness.* `WF(WorkerStep)`: the loop of `worker.py` catches every exception and polls for
ever. `WF(Restart)`: the service is `restart: unless-stopped` in `docker-compose.yml`.
`WF(Age)`: time passes. Nothing is assumed about crashes except that there are finitely many.

## 4. The mirror: `NvdMirror`

`services/nvd_sync.py` from the decision in `sync_jobs.py:39` to the verdict. The decision reads the
cursor (`Begin`) and then the flag (`Decide`), and a run that resumes reads the cursor again (`Resume`). A page stands
for 2000 records; `Publish` grows the catalogue at its end while runs go on. `cursor`,
`total`, `complete` are the three settings, each saved by a commit of its own, which is why
`SaveCursor`, `SaveTotal`, `RewindCursor` and `MarkComplete` are steps. `Abort` is an
exception or a death at any of them; `StopEarly` is a page that still fails after the
retries. The variables of a run (`pc`, `start`, `seen`, `pages`, `ending`) belong to a
worker; nothing excludes two runs, so several share the cursor. `mirrored` is what
`cves` holds. Mock mode and the progress callback are left out: neither writes the
state modelled here.

| Run | Question | Bounds |
|---|---|---|
| `nvd_shared` | No page below the cursor is missing, the flag is true, success means the catalogue is mirrored, whatever two runs interleave and wherever they fail | 2 runs, catalogue of 3 pages growing to 4 |
| `nvd_progress` | Runs one after the other that fail, are killed or stop at their limit complete the first mirror, if pages go on being saved | 1 run at a time, 4 pages growing to 5, 2 pages in a run |

`WithinBound` caps the cursor: a run resumed past the end and killed before its rewind leaves
the cursor one page further each time, so beyond `MaxPages + 1` no run begins or is killed
until the cursor is rewound. A catalogue that grows by one page is enough for the total a run
saw to be out of date when it is used.

`EmptyPages = TRUE` lets NVD answer a page inside the catalogue without records. The code takes
this for the end (`nvd_sync.py:294`) and marks the mirror complete: `CompleteSound` is then
violated. It is what the code relies on NVD for, hence a constant.

*Fairness.* `WF(Step)` alone: the thread of the worker goes on with the run it has. Nothing in the
code starts the next run: a failed run is not queued again, an administrator does it (a reclaim
only after a death). So `MirrorCompletes` is conditional on what is not the code's: pages go on
being saved (`PagesKeepComing`: somebody goes on starting runs and NVD goes on answering) and
the worker is killed only finitely often (`KillsEnd`). Failures that the run survives, of a page after its
retries or of the KEV list at its end, may go on for ever. What the code adds, and the property says, is
that saved pages add up: the premise speaks of any page, also of the same one again and again.

## 5. Tickets: `Tickets`

`services/tickets.py` and the handlers of `api/tickets_routes.py`. A request (`request[u]`) is
what a handler has read and computed but not committed: `ReadFor...` checks access and the
transition table on the row as read, `Commit...` writes the columns that differ from that
reading, as SQLAlchemy's flush does, and appends the event; `WriteAudit` is the second
commit, `Drop` a connection or a process lost in between. `history` is the status timeline
(`ticket_events` of a status change), `routed` the routing as created or as the last assign event says,
`audit` the number of audit rows of status changes. `DeleteGroup` (`api/groups_routes.py:62`) takes
the group from all tickets at once, by `ON DELETE SET NULL` and without an event; a request that
then writes the group is refused by the foreign key. `Overlap = FALSE` restricts a ticket to one request
at a time, and the deletion to moments when none is on a ticket of the group. `crossed` is history: the tickets
that ever had two assignments in flight.

Permissions are constants: `Managers` hold `tickets:manage`, `Writers` `tickets:write`,
`Members` belong to the one group. As in `seed.py`, no role has manage without write. Mail,
notifications and the audit rows of creation and assignment are left out.

| Run | Question | Bounds |
|---|---|---|
| `tickets_serial` | one request per ticket at a time: the timeline is a path, only managers reopen, only who sees a ticket changes it, and the tickets are a `TicketBoard` | a manager, and a writer who may be creator, assignee or member of the group; 2 tickets, 2 status changes in all, enough to close and reopen one, or to change both at once |
| `tickets_overlap` | any overlap: the row shows its last event's status, each event is legal, and a ticket that never had two assignments at once is routed as its last assign event says, less a deleted group | the same users and a member without permissions; 1 ticket, 3 status changes |

Both runs use `VIEW Watched`: states that differ only in who was warned of a duplicate or in the number of
audit rows are not told apart, since no guard reads either and no property of the runs speaks of them.

Status requests in flight count towards the bound (`Begun`), so that it bounds the timelines.

`TicketBoard` is what those who work with tickets rely on: opening, moving and routing happen at
once, to the ticket as it stands, by somebody who may do it to the ticket as it stands, and
every move is in the timeline; a group that is disbanded leaves all tickets at once and none is
routed to it again. The mapping is `card <- ticket`, `timeline <- history`, `disbanded <- gone`; a request
in flight is a stutter until it commits. The board knows no audit, no duplicate warning and no
comments, and does not tell by which manager a ticket was routed. Requests on different tickets
overlap freely in it; with two on one ticket it is not implemented, as section 12 says.

## 6. BDU import: `BduImport`

`upsert_bdu_records` (`services/bdu_import.py`) and its stub cache. An importer is a worker
with an open transaction `tx`: rows written, stubs inserted, links deleted and added. One
step is one statement that locks or sees rows: `Lookup`, `FlushRow`, `Relink`, `InsertStub`,
`AddLinks`, `CommitBatch`, `CommitLast`. `Reject` is a unique or foreign key error, `Victim`
the transaction that the database chooses in a deadlock, `Fault` any other error, `Die` the
worker's death; all but the last go through `Rollback`, which drops the open batch and goes on
with the next record, as the `except` branch does. The contents of a record are reduced to who
wrote it; parsing is left out.

`bdu_import`: two importers, files of three records over two BDU ids and two CVEs in
opposite orders, one record twice in a file, one record without a CVE; `Batch = 2` (500 in the
code), so that a batch boundary falls inside a file and the last batch is partial; one fault.
In this instance the imports block and deadlock, a stub meets an NVD page, and the same record
is written by both. *Fairness.* `WF(Step(i))`; `Step` contains `Victim`, because PostgreSQL
detects deadlocks.

`RecordStore` is what a reader of the catalogue relies on: an import takes the records of its
file in their order, some at a time; those taken together show at once, each with its own links,
every link with its CVE; records that are passed over are passed over for good, and nothing else
changes a record. The mapping is `entry <- row`, `linked <- links` by record,
`catalogue <- cves`, `taken <- kept`, `source <- file`: locks, open transactions, rollbacks and
deaths are stutters, and a commit is one `Take`. It is implemented without restriction.

## 7. Accounts: `Access`

`api/auth_routes.py`, the account handlers of `api/users_routes.py`, `api/deps.py`,
`services/api_keys.py`, and the seed of the super admin.

| Model | Code |
|---|---|
| `account`, `code`, `key`, `force` | rows of `users`, `recovery_codes`, `api_keys`, the setting `force_2fa` |
| `tokens` | unexpired tokens handed out, by kind and user; they are signed, not stored |
| `request[h]` | what a handler has read and decided but not committed |
| `SignedIn` | `get_current_user`: each use of a token or a key reads the account anew |
| `Register`, `SetStatus`, `ChangePassword`, `Setup`, `Enable`, `Disable`, each with its `Commit...` | a handler up to its decision, and its commit: only the columns that differ from what was read |
| `LoginPending`, `Login`, `LoginTotp`, `LoginRecovery`, `SpendCode`, `IssueTokens`, `Refresh` | the login in its two halves, and the refresh |
| `CreateKey`, `RevokeKey`, `ResolveKey`, `StampKey` | the life of an API key |
| `Drop`, `Restart`, `Expire` | a request or the process is lost; the seed makes the super admin active again; a token expires |

`overlapped`, `confirmed`, `handed` and `spent` are history: whether two requests of a user
were ever in flight together, which secret the last `2fa/enable` verified, which codes it
answered with, and how many logins a code completed. Two properties hold without an overlap
and are false with one, and say so; `RevocationStays` holds whatever overlaps.

`access_pair`: one account, two requests, two secrets, two codes of one each time, one key.
Every pair of handlers meets on the account; a third request would meet rows the first two
have already brought into each of their states. Requests, secrets and codes are
interchangeable (symmetry); the run has no liveness property.

`SecondFactor` is what a user whose requests come one after the other relies on: the factor is
set up, switched on, switched off and opened with a code in single steps, each on the factor as
it stands; codes are fresh when handed out and gone once used or replaced. The mapping takes
`secret` and `on` from the account, `codes` from the unused codes of the user, `given` from all that
were ever handed out, and `disturbed <- overlapped`. Keys, tokens, restarts and the readings of
requests are stutters, as is what other users do. Nothing is promised to a user whose requests ever
overlapped: two `2fa/enable` at once leave the codes of both (section 12).

Left out: the value of a TOTP code and its clock, the stamp of a key's last use, mail and
audit rows, requests that are refused at once, and changes that write nothing.
Administrators call from accounts of their own.

## 8. Rows made on first use

All of these modules extend `Requests`: `Goto` keeps what a handler has read, `Finish` ends it.

| Module | Code | State and actions | Properties |
|---|---|---|---|
| `Layouts` | `services/dashboard_layouts.py`, `seed.py` | `preset`, `layout`, `active`; the seed (`Boot`), the first request (`EnsurePresets`), create, activate, delete, each read and commit | `PresetsUnique`: after one seed each preset exists once. `ActiveVisible`: no choice points to a deleted or foreign layout, thanks to the foreign key |
| `LocalIds` | `services/local_vulns.py` | `last`, `holder` of the row lock, `issued`; drawing a number, first number of a series, commit, rollback | `IdsInOrder`: ids are 1 to the counter, each once |
| `RateLimit` | `core/rate_limit.py` | `hits`, `expires`; INCR and EXPIRE as two steps, each of which may fail; `passed`, and `failed` of them because Redis failed, since the limiter lets those through | `PassedBounded`: a window lets through the limit, those for which Redis failed, and at most the requests that were counted in the one before and still in flight, a bound that is reached. `BlockLifted`: blocking ends unless a failing EXPIRE, a lost answer of the first INCR or a death left a key without expiry |
| `Settings` | the forms of `api/integrations_routes.py`, `api/security_routes.py`, `api/branding_routes.py`, `services/ldap_service.py` | `setting`; a save carries any of the form's fields, one commit for each | `FieldsAsSaved`: a key holds what the last save that named it carried, whatever saves of other keys meet or break off beside it; not a key that two saves carried at once, or that a broken save did not come to |
| `Sessions` | `services/auth_helpers.py` | `sessions` and `announced` per device | `NewDeviceOnce`: one row and one announcement per device unless two logins met |
| `Groups` | `api/groups_routes.py`, `api/users_routes.py`, `services/ldap_service.py` | `group`, `member`; create, delete, selection of a user's groups, synchronisation with the directory as one commit | `GroupsAsChosen`: a user is in the selected groups nobody has deleted. `ListedKept`: a group a sync has found keeps its name and external id |

`first_use` checks them all with two requests at once: two users, one preset, two personal
layouts; two series with up to three numbers; a limit of two with four requests and two failures of Redis in
a window; a form of three fields, any of them saved in two versions; one device; one member, two names, a directory of two
entries and two group rows. Two requests are what each of these races needs; a third
number shows a gap, a third field a middle.

*Fairness* (`RateFairness`): Redis expires its keys, and a handler that runs reaches EXPIRE.
The process dying before it is `Restart`, a command that fails `IncrFails` or `ExpireFails`; `faults` says
that a key was left without expiry by one of them.

## 9. What the feeds write

- `Catalogue` (`services/nvd_sync.py`, `services/kev_sync.py`): an NVD page reads a CVE with its
  flag and commits it later; a KEV run reads its items one by one, flags the CVEs that exist
  and commits once; the sample list is the fallback. `ListedFlagged`: a page never writes an
  old flag back over a list committed in between.
- `Epss` (`services/epss_sync.py`): rows of a CVE and day in the order of their ids; live
  import in batches, a CVE as often as the feed names it; mock scores in two generations, two loops
  that look each CVE up on their own while pages of NVD are committed; the fallback in the same
  session, midnight in between. `ScoresInOrder`: the greatest id is the newest day, once per day, as
  the readers of `services/epss_service.py` assume; not when two syncs meet or the kinds of feed are
  mixed, nor for the CVEs in `askew`, which one sync found in its second loop and not in its first, or
  twice in an uncommitted batch. `PreviousGenerationFirst` is what the docstring of the mock promises;
  `epss_generations` finds it violated (section 12).
- `Xdb` (`services/xdb.py`, `api/xdb_routes.py`): a file is applied record by record and
  committed as a whole. `LastFileWins`: each exploit says what the last accepted file said.

The run `catalogue` checks these, followed up to an overlap of two EPSS syncs: two jobs at once, two CVEs of which one is in the sample, two days, batches of two,
two exploits with two contents, files of two records. Two records are what a repeated id
needs; two days are what a midnight needs.

## 10. What is read

- `Cveql` (`services/cveql_parser.py`): the recursive descent parser, written as recursive
  operators, beside the trees its grammar allows. `ParsesTheGrammar`: one tree, that one, or
  a refusal. Every sequence of up to seven groups of tokens (a comparison, the parts of a list, "and",
  "or", parentheses, a lone field), and of eight if they are comparisons, "and", "or" and parentheses
  only, whatever the parser makes of their beginnings: three operators between four comparisons, two
  beside a pair of parentheses, lists, and what is no query at all.
- `Search` (`services/search.py`): three blocks (CVEs in the order asked for, BDU records, local
  vulnerabilities), counted and then fetched page by page with an offset into each.
  `Write` is any other transaction: a CVE is added or rewritten (its date by NVD, its flag by a KEV list,
  its links by a BDU import, its score), a BDU record is imported or imported again and moves, or
  leaves the list, a local vulnerability is added. `PagesMakeResult`: the pages are the result unless
  a write changed the result (`changed`) after the first page was begun; writes of rows that were not
  asked for, or that leave rows where they are, do no harm. Two CVEs, two
  rows of each other kind, pages of one to three: pages that begin or end inside a block, end with
  it, and span all three.

The run `catalogue` checks both beside the feeds; a search is followed to the first write that changes its result. The text, severity and date filters are left out.

## 11. What is proved

TLAPS checks these for every value of the constants that meets the named assumption of the
module (sets of workers, users and tickets of any size, any number of runs, pages, crashes).
Safety and refinement only; each invariant was checked with TLC on the instance of a run first.
The `TypeCorrect` theorems replace type invariants in the runs. Four of the theorems are
refinements: `QueueImplemented`, `BoardImplemented`, `StoreImplemented`, `FactorImplemented`.

**`SyncJobsProofs`.** `TypeCorrect`; `FreshRunsExclusive`, without restriction, from the
invariant `FreshInv`: a run that was never requeued and is in hand is `running` under the name
of its holder, and what the holder has read of it says the same (`Holds`), because `process_sync_run`
writes what differs from its reading. It rests on `LockInv`: a run that a claim has locked is still
pending, and no second worker has the lock. Exclusivity itself is not inductive: it needs to know that rows a worker has
selected for reclaim are still abandoned when it commits. `IsolatedInv` adds `JobInv` (a worker inside
a run knows its id), `LeaseInv` (what it executes it `Holds`), `SelectionInv` (a
selection is running and executed by nobody) and `OneReclaim` (one worker at most is between
selection and commit). It is inductive under `Isolated`: one worker, or both restrictions of
section 3. From it follow `ExecutionExclusive`, `OutcomeFinal`, `ReclaimSafe` and
`QueueImplemented`, the refinement: initial states map to initial states and each action to
one step of `JobQueue` or to a stutter.

**`NvdMirrorProofs`.** `TypeCorrect`; under `~EmptyPages` the invariant `MirrorInv`:
`CheckpointSound`, `CompleteSound`, `SuccessSound` and `RunSound` (everything below a run's
start, its saved position or the total it has seen is mirrored, at each point of the loop).
`RunSound` is what makes the rest inductive: a run writes its own position over the shared
cursor, so every run's position has to be sound by itself. `CheckpointNeverSkips`,
`CompleteFlagTrue`, `SuccessCoversCatalogue` follow.

**`TicketsProofs`.** Without assumption on overlaps, `Sound`: type, a pending status request
is a legal transition by a writer and, from `closed`, by a manager (`RequestsSound`), the row
shows the last event (`StatusIsLastEvent`), each event is legal (`EventsLegal`). `RoutingKept`, without
assumption too, adds `SoleAssign`: an assignment in flight on a ticket not crossed is the only one, and
what it has read is still the row, less a group deleted since; and `GoneFromAll`: a deleted group is on no
ticket. `AssignmentRecorded` is not inductive without them. Under
`~Overlap`, `Isolated` adds that a ticket has one request (`Alone`) and that the request's
reading is still current (`Current`). Theorems: `TypeCorrect`, `TimelineEndsInStatus`,
`EventsAreLegal`, `RoutingIsRecorded`; `TimelineIsPath`, `ReopenedByManager`,
`AccessHoldsAtCommit`; and `BoardImplemented`, the refinement of `TicketBoard`. That a commit is
a move of the board needs what `Isolated` says, the reading is still the ticket; that it is an
opening or a routing by somebody who may needs `AllEntitled`: the rights a request was found to
have are rights of its user, which no step changes. With `Overlap` it is false, hence the
hypothesis.

**`BduImportProofs`.** One invariant, `BduInv`, without restriction on what the importers do to each
other: `RowsApart` (who has written a row holds it until it commits), `LinksExist` and, for each
importer, `Own`: where its loop stands (`Place`), what its cache may hold (`Cached`), how far
back the open batch reaches (`Near`, `Passed`), and what its open transaction does to links
(`Writes`: its additions for a record are those of its last write of it; `Clears`: it deletes every
committed link of a record it has rewritten). `LinksOfLastImport` is not inductive without
`Clears` and `RowsApart`: a link committed by another import between relink and commit would
survive, and the row lock is why there is none. Theorems: `TypeCorrect`, `StubCacheSound`,
`LinksAreOfLastImport`, `LossIsBounded`, and `LinksComeAfterCves`, that the foreign key of the links
is never violated; and `StoreImplemented`, the refinement of `RecordStore`. It adds `Ahead` (what an
importer has committed is behind the positions it has in hand, so that records are taken in
order) and that the row of a record and its links are committed by the same step: every other
record keeps both, because its links are only deleted by who holds its row. Assumed: files are sequences of records, keys of the two kinds differ, a
batch is not empty. That a nonempty set of numbers has a least element (`Least`, for the
next stub) comes from the well-foundedness of `<` in the library.

**`AccessProofs`.** `AccessInv` is the types; `CodesOwned` and `Owns`, which hold whatever overlaps (a
code belongs to the user it was handed to, and a request only touches codes of its user); and
for each user who never had two requests in flight `Undisturbed`: the user's one request is
`Alone`, what it has read is `Current`, each code has opened at most one login and none while it is
unused (`Once`), and an enabled factor is the confirmed secret with the codes handed out for it
(`Whole`). Theorems: `TypeCorrect`, `SecondFactorStaysWhole`, `CodesAreSpentOnce`; and
`RevocationsStay`, an action property that needs types only; and `FactorImplemented`, the refinement
of `SecondFactor`, without hypothesis on the requests: the abstract specification itself says
whose factor it speaks of. `FactorInv` adds to `AccessInv` that an account that is not there has
no factor (`Bare`), so that registration is a stutter, and that a request stands on what it was let in for
(`Standing`): the user of a setup or an enable is there, and the factor of a user without overlaps
is on when a code is spent or the factor switched off. The proof has one lemma for each abstract
action, and `Untouched` for all users but the one a commit is about. Assumed: the codes are a finite set,
`Null` is none of the names, and an enable hands out at least one code.

**`FirstUseProofs`.** The parts of `MCFirstUse`, each with its invariant (layouts and groups with
two):

- *Local ids*, `NumbersInOrder`. That numbers are unique is not inductive: it needs `InHand`, who has a
  number in hand holds the lock of its series and has the next one; `Counted` and `Unborn` tie
  the ids issued to the counter of the row.
- *Layouts*, `ActiveIsVisible`, inductive together with types: a choice is checked against the foreign
  key when it is committed, and a deletion clears it. `PresetsStayUnique`, from `PresetsInv`: after a
  seed no request finds a preset missing, and no request outlives the process, so that none
  with an old reading is in flight when the next seed runs.
- *Rate limit*. `EveryKeyExpires`, the safety half of `BlockLifted`: a counter without an expiry has its
  creator still on the way to EXPIRE, or was left so by a failure. `WindowIsBounded`, for every set of
  handlers and every limit: `PassedBounded` is not inductive, because a request counted in one window may
  be let through in the next. `Carried` counts them: the requests let through and those
  in flight that will be are at most the handlers, the smaller of counter and limit, and those let through
  because Redis failed.
  Assumed: finitely many handlers, and a limit that is a natural number.
- *Devices of a login*, `DevicesAreNewOnce`, from `Single`: for a device that never had two logins in
  flight, the one login that found it new still finds no row of it.
- *Settings forms*, `FieldsStayAsSaved`, from `Kept`: a key that is not lost is in the hands of at most
  one save, the last that named it, which has read what the key holds once it has come to it; and
  when none has it, it holds what was wanted. Assumed: a form names no key twice.
- *Groups*, `MembershipAsChosen`. The strengthening is `Fresh`: an update in flight whose user has no
  other finds the membership as it read it, but for groups deleted since; and `Ids`: ids are
  handed out in order and never again, so that a lost group cannot come back.
  `ListedGroupsKept`, from `Plan`: what a sync is about to write matches the entry it is for, and the
  group is as it was read or already as the entry. It holds while no row was made of two
  entries (`Pure`). Assumed: entries of the directory differ in name and in external id.

**`FeedsProofs`.**

- *KEV flags*, `ListedAreFlagged`, without restriction: a KEV run in flight will flag, of the items it
  has read, all that were in the catalogue when it began (`Collecting`).
- *XDB*, `LastFileIsKept`: while no two imports met, the only one in flight has read the rows as they
  are (`Reading`), so that what it puts over them is what the file says.
- *EPSS*, `ScoresStayInOrder`. Order of rows is not inductive, since a sync computes rows before
  it commits them. `EpssInv`: as long as no two syncs met and only one kind of feed was used, the
  table followed by what the sync in flight adds is in order, but for the CVEs in `askew`, and no later
  than its day (`Prepared`, by `Table`), and with the mock alone every other CVE with a score has its row of
  the old generation (`Grounded`), so that the mock never inserts that one behind a newer. `LoopInv` says
  how far the two loops are: the first has added old rows only, and in the second every CVE of the sample
  has its old row or was missed.

**`SearchProofs`.** `PagesAreResult`, for any tables, flags, sort order and page size. `Arrangement`: a
relation that orders a finite set strictly and totally arranges it in a sequence, the place of an
element being the number of those before it; so the block of CVEs is a sequence whatever the sort
order (`OrderedOrders`). `TakeNext`: a page that has its window of the blocks so far, and takes what
it needs from the next at the offset that is left, has its window of the blocks together.
`ByScoreShuffles`: sorting the CVEs of a page by score permutes them. The invariant is `Paged`: while
no write has changed the result, what was shown is the beginning of the result, as long as the pages read
so far could hold, and what was counted is still so. The list of CVEs is defined by the order of its elements (`Arranged`) and not by
the library's sort, which the prover cannot expand.

**Only model-checked.** The liveness properties (`EventuallyFinished`, `MirrorCompletes`, `ImportsEnd`,
`BlockLifted`): liveness under fairness is out of the prover's reach. `ParsesTheGrammar`: `Cveql` is
written with recursive operators, like the parser, and what a recursive descent returns for every
query needs an induction over data; neither can be given to this prover. Every other
property of the passing runs is a theorem.

## 12. Findings, and facts without a run

Two runs have `expect: violation`; the quotations are in `PROJECT.json`.

- `sync_overlap`: overlapping reclaims execute a run twice, although the leases were added for several
  workers.
- `epss_generations`: a page of NVD is committed between the two loops of a mock sync; the CVE gets
  today's row alone, and the next mock sync inserts the "previous generation" behind it, which the readers
  then take for the current score.

These were met while modelling. The properties are stated so that they allow for them:

- *Queue.* A BDU run is committed as pending before its file is stored; a worker that polls in
  between fails it (`api/database_routes.py:251`).
- *NVD.* After the first complete mirror an interrupted run starts from the beginning
  (`services/sync_jobs.py:45`).
- *Tickets.* Two requests may reopen a closed ticket without `tickets:manage`, each legal on what it
  read (`services/tickets.py:273`); two creations at once miss each other's duplicate
  (`services/tickets.py:140`), and the duplicate filter has no `.strip()` although creation has; when
  two assignments overlap the row may show the assignee of one and the group of the other. Who is
  reassigned away from a ticket may still move it with a request read before. The deletion of a group
  leaves no event.
- *BDU.* The reported counts include records a rollback dropped (`services/bdu_import.py:114`); of a
  record imported twice at once, `linked_cve_ids` may be of one import and the links of the other.
- *Second factor.* `2fa/setup` switches an enabled factor off, also under `force_2fa`
  (`api/auth_routes.py:304`), where `2fa/disable` refuses; `src/docs/agents/W1_auth_users.md:23`
  says "Enable/disable 2FA (QR + recovery codes) unless forced by policy". Two `2fa/enable` at once leave the codes of both. A recovery code may open two
  logins that read it at once.
- *Super admin.* `update_user` may disable it, until the seed of the next start.
- *EPSS.* A feed that names a CVE twice within a batch inserts its row of the day twice. A mock run after a live one inserts its "2024-01-01" generation with newer ids, and from the
  second mock day on the newest two generations are equal, so that the deltas the docstring
  promises are zero (`services/epss_sync.py:27`). Two syncs at once insert a day twice.
- *KEV.* A list that names an id twice fails at the commit, and its fallback runs in the broken
  session. A CVE that arrives after its item was read waits for the next list.
- *XDB.* A file that lists a new id twice is refused as a whole.
- *Layouts.* If no seed has run through, two first requests insert the presets twice, and
  `one_or_none` then fails for everyone.
- *Settings.* Fields are optional, so two saves in sequence leave a form of both; one that breaks off, or
  meets another on the same keys, is stored in parts.
- *Groups.* Overlapping selections of a user's groups end as a sum that nobody selected. A group made
  by hand with the name of one directory entry and the external id of another is matched by both;
  it ends as the later one and the other has no row, though it is counted as updated.
- *Rate limit.* It fails open: while Redis fails any number of requests pass.
- *Search.* Pages are counted and fetched anew each time: a row that arrives, leaves or moves in between is
  lost or repeated. The date preset filters CVEs only; `sort=epss` orders within a page only. In CVEQL
  `has_bdu` ignores its operator (`services/cveql_exec.py:85`), and any token, a keyword or a
  comma too, is accepted as a value.

## 13. Abstractions and what is not modelled

- A row lock held to the end of a transaction makes lock, change and commit one step (`CommitVuln`), where
  the queue's claim keeps them apart (`Lock`, `Claim`); the reload before the outcome and its write are one
  step (`Finish`). `Access!Enable` and `BduImport!Relink` are one step each for a DELETE and reads beside it,
  which no step in between can tell apart. `Access!ResolveKey` does not look at `expires_at`, so it
  allows more than the code.
  Flush and commit are one step where nothing can be seen in between.
- A new row gets any unused id: concurrent requests commit their sequence values in any order.
  In `Groups` and `Epss`, where the order of ids matters, the commits are in that order.
- The API is one process (`src/apps/api/entrypoint.sh:27`); its handlers run in a thread pool.
- `aged` is tracked for running rows only: nothing reads it elsewhere.
- A mirrored page is one commit with all its records; that `NvdInsert` in `BduImport` and `ReadPage`
  in `Catalogue` commit one CVE at a time allows more than the code does.
- Columns that no other step reads back are left out: profile fields, roles and scopes, widgets,
  contents of a record, texts.
- Not modelled: the watchlist (independent inserts and deletes), `update_local_vuln`, the parsers of XML,
  XLSX and CSV, the tokenizer and the SQL of CVEQL, the counters of the dashboard, SMTP and
  encryption (libraries), schema migrations, deployment scripts and the frontend. They keep no
  state that another step relies on, or run while nothing else does.

`Mistake:` comments in the modules mark definitions that are no part of the specification:
they state a plausible bug, and each property was seen to fail when the real definition is
replaced by one of them.
