# Formal models of the AI PMO Copilot (STRATECH)

TLA+ specifications of the backend in `src/src/` (FastAPI over PostgreSQL), the
TLC configurations that check them on small instances, and TLAPS proofs about
them for instances of every size.

    tlc -workers 2 -config MCAdminRoles.cfg MCAdminRoles.tla
    tlapm AdminRolesProofs.tla

## 1. The system

One `api` process (`docker-compose.yml`) serves HTTP requests on FastAPI's
thread pool; a Next.js server (`src/web`, the BFF) is its client. All state that
outlives a request is in PostgreSQL, except the rate limiter's and the login
guard's counters. The route handlers are synchronous functions, so requests run
concurrently in threads and meet in the database, in short transactions under
READ COMMITTED. There is no queue and no worker process: events are dispatched
in the thread of the request that publishes them.

A use case is usually a *chain* of transactions: the repository commits the
change, the service then records an audit entry in a second transaction, then
publishes an event (a third one) whose handlers write tables of their own.
Between two of them anything may happen: another request, an exception, the end
of the process. This is what the models are about.

### Components

| Component (source below `src/src/`) | State | Operations | Interacts with | What is hard | What makes it correct |
|---|---|---|---|---|---|
| Role administration (`database/administration_repository.py`, `services/administration_service.py`, `api/routes/administration.py`) | `users.is_active`, `user_roles` | activate/deactivate, assign role, remove role | audit log | two requests that each take one of the last two administrators away; locks that cover one of two joined tables; lock order | an organization keeps an active administrator; every request ends |
| Invitations (same files, `api/routes/invitations.py`) | `invitations`, `users` | create, accept, cancel, list | events, audit | two acceptances, acceptance against cancellation, expiry between the two checks, the address taken meanwhile | one account per token, in time; accepted or cancelled, never both |
| Events (`services/events`, `workflows/runtime.py`, `workflows/execution_tracking.py`) | `events`, `dead_letter_events`, `workflow_executions` | publish, dispatch, run a workflow | every producer | retries, failures of the failure handling, crash after the write | each handler is settled before `publish` returns; the tables tell the truth |
| Document ingestion (`services/knowledge_platform`, `api/routes/knowledge.py`) | `documents`, `document_versions`, `chunks`, audit | upload, upload from URL, reindex, status | events | first uploads of one source, "latest version" read by another request, a failure after the commit | an announced document is searchable; a source has one document |
| Performance history (`database/performance_repository.py`, `services/executive_analytics/performance_service.py`) | baselines, snapshots | author a baseline, capture a snapshot | events, every project read | version numbers, one snapshot a day | append-only history |
| Authentication, sessions, API keys (`services/identity`, `api/authorization.py`, `api/identity_context.py`, `api/routes/auth.py`) | `sessions`, `api_keys` | login, logout, revoke, authorize | login guard, every route | check and use are separate transactions | a revoked credential is refused and stays revoked |
| Rate limiter and login guard (`api/rate_limiter.py`) | counters in memory | allow; check, record a failure or a success | every route; login | the clock is read before the lock is taken; three critical sections per attempt | the configured limits are exceeded by concurrent requests at most |
| Domain hierarchy and project identity (`services/domain_service.py`, `database/domain_repository.py`, `database/enterprise_repository.py`, `database/project_identity.py`) | `portfolios`, `programs`, `projects` | create, attach, get-or-create and resolve by name | analyses, advisors | get-or-create without a lock; names stored as typed, resolved normalized | one project per name; a name leads to the project it was typed for |
| Analyses and views (`api/routes/intelligence.py`, `database/repository.py`, `services/project_summary_service.py`) | `analysis_records` | analyze, list, summarize | project identity, language model | resolve, then read | an analysis is seen under its own project and organization only |
| Advisors (`agents`, `services/advisor_framework`, `services/ai_foundation`) | none between calls | collect evidence, ask the model, keep what it may cite | analyses, hierarchy, documents | evidence is collected by many transactions while others write; the model may answer anything | nothing is used or cited from outside the declared scope |
| Executive orchestrator (`services/executive_orchestrator`) | none between calls | select advisors, run each, correlate, consolidate | advisors | an advisor without evidence, one that cites nothing, one that fails | "nothing to answer from" is said only when it is so |
| Executive analytics (`services/executive_analytics`) | none (pure) | earned-value metrics, history series, signals | performance history | zero denominators, dates at the ends of a baseline, thresholds | a figure exists exactly when its data do; signals follow the figures |
| Migrations and bootstrap (`alembic`, `main.py`, `services/identity/auth_service.py`) | every table, once per release and per start | upgrade, downgrade, start | everything stored before | sequences of releases, renames and starts | no analysis is lost or refiled; every start succeeds |
| Vector search, enterprise memory | embeddings, memory records | search, classify | documents | numeric | not modelled |
| Backup, restore validation | files | run by hand | database tools | external | not modelled |
| BFF and web interface (`src/web`) | session cookie | proxy, pages | api | other language | not modelled |

`PROJECT.json` lists the same parts with their status, and under `hazards` the
lines at which this code is hard to test.

## 2. Modules

Each of the first specifications has an MC module that instantiates its constants
for TLC (or, for `PerformanceHistory`, only a cfg, as its constants are plain
sets); the five from `RateLimiter` on share no state and are checked together by
`MCPlatform`. The first five are proved about in a `...Proofs` module each; the
limiter and `Access` are in `AccessProofs`, `Workspace` and `Advice` in
`AdviceProofs`, `EvmMetrics`, `Deployment` and `MCPlatform` in `PlatformProofs`.

| Module | Models | Form |
|---|---|---|
| `AdminRoles` | status and role changes of one organization | requests as statement-by-statement transactions |
| `InvitationLifecycle` | what an invitation promises | abstract |
| `Invitations` | create / accept / cancel over the database | implements `InvitationLifecycle` |
| `EventDelivery` | what publishing an event promises | abstract |
| `EventDispatch` | publisher, dispatcher, workflow runtime, tracker | implements `EventDelivery` |
| `DocumentIngestion` | upload, index, reindex | composed with `EventDispatch` (INSTANCE) |
| `PerformanceHistory` | baselines, snapshots, the automated capture | composed with `EventDispatch` (INSTANCE) |
| `RateLimiter` | the sliding window of one identifier | threads that read the clock before the lock |
| `LoginGuard` | failures and lock of one identity | the methods; extended by `Access` |
| `Access` | login, sessions, keys, authorization of one user | requests as chains of transactions |
| `Workspace` | hierarchy, project names, stored analyses | requests that write; extended by `Advice` |
| `AdvisorCatalog` | selection, correlation, consolidation | pure operators; extended by `Advice` |
| `Advice` | views, advisors, orchestrated questions | requests that read, over `Workspace` |
| `EvmMetrics` | earned-value figures and signals | operators over a history that grows |
| `Deployment` | migrations, boot, renames | one installation over its releases |

Conventions. A request slot is a record whose `step` names what the thread does
next; an action is one database statement (or one transaction, where nothing
inside it can be observed) with the Python code up to the next one. `Begin...`
actions are clients sending requests, `Fail`/`ServerError` an exception or lost
connection at any step, `Crash` the end of the process. Operators marked
*variant of X* are plausible bugs in `X`; no specification uses them, they are
the mutants `PROJECT.json` lists, and each one makes TLC refute a property.

### AdminRoles
`active` and `admin` are the columns, `rowLock` the row locks of `SELECT ... FOR
UPDATE OF users`. The locking select follows PostgreSQL: `SelectActiveAdmins`
takes the statement's snapshot, `LockRow` locks its rows one at a time in any
order (there is no ORDER BY) and re-checks `is_active` in the newest version of
the locked row, while the joined `user_roles` row remains that of the snapshot.
`Refuse` and `Permit` are the guard on `len(locked_ids)`, `WriteStatus` and the
other writes the flush and COMMIT; the ORM's UPDATE is emitted only when the value
differs from the one loaded. `BreakDeadlock` is the database's deadlock detector.

### Invitations
One `req` record per slot again; `delivered` are the tokens that somebody holds
(the token is in the answer only, after audit and publication). `Resolve` is the
service's unlocked look-up and `CheckStatus` its check of the row found, which
reads the clock; `ReadClock` is the repository's own reading after the password
was hashed, `Lock` the `FOR UPDATE` re-check against that second reading,
`CreateAccount` the single transaction that writes account, role and `accepted_at`,
`EmailConflict` the unique index. Between `CheckStatus` and `ReadClock` the
invitation may expire, so the re-check in `Lock` refuses what the service let
through; without it `AcceptedInTime` fails. `ReadForCancel`/`UpdateCancelled` are the unlocked read and the
UPDATE by primary key. Account creation and address changes by an administrator
are `AddAccount` and `ChangeEmail`.

### EventDispatch
`call[e]` is the position of the publishing thread: current handler, attempt,
step. A handler that goes through `WorkflowRuntime` expands into the tracker's
three writes; a plain one returns or raises. Every write can raise, *in doubt*:
rolled back, or committed with the acknowledgement lost. `Crash` ends all threads.
In production each event type has at most one handler
(`api/dependencies.py`); the model has lists of handlers, as `register` allows.

### DocumentIngestion
A request is find → insert → commit → audit → read latest → chunks → publish →
dispatch → audit. Publication is `EventDispatch` itself, instantiated with the
requests as event ids: `Publish` and `RunHandlers` take its actions, `Crash`
takes its crash. `Init` starts from any history of earlier uploads, including
one that left two documents for one source. Embedding is external: it returns or
raises.

### PerformanceHistory
Three kinds of request on one project. An author reads `max(version)`, inserts
all points in one transaction and publishes; the event's handler is the capture
of a snapshot, so the request goes through the capture steps while its
publication stands at the handler, and `Leave`/`Raise` tell the dispatcher how
it ended (`PlainReturns`, `PlainRaises`). Any read of the project and the
explicit POST capture on their own account: there `Leave` answers, `Raise` is a
500. A summary reads the active version and then its points. `Attach` is
`attach_project_to_program`, the only place that changes a project's figures.
The unique constraints are the guards `Conflict` and `snapshots[day] # Null`:
they stop an insert, nothing maps the error they raise. `alone` remembers which
requests no other one overlapped. Reading the list of projects captures for each
of them; the model has one project, as no statement relates two.

### RateLimiter and LoginGuard
`allow()` is `ReadClock` and then `Refuse` or `Admit`, the critical section: `now`
was read before the lock, so threads may enter in another order than they read,
and a later reading has dropped hits an earlier one would have counted.
`hits` is the list the code keeps, `admitted` a history of all of it. `LoginGuard`
gives the bodies of `check`, `record_failure` and `record_success`; each takes
the clock value that its caller read.

### Access
A login is check → authenticate → record failure or success → create the
session, a protected request is revocation check → permission check → handler (or,
by key, find → touch → permission), a revocation is load → write → audit.
`CommitStatus` is what `AdminRoles` models in detail, in one step. `cutOff` and
`seenActive` are history: whether the credential was already revoked, and whether
the user was ever active, since the request arrived. `RestartProcess` empties
the guard and keeps the tables.

### Workspace and Advice
A name is <<key, padded>>; `ProjectFor` is `normalize_project_name` with the
fallback project. Writers create portfolios, programs and projects (`CheckParent`,
then an insert that a unique constraint may refuse) and store analyses
(`LookupProject`, then `SaveAnalysis`, or `LoseAnalysis` when the project appeared
in between). Each analysis remembers, as history, the name its user typed.
Readers open a view or ask: a question has a declared scope and a queue of
advisors, chosen by `Selected` (module `AdvisorCatalog`); each advisor provisions
its evidence, query by query, and is then answered without evidence
(`AnswerWithoutEvidence`), by the model (`CallAdvisor`, which cites nothing or
all it can) or not at all (`InvalidAdvice`). The strategy advisor's assembler
lists projects, portfolios, programs and members in separate transactions and
fails when a member is new (`ListUnitProjects`).

A delivery project's name is not validated, so its stored name may be blank or
padded. The instance has a blank one beside a regular one; the part was also run by
itself with a padded one (1.0 million states, no error). `AnswersStayInScope` compares
names stripped and claims nothing for a blank one (section 4 says why).

The direct route of the risk advisor also searches the documents of the whole
organization and puts what it finds into the prompt (`context`). These chunks are
no evidence: they cannot be cited, and without analyses the model is not called.
That route declares a project and promises nothing of documents; for the
orchestrated questions, which do promise to stay in the declared scope,
`AnswersStayInScope` also speaks of `context`. Declared objectives are evidence of the
strategy advisor: those of portfolios and programs (`Declaring`) are added by the
passes over them, those of projects (`DeclaringProjects`) by the project units at
the head of `ListPortfolios`.

### EvmMetrics
`Summary(day)` is `compute_evm_summary`, over fractions, with the reason of each
figure that is not available; `TrendSignal` and `ForecastSignals` are the signal
engine. Where the code's rounded decimals are compared with a threshold they may
equal, both outcomes are possible.

### Deployment
One action for each upgrade and downgrade of the revisions that change rows of
organizations, projects or analyses (`Revisions`), the boot as configuration check and
three bootstrap transactions, and what users do between two migrations: rename an
organization, create a project, store an analysis. Foreign keys that refuse a
downgrade are guards (`UnseedDomain`). `AnalysesKeepTheirProject` compares the name
an analysis is shown under in every step, and its organization in the steps between
revisions from 0002 on: 0001 has no organizations, and the upgrade from it files
every analysis under the default one, whosever it was before the downgrade. The
branches that migrations have for SQLite are left out.

## 3. Runs

| Run | Instance | Shows |
|---|---|---|
| `admin_roles` | 2 users, 2 slots | `StatusChangesKeepAnAdmin`, `LockedUsersStayActive`, `SerialRequestsKeepAnAdmin`, `RequestsTerminate` |
| `admin_roles_last` (violated) | 2 users, 2 slots, symmetry | `SomeActiveAdmin` fails: a role removal against an activation and another removal |
| `invitations` | 1 invitation, 2 addresses, 2 slots, TTL 2, clock 0..3 | `SingleUse`, `AcceptedInTime`, `ImplementsLifecycle`, `RequestsTerminate` |
| `invitations_cancel` (violated) | same | `CancelsOnlyOpen` fails: cancel after accept |
| `event_dispatch` | 2 events (one with a workflow and a plain handler), 3 attempts | `ReturnedMeansSettled`, `HandledWorkflowsAreCompleted`, `ExhaustionIsRecordedTwice`, `OnlyTableWritesRaise`, `ImplementsDelivery`, `PublicationsEnd` |
| `event_dispatch_raises` (violated) | same | `DispatchNeverRaises` fails: dead letter not written |
| `document_ingestion` | 2 requests, 1 source, up to 2 earlier documents, 1 attempt | `AnnouncedChunksExist`, `HandlersCannotFailTheRequest`, `SerialUploadsShareADocument`, `SerialUploadsIndexOnce`, `RequestsTerminate` |
| `document_ingestion_latest` (violated) | same | `IndexesItsOwnVersion` fails: two overlapping uploads |
| `performance_history` | 2 requests, 2 periods, 1 day, 2 values of the figures, 2 attempts | `SummariesReadCurves`, `HandledBaselinesAreAnchored`, `HistoryIsAppendOnly`, `SerialAuthorsOwnTheirVersion`, `RequestsTerminate` |
| `performance_history_second` (violated) | same | `SecondCaptureReturnsTheRow` fails: two overlapping captures |
| `platform`, limiter | 3 threads, maximum 2, window 2, clock 0..4 | `AdmittedPerWindow` |
| `platform`, access | 2 requests, 1 session, 1 key, 2 attempts, clock 0..2 | `GuessesBounded`, `AccessEndsWithRevocation`, `RevocationIsFinal` |
| `platform`, advice | 2 writers, 1 reader, 2 active at a time, 3 of the advisors, 1 portfolio, 1 program, names of one key, 2 analyses | `AnswersStayInScope`, `AnswersAreGrounded`, `StrategyLevelsAgree` |
| `platform`, metrics | 3 days, 2 periods, budgets, costs and progress with zero and both sides of every threshold | `SignalsFollowTheFigures` |
| `platform`, deployment | 8 revisions, 3 labels, a seeded and another project, 1 analysis beside those stored | `AnalysesKeepTheirProject` |
| `platform_restart` (violated) | the same instance | `EveryBootServes` fails: a renamed default organization |

`MCPlatform` runs one of the five parts in each behaviour (`part`) and leaves the
variables of the others at their initial values. As the parts share no variable
this checks each of them exactly as a run of its own would; their states add up
(1.8 million, after symmetry) and do not multiply. Requests and writers are the
same model values, so that one symmetry set serves both.

**Bounds.** Every conflict in this code is between two requests over one row (or
two), so two slots show it; slots are reused, so sequences of any length over
these rows are covered (except in `DocumentIngestion`, `PerformanceHistory` and
`EventDispatch`, where a request or event serves once and `Init` ranges over what earlier ones leave). Two
users are the smallest organization with a "last but one" administrator, and the
violation needs no third: the actor's own rights are looked at when the request
begins. One invitation is enough because invitations meet only in the address
space, which `AddAccount` and `ChangeEmail` already disturb. TTL 2 in a clock of
0..3 puts expiry before the service's check, between it and the second reading of
the clock, during the wait for the lock, and after.
`MAX_ATTEMPTS` is 3 as in the code for `event_dispatch`; it is 1 in
`document_ingestion`, where only the dispatcher's outcome matters, and 2 in
`performance_history`, the least with a retry. Two periods let two baselines
collide on all, some or none of their dates; snapshots of different days share
nothing, so one day has every conflict. `MaxTime` and
`MaxEarlier` are the only bounds in guards or `Init`; the proofs have neither
finite bound.
In `platform`: three threads are one that drops hits and two that still hold
an older reading, over a window short enough to be left twice. Two requests,
reused, overlap at every pair of steps of `Access`, and one session can be
minted, used, logged out and revoked by both. Two requests active at a time put
any write between any two queries of a reader; of three writes all chains are
covered since writers are reused until `MaxAnalyses`. The portfolio and the
project declare an objective; with the project as the only one to declare, the part
was run by itself too (1.0 million states, no error). Three advisors stand for the
three ways a scope makes one eligible, and single-advisor routes cover all eight.
`LastTick`, `LastTime`, `LastDay`, `MaxAnalyses`, `MaxActive`, `Records` and
`MaxProjects` are the bounds in guards.

**Deadlock** is checked for `invitations` only. The other instances may stop:
in `AdminRoles` an organization without active administrators admits no request,
and in the others every request or event has been used (or, in `platform`, the
last day has come).

**Fairness.** A thread of the pool that has been started keeps running, and a
handler returns or raises: weak fairness of a request's own steps. Where a step
waits for a row lock it is strong fairness, as PostgreSQL grants row locks in
arrival order and a waiter is not overtaken for ever. The deadlock detector
always runs (weak fairness of `BreakDeadlock`). Nothing is assumed about clients,
the clock, failures or crashes.

## 4. What the violated runs show

1. **The last administrator can be lost.** `_lock_active_admin_user_ids` locks
   `users` rows only, and `remove_role` calls it only when the user is active as
   the request read it. In the trace, of two administrators one is inactive; a
   removal of that one's role reads this and skips the guard, an activation makes
   the user active, and a second removal then locks and counts both. Both role
   rows are deleted. Two overlapping removals from two active administrators do
   it as well: the one that waits for the lock has the other's role row in its
   snapshot.
2. **An accepted invitation can be cancelled.** `cancel_invitation` checks an
   unlocked read; the invitation is then accepted *and* cancelled, and `status()`
   says cancelled although the account exists.
3. **A dispatch failure can reach the producer**, when the dead letter cannot be
   written; the handlers after it are not called.
4. **`index()` may chunk another request's version** when two uploads of one
   source overlap, and leave its own without chunks.
5. **A second capture of a day may fail with 500**, also under a plain read of
   the project, when it overlaps the first: it looks for the row before it
   inserts, and the constraint's error is caught by nobody.
6. **Renaming the default organization stops the next start.**
   `get_or_create_organization` looks it up by name; the row it then inserts
   has the slug of the renamed one, and the error leaves the lifespan handler.

**Two disagreements without a run of their own**, met in `Advice`. Both are in what
the properties say, or do not say:

* `catalog.py:84-86` promises that no advisor "ever produces evidence broader than
  the scope explicitly declared by the caller". A delivery project may be stored
  under a blank name (`project_delivery.py:85-106` does not validate it); asked
  about, its name resolves to no project, and the evidence is that of the whole
  organization. A project stored under a padded name is read as the one of the
  stripped name. `AnswersStayInScope` therefore claims nothing for blank names and
  compares the others stripped.
* The strategy assembler's docstring (`evidence_assembler.py:14-20`), its comment
  (80-82) and `tests/test_strategy_advisor_evidence_assembler.py:304` say that
  projects without a program take part in the project unit. They do not:
  `list_projects` reaches `list_projects_by_organization`
  (`domain_repository.py:205-223`), which returns only projects with a program; the
  test puts a domain service of its own in its place. The model follows the
  repository, and `AnswersAreGrounded` counts as something to answer from only what
  that query can return.

`SummariesReadCurves` holds in a form worth knowing: two authors that overlap may
get one version number, and then either one is refused (a date in common) or
their points together are the active curve. `SerialAuthorsOwnTheirVersion` is
therefore stated for authors that overlap no other request.

## 5. Proofs

TLAPS proves, for any finite or infinite set of requests, users, events and so on:

* `AdminRolesProofs`: `TypeCorrect`, `LockSoundness`,
  `LastAdminSurvivesStatusChanges`, `SerialGuards`. The invariant `IInv` adds to types and locks:
  a request that is past the guard of a deactivation has locked two users at least
  (`GuardPassed`), and as long as no role row changed all locked users are
  administrators (`LockedAreAdmins`). The property itself is not inductive: a
  request past its guard is about to take an administrator away, and only the
  other one it keeps locked and active shows that somebody remains. For a request
  without company (`AloneOK`) the rows it has locked or is to lock are all the
  active administrators, so its guard is right about status and role alike.
* `InvitationsProofs`: `TypeCorrect`, `TokenSingleUse`, `AcceptanceInTime`
  and the refinement `RefinesLifecycle`. The invariant adds: a request about to
  write the account holds the row lock of an invitation that is open and expires
  after the request's clock value, which is known from the check under the lock
  and not from the service's; a request about to
  insert is the only one that knows its id. Every step that closes an invitation
  needs its row unlocked, so what the holder has checked stays true.
* `EventDispatchProofs`: `TypeCorrect`, `ReturnSettles`, `HandledStaysCompleted`,
  `ExhaustionRecorded`, `HandlersNeverRaise` and the refinement
  `RefinesDelivery`. The invariant counts: dead letters of a running publication
  are the settled handlers minus those handled, and the execution row of the
  current workflow agrees with the step. It uses that a handler is registered
  once per event type (`RegisteredOnce`), as in `api/dependencies.py`.
* `DocumentIngestionProofs`: `TypeCorrect`, `EventsFollowChunks`,
  `HandlersDoNotFailUploads`, `SerialUploadsShare`, `SerialUploadsIndex`. The
  invariant contains the one of the dispatcher, whose proofs are instantiated with
  the requests as events; a step of the composed system is a step of the dispatcher
  (`SameActions`) or leaves it alone. It adds that ids and versions count the
  rows inserted (no two commits give the same one), what each request knows of
  the rows at each step, and where its publication then stands. For the two
  action properties, what a request that has had no company read is what is
  stored (`AloneInv`); alone, its steps say nothing of that.
* `PerformanceHistoryProofs`: `TypeCorrect`, `SummariesRead`, `HandledAreAnchored`,
  `AppendOnly`, `SerialAuthors`. Rows are only added, and an author adds all its
  points at once under a version that had none for those dates: whatever a summary
  finds of an author is all there will ever be. That no version exceeds the number
  of authors by more than one holds because each insert raises the highest by one
  at most (every author read it before). A capture ends without an exception only
  when the day has its row, and the dispatcher counts the handler only after it.
* `AccessProofs`: `AccessTypes`, `RevokedAccessEnds`, `GuessesStayBounded`,
  `RevocationStands`, and for the rate limiter `LimiterTypes`,
  `WindowsStayBounded`. A credential that was revoked when the request arrived still
  is (`Withdrawn`), so the request never gets past the look at it (`PastTheLook`);
  who is let through by the permission check was active then
  (`SawTheUserActive`). For the guard: without a lock fewer failures are on record
  than the limit (`UnlockedMeansBelow`), and failures plus attempts past the guard
  grow only when the guard lets an attempt through. For the limiter and
  the window that ends at w, either all its hits are still in the list and the
  limit is kept (`StillCounted`), or somebody with a reading after w dropped some:
  then the clock is past w, and only threads that had read it by then can add a
  hit, one each (`FewLatecomers`). The bound alone is not inductive, it does not
  say who is left.
* `AdviceProofs`: `AnswersStay`, `AnswersGrounded`, `StrategyAgrees`. None of the
  three is inductive: they speak of what an answer has in the end, and between its
  queries other requests write. The invariant first says of the rows what those
  requests keep (`WorkspaceInv`: an analysis is filed under the project its typed
  name stands for, a linked project has its program and portfolio), and each of
  their steps is shown to let the rows only grow (`Grows`). It then says of each
  request that reads (`AskOK`) what growth cannot spoil: what it has belongs to
  its scope (`InItsScope`), which for a portfolio needs that a link is never
  moved; an advisor that had evidence on arrival has some, or a call, a program or
  an objective that leads to some is still to be read (`Hopeful`), at whichever
  stage of its assembler; and the units of the strategy advisor that are listed
  agree with the projects it gathered before both passes (`Units`). One lemma,
  `GrowthKeepsAsks`, covers the steps of all other requests, and one each the
  request's own. The selection rule, a recursive function over the catalog, is
  shown by the first position at which it would fail to pick only advisors that
  fit the scope (`SelectedFits`). `RowsAssumption` stands for ids of different
  tables being told apart; analyses are any number.
* `AdviceProofs` also has `AdviceTypes`. That an item of evidence names an analysis
  there may be needs a bound the type only implies: the analyses stored and the
  writers about to store one are no more than `MaxAnalyses` and one for each
  writer (`BoundInv`).
* `PlatformProofs`, on `Deployment`: `ReferencesLead`, `AnalysesStay`,
  `RowsKeepTheirShape`. Analyses have a project at
  every revision but the first (`HasProjects`), the reference leads to a row
  (`Referenced`), and the text, as long as it is stored, says the same
  (`TextsAgree`): each migration then takes the place from the column that has it
  to the one that will. For the rows: ids are 1 to the number of organizations and
  labels are unique (`NumberedRows`), so there are as many organizations as labels
  at most, and a slug's suffix, which counts some of them, stays below that too
  (`SuffixFits`). Every migration that rewrites organizations keeps their ids but
  0002 and its downgrade, and `PlacesInv` says what makes these two harmless:
  below 0005 there are no portfolios, and at 0001 no accounts. `AnalysesStay` says of
  owners only what `AnalysesKeepTheirProject` does: nothing of steps from or to 0001.
* `PlatformProofs`, on `EvmMetrics`: `SignalsFollow`. No induction is needed beyond
  types: the property speaks of one state, and is arithmetic over any amounts,
  calendar and `Whole`. The products of variables in it are beyond the prover when
  it meets them in one formula, so each is isolated in a lemma over natural numbers
  (`EstimateOf`, `DeviationOf`, `ForecastOf`, `CostRatioBelow`), and the steps that
  use them see only that lemma and the types of their terms.
* `PlatformProofs`, on all parts: `PlatformTypes`. A behaviour of the platform is one
  of its part's, so the five invariants carry over with no more than `part` staying
  what it is.

Assumptions are the named ASSUMEs of the modules (sentinels are not members of
the sets they extend, `MaxAttempts` is positive, an organization's label is one
of finitely many, as a name of 255 characters is, `MaxAnalyses` leaves room for the
analysis that is there from the start, ...), which TLC evaluates in every run.

Every invariant and every action property of the passing runs, and both
refinements, are stated by one of these theorems. Only model-checked: liveness
(`RequestsTerminate` of four modules, `PublicationsEnd`), as fairness is about when
actions are enabled, which TLAPS does not reason about. The violated runs are
TLC's as well: a counterexample on a small instance is all there is to show.

## 6. Not modelled

* Language-model calls, prompts and embeddings (external; they return or raise),
  and the learnings and analytics an advisor's prompt carries as supporting text
  (the document chunks in the risk advisor's prompt are modelled, as `context`).
* Paging, dates and wording of listings; the counts in project summaries; the
  grouping of recurring risks and actions by their text.
* Vector similarity and the classification of memories: a numeric search in the
  database and one row. `Advice` lets a search return any chunks.
* The web interface, in another language; its cookie carries the session id.
* Migrations that only create tables and columns, and the rows of roles and
  permissions several of them insert. The permission catalogue is reduced to
  "active administrators may administer" and, in `Access`, "active users may".
* Backup and restore validation (`pg_dump`, `pg_restore` and files), and what the
  configuration check looks at: a start may be refused, no more.
* Demo data: a client that posts fixed requests one after another.

Organizations are independent of each other (every query is scoped by
`organization_id`), so most models have one; `Workspace` has an analysis of another
organization under the same name, and `Deployment` several. Row values that no
property tells apart (names, texts, hashes) are left out.

## 7. Plan

1. *(done)* `AdminRoles`, `Invitations`, `EventDispatch`, `DocumentIngestion`,
   with the proofs of the first three; `PerformanceHistory`.
2. *(done)* `RateLimiter`, `LoginGuard`, `Access` and `Deployment`, with their
   proofs; `Workspace`, `AdvisorCatalog`, `Advice`; `EvmMetrics`.
3. *(done)* Proofs of `DocumentIngestion` and `PerformanceHistory`, over those of
   `EventDispatch`.
4. *(done)* Proofs of `Advice`, over an invariant of `Workspace`; of `EvmMetrics`, and
   of the rows of `Deployment`; the types of all parts of `MCPlatform` together.
5. The rows of roles and permissions over the revisions that insert and delete
   them.
