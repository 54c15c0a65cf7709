# ga_scheduler_v2: a TLA+ model of the timetable service

The program lets a department keep its master data (rooms, time slots, lecturers, courses,
offerings), submit a *schedule run* over HTTP, queues it in Redis, computes a timetable with a
validator, a static analysis and a genetic algorithm in a separate worker process, stores the
result in Postgres, streams the progress to a browser and lets people override the result by
hand. This directory models what can go wrong between and inside those parts. Paths below are
relative to `src/`, the root of the repository; `PROJECT.json` gives the lines of every definition.

1. [Inventory](#1-inventory) - 2. [Modules](#2-modules-and-what-they-model) -
3. [Runs](#3-the-runs) - 4. [Disagreements](#4-where-the-code-and-its-documents-disagree) -
5. [Limits of what holds](#5-what-holds-only-under-a-condition) - 6. [Proofs](#6-the-proofs) -
7. [Not modelled](#7-not-modelled)

## 1. Inventory

### Processes and stores

| Part | State it keeps | Operations | Talks to |
|---|---|---|---|
| API process (`src/api`) | rate-limit buckets; local variables of each request in flight | HTTP handlers, each a sequence of awaits | Postgres, the queue, the cancellation keys, the progress channel |
| Postgres (`prisma/schema.prisma`) | users, refresh tokens, master data, `ScheduleRun` with assignments and fitness history, audit log | single statements, some transactions (READ COMMITTED) | API, worker |
| Redis | the `ga-pipeline` queue, `ga:run:<id>:cancel` keys (600 s), checkpoints, the `ga-progress:<id>` channels | BullMQ, SET/GET/DEL, PUBLISH/SUBSCRIBE | API, worker |
| Worker process (`src/worker/index.ts`) | the local variables of the one job it runs (`GA_PIPELINE_DEFAULT_CONCURRENCY = 1`) | `processGaPipelineJob` | Redis, Postgres |
| GA pipeline (`src/orchestrator.ts`, `pre-ga`, `ssa`, `ga`) | the candidates, the graph and the population of one run | validate, analyse, evolve | hooks into the worker |
| Browser (`frontend/src`) | per tab: access token, refresh promise, timer; per page: rows, pager, filter, form, dialogs, selection, stream connection with a retry counter. Shared: the cookie jar | pages, `api.ts`, `useScheduleRunStream.ts` | API |

### Components, what is hard about them, and what makes them correct

| Component | Hard | Correct means |
|---|---|---|
| Run lifecycle (`api/routes/schedule-runs.ts`, `queue/*`, `worker/index.ts`) | handlers read, decide and write in a later await, unconditionally; four separate result writes; crashes and redelivery | a finished run has its complete result, a deleted run leaves nothing, a key is answered with the run it created, a verdict is final, no run waits for nobody, every run is decided |
| Progress stream (`getStream`, `useScheduleRunStream.ts`, `RunDetailPage.tsx`) | subscribe races publish; lost connections; two sources of one status | a live stream still has something to wait for, a page never shows a verdict the run does not have, and finally learns it |
| Sessions (`routes/auth.ts`, `lib/api.ts`, `store/`) | rotation of single-use tokens is a read, a revoke and a mint; a timer and a 401 refresh at once; lost answers | one live token per login, a refused token stays dead, "session expired" only when it has, no request waits for ever |
| Administration (`routes/users.ts`, `semesters.ts`, `timeslots.ts`, `repo/semesterRepo.ts`) | guards look at stale claims and stale rows; one active semester is two statements | an active semester remains; the last administrator stays; a slot's start stays before its end |
| Master data (`routes/*.ts`) | seven tables, rules across them checked rows and awaits before the write; a worker that reads six tables without a snapshot | offerings stay within one semester, refusals have a cause, only an edit makes a run fail, stored schedules are not touched |
| Rate limit (`middleware/rateLimit.ts`) | the boundary of a sliding window; rounding of Retry-After | the limit holds in every window; whoever waits as told is let in |
| Pre-GA, SSA, orchestrator (`pre-ga`, `ssa`, `orchestrator.ts`) | several computations of split counts and pools must agree; AC-3 and Hopcroft-Karp | the seeder never throws, the matching is maximum, the verdict is that of distinct starts |
| Genetic operators and fitness (`ga/*.ts`) | repair moves one session at a time; four kinds of genes under crossover and mutation | genes stay in their domains, repair brings in no clash and removes what it can, fitness zero means no clash |
| GA loop (`ga/runGA.ts`) | what is kept as best, when it stops, what is reported | the fittest of all generations is reported, with its own numbers |
| Management pages (`frontend/src/pages`) | answers in any order, closures over an old page or semester, other people's writes | a page at rest shows what it is set to; every page comes to rest |
| Schedule editing (`ScheduleViewerPage.tsx`, `ManualOverrideModal.tsx`, `putOverrideAssignment`, audit) | several editors with old schedules; read, store and audit in three steps | an edit changes what its user changed; no clash comes in unseen; the audit trail accounts for the schedule |

`PROJECT.json` lists all components with their status, and forty hazards at their lines.

## 2. Modules and what they model

One action is the code between two awaits plus the one command (statement, Redis command,
request, answer) it ends with; a `Next` disjunct is a handler step, a worker step, an event in the
browser, a fault, or a person. What a handler read earlier lives in its record (`call`, `worker`,
`req`, `save`), so that it can be stale when it is used. Operators marked `Mutant:` are variants of
the operator below them, each a plausible bug, named in `PROJECT.json` "mutants".

### `RunLifecycle`, `RunSafety`, `RunContract`: the core

| Variable | Code |
|---|---|
| `status` | `ScheduleRun.status`; `"none"` before the insert, `"deleted"` after the delete |
| `request` | `idempotencyKey` and the pair (`semesterId`, `configJson`), which the replay compares |
| `generationsRun`, `history` | the column, and the generations with a `FitnessHistory` row |
| `assigned`, `overridden` | runs with `ScheduleAssignment` rows, and with a manual override |
| `job` | the BullMQ job under each jobId (`resolveJobId`): its state, its run, its stalled count |
| `cancelKey` | the live `ga:run:<id>:cancel` keys |
| `published` | the last `state` event on the run's channel |
| `call` | requests in flight: `POST`, cancel, delete, override, with their program point |
| `worker` | jobs in hand: program point, generations run, `cancelledFlag`, the outcome to write |

- *create*: `PostCreate`, `LookupKey`, `CountOfferings`, `InsertRow` (the unique key decides the
  race), `RelookupKey`, `Enqueue`, `MarkFailed`, `Answered`.
- *cancel, delete, override*: `PostCancel` `RequestCancellation` `CancelRow`; `DeleteRun`
  `EraseRow` (with the cascade); `PutOverride` `OverrideRow`.
- *queue*: `TakeJob`, `AckJob`, `StalledJob` (redelivered `MaxStalled` times, then failed),
  `ForgetJob` (retention), `ExpireCancelKey`.
- *worker*: `ReadRun`, `CheckFlag`, `CancelEarly`, `DropFlagEarly`; `StartRun`, `Pipeline`,
  `PollCancel`/`Generation`, `SaveHistory`; `DropFlag`, `RereadRun`, `CancelLate`; `FinishEmpty`;
  `SaveStats`, `PersistAssignments`, `FinishRun`; `FailRun` (the catch block); `Publish`.
- *faults*, each enabled by its name in `Faults`: `Throw` inside the try block, `ThrowEarly`
  before it, `WorkerCrash`, `ApiCrash`, and the failing branches of `Enqueue` (`enqueue`: no job
  was added; `enqueueLost`: only the queue's answer is lost), `MarkFailed`, `CancelRow`, `FailRun`
  and `Publish`.

Abstractions. A body, a key and a run id are model values, and run ids are never reused (cuid).
Refusals that change nothing are not steps. Ownership is not modelled: every client may act on
every run. The pipeline appears as its outcomes (`Pipeline`, `Genetics` and `GALoop` model it).
Checkpoints are written best effort and nothing reads them. A database command that fails has not
been executed. Waiting jobs are taken in any order, `add` does nothing while a job with that id
exists, and an id of the form `idempotency:<key>` is accepted. A worker that loses its BullMQ lock
while still computing is not modelled apart from a crash.

`RunSafety` states the properties. `RunContract` is the abstract machine of a run as the client
sees it (README "Run lifecycle states"); `ImplementsContract` is the refinement.

### `RunStream`: a run seen from a browser

Extends `RunSafety`: every event a page hears is published by the worker of `RunLifecycle`, every
row it reads is the real one. `stream` is `getStream` per page (read, 404 or final event, headers,
subscribe, second read, live, ended) with what it has written; `page` is what `RunDetailPage` shows
together with the hook's connection, its retries and the REST reads in flight. Faults: a
connection breaks, the Redis subscriber errors, a read fails, an announcement is lost.

### `Sessions`: login, refresh, logout

`token`, `origin` (the login a token descends from) and `active` are the server's; `cookie` is the
jar all tabs share; `tab` the access token, timer and modals of a tab; `req` the requests in
flight, an ordinary one (`Works`) waiting for the shared refresh after its 401. The proactive timer
calls `silentRefresh` directly and does not share. `SessionExpired`, `AccountDisabled`, `LoggedIn`,
`LoggedOut` and `Cleared` are what the auth store makes of a tab. A lost answer loses its Set-Cookie.
`overlapped` records the logins of which two refreshes were in flight at once.

### `Catalogue`: master data and the worker that reads it

Every row is the set of the rows it names, so one definition of cascades, `SetNull` and restricted
deletes, taken from the foreign keys of `schema.prisma`, serves all tables. The CRUD handlers of
facilities, rooms, time slots, lecturers, courses, offerings and locked rooms, and the delete of a
semester, are a check and a write with other requests between; Prisma's P2002, P2003 and P2025 are
answered as each handler translates them. A list of ids is kept in a join table, and its patch
(`Patches`, `ReplacesList`) is a READ COMMITTED transaction of two steps: `Clear` deletes the join
rows it sees committed, `Fill` inserts those of the body and commits. In between, other patches of
the same list (`Rivals`) may commit theirs, so that the lists merge or `Fill` collides on the key;
`met` records that two such patches were under way at once, `twice` that a list names an id twice,
which the schemas let through for lecturers and offerings. `Deadlock` is PostgreSQL failing one of two
transactions that wait for each other. `run` is a schedule run: gates, six table reads in any
order, the mapping to candidates, the transaction that stores the schedule. Its `torn` and `stale`
record whether the catalogue was edited between its reads, or after them.

### `Administration`, `RateLimit`, `ScheduleEditing`: housekeeping

- `Administration`: creating, activating (two statements under row locks, commit, rollback on a
  deadlock or error) and deleting semesters; the patch of a time slot against the row it read;
  registration, role and activity of accounts under guards on the access token's claims.
- `RateLimit`: the window log of one key, and a caller that obeys Retry-After.
- `ScheduleEditing`: what the viewer shows an editor (some schedule that was stored once), the form
  on one session and the conflicts it warns of, the request that carries only changed fields, the
  handler that reads the row, stores in a transaction and writes one audit entry per changed field,
  best effort.

### `Timetable`, `Bipartite`, `Matching`, `Pipeline`, `Genetics`, `GALoop`: the engine

- `Timetable`: contiguous blocks of slots and the degraded same-day sessions, used by all others.
- `Pipeline`: the pre-GA checks and merging of offerings into candidates, static exclusion, AC-3 one
  productive revision at a time in any order, the verdict. Its `MatchSessions` takes a largest
  matching of the graph, as `Bipartite` defines it: that Hopcroft-Karp returns one is what `Matching`
  shows.
- `Matching`: `runHopcroftKarp` as a state machine: the layers of `bfs` (`Layer`, `Layered`), the
  sessions of a round (`Visit`), the nested calls of `dfs` (`path`, `Try`, `Fail`), and the matching
  (`matchL`, `matchR`, `matching`), which changes when all of them return true (`Augment`). The code
  goes through sessions and slots in the order of its maps; the model takes any order.
- `Genetics`: one chromosome; seeding, crossover, mutation, block repair and capacity nudge in the
  order `runGA` applies them, each random draw a choice; repair offers another team only from those
  that stand together, cyclically, in one shuffle of the pool (`AlternativesOf`), a new shuffle for
  every block and room, so that it may pass over a place a free team had (`MayPassOver`); hard violations, the five soft penalties
  and competency mismatches.
- `GALoop`: the generations, sorting, elitism, the record and the stagnation counter, the exits; a
  member is its score, and breeding gives children any score. Costs are integers, and fitness
  `1/(1 + cost)` is compared by cross-multiplication.

### `ManagementPage`, `PageSafety`: the pages

One page of one of thirteen kinds (rooms, lecturers, courses, offerings, time slots, facilities,
semesters, users, run history, audit log, dashboard, schedule viewer, run creation). `kind` chooses
which actions exist; what the pages share is written once. The list requests in flight remember the
page, filter and semester they were sent for, and a save or delete remembers those of the render it
was clicked in. Bulk deletes go row by row. Other people write the same rows. Choosing a semester
(dialog and request) is one step.

### Plan, as carried out

The order was: run lifecycle and its first theorems; stream; sessions; administration and
catalogue; engine; pages; schedule editing; then the proofs about administration and editing,
about the verdict and the driver of a run, its contract, the stream and the sessions; last those
about the rate limiter, the catalogue, the pages, the GA loop and the genetic operators, and about
validation and the static analysis.
Every run of a component has its own module or shares one with components it does not interact
with (`MCHousekeeping`, `MCGenetics`, `MCPipeline`: a variable `side` says which one a behaviour moves).

## 3. The runs

| Run | Bounds | What it shows |
|---|---|---|
| `races` | 1 run, 3 requests of every kind, 2 generations; enqueue, throw, publish, ttl faults | `AnnouncedIsStored`, `HistoryIsExact`, `VerdictIsFinal` under every interleaving of create, cancel, delete, override and worker |
| `crashes` | 1 run, 1 key, 2 requests, 2 generations, one redelivery; **all faults** | `TypeOK`, `ResultsComplete` and `NoDebris` survive everything |
| `contract` | 2 runs, 1 key, 2 bodies, 2 requests, overrides, fairness; enqueue, throw; a request without a key has a fixed body, which nothing compares (the action constraint `BodiesMatter`) | the program implements `RunContract!FairSpec`, progress included; QUEUED and RUNNING always have a driver (`NeverAbandoned`); `ReplayFaithful` on both replay paths |
| `stream` | 1 run with create, cancel; 1 page, 2 reads; and either 1 broken connection, 1 retry, drop, redis, fetch and publish faults, or delete (a deleted run owes its page nothing a fault could keep from it): the run's body, which nothing else here compares, says which of the two a behaviour has (the action constraint `DeletesOrLoses`); fairness | no live stream of an ended run (`LiveStreamsWait`), `PageTruthful`, `PageLearns`, and every run is decided (`Settles`) |
| `sessions` | 1 tab, 2 requests, 3 tokens; timer, both expiries, loss, deactivation; fairness | `OneLiveToken`, `RefusedIsDead`, `ExpiredIsDead`, `RequestsEnd` |
| `catalogue` | 2 concurrent edits of any kind on a semester that is used, one being set up and an empty one; two facilities and one to be created; 1 run | `SameSemester`, `RefusalsHaveCause`, `OnlyEditsBreakRuns`, `ScheduleKept` |
| `housekeeping` | 2 requests over 3 semesters (1 to be created), a slot, 2 accounts (1 to be registered); 6 hits in a window of 5 ticks; 2 editors with 2 requests on 2 sessions | `ActivationKeepsOne`, `KeptInTurn`, `LastAdminByStale`; `WindowHolds`, `RetryIsEnough`; `OnlyWhatChanged`, `NoClashUnseen`, `TrailAccounts` |
| `pipeline` | 3 offerings of 2 courses with any of 2 lecturers, 2 rooms, 15 or 70 students, a fixed slot for one of the lecturers or none (the first two offerings only), 2 defects (the first only), at most 1 lock of a room, on the first or second; 3 slots on 2 days. Hopcroft-Karp on every graph of 3 sessions and 3 slots | `Seedable`, `MatchingIsMaximum`, `CampusIsOneRoom` |
| `genetics` | 4 candidates, one of each kind of gene, over 4 slots, 2 rooms and 4 lecturers, one of them of two offerings each taught by a team of two, a pool of four; populations of 2 over 4 generations, with and without elitism | `GenesOK`, `RepairKeepsPeace`, `NoAvoidableClash`, `FitnessFindsClashes`; `ReportedIsFittest`, `PartsMatchTotal` |
| `pages` | every kind of page, 2 rows, 2 semesters, at most 2 list requests in flight and 4 acts of the user or of others; fairness | `ShownIsCurrent`, `ComesToRest` |
| `cancel_overwritten`, `ssa_unsound` | small | the two disagreements of section 4 |

All passing runs but `pipeline` say `CHECK_DEADLOCK FALSE`: when people stop asking and nothing
is in progress the system rests (`pipeline` loops on its verdict instead).

**Why the bounds are enough.** No property of the core relates more than two runs (they meet only
through a shared key), and a check-then-act race needs the checker, one other request and the
worker; two generations separate none, some and all of them; a third redelivery repeats the second.
A page meets each fault of its stream once, and one retry is both the first and the last allowed.
Three tokens are a login and two rotations of it. In `catalogue` a create and a patch or delete, or
two patches, are all pairs of edits that can meet; a facility keeps its code, and a patch names one
field, two patches being two fields; lists of two facilities can merge, collide and deadlock. In `housekeeping` three semesters give the target of each
activation and a row both clear. `pipeline` has the smallest numbers at which a cohort splits, a
lock excludes a room and two sessions compete for starts; three sessions and slots are the
smallest graph with an augmenting path through two others. In `genetics` the crossover and repair of
a locus see any genes at the others; four is the smallest pool in which a shuffle hides a team. `pages` needs two rows for a second page of the pager and
for a bulk delete that fails in the middle; four acts are a click, a second one while the first is
in flight, and two of other people. Bounds appear as constants (`MaxActs`, `MaxFetches`, `MaxSaves`,
`MaxHits`, `Horizon`, `MaxLosses`, ...) or as guards with a comment (`RunIdLeft`, `TokenLeft`).
Symmetry is used only in runs without liveness, over interchangeable requests, runs, editors and facilities.

**Fairness.** Weak fairness of what an event loop drives: each handler that has begun, the job in
hand, a free worker slot that fetches, BullMQ's periodic check for stalled jobs
(`RunLifecycle!Fairness`); the streams, the page's handlers and timers, and the answers of requests
(`StreamFairness`, `Sessions!Fairness`, `ManagementPage!Fairness`). People, faults and losses are
never assumed to happen. The GA loop is bounded by `config.generations`, so a fair worker leaves it.

Each property has a mutant that breaks it (`PROJECT.json` "mutants"): a status written with the
statistics, a dropped foreign key, a body that is not compared, a refresh whose waiters are
forgotten, a row locked too late, an elite put behind the children, an audit entry from the wrong
row, and so on.

## 4. Where the code and its documents disagree

Checked by a run that finds the counterexample:

| Run | Statement | What happens |
|---|---|---|
| `cancel_overwritten` | a cancelled run stays cancelled (`docs/api_and_database_design.md:1158`) | the worker has passed its check when the cancel lands; it then writes RUNNING, or its verdict, over CANCELLED |
| `ssa_unsound` | a matching smaller than the sessions is a proof of infeasibility (`src/ssa/hopcroftKarp.ts:5`) | sessions are matched to slots alone, as if the campus had one room: two lecturers in two rooms at the only common time are refused |

Met while modelling; the models contain the behaviour, and a property exempts it by name where it
would otherwise be false:

- *Runs.* A cancel can replace a verdict that lands between its read and its write, which is
  announced as a 409 (`docs/api_and_database_design.md:1095`, `schedule-runs.ts:797`); a delete can
  remove a run the worker started meanwhile (`:1097`, `schedule-runs.ts:584`); a cancel between the
  gate and the transaction of an override lets a cancelled run be edited (`:1099`). A key used again
  after its run was deleted meets the job id of that run, which is still taken: the new run is
  accepted and never queued (`README.md:521`, `queue/ga-pipeline.ts:71`). A job redelivered after
  its last write executes a decided run again (`queue/ga-pipeline.ts:36`).
- *Overrides.* `docs/api_and_database_design.md:1104` has the override validate the semester of room
  and slots and the number of slots; the server does not, and a room is no foreign key. The form
  warns of conflicts only, with the schedule its viewer holds. A lecturer who is no longer eligible
  stays selected and hidden in the form, so that every change of lecturers is refused. The audit
  entry is mandatory (`:1216`) and written best effort (`api/lib/audit.ts`); it compares
  a row read earlier with the row the transaction returned, so the entry of one editor may name the
  concurrent change of another. `TrailAccounts` says only that no value is left without an entry.
- *Master data.* Locks change under RUNNING runs (`:956`), because the check and the write are two steps; a row created between the count and the
  delete of a semester goes with it (`:947`). Missing references end in a misleading 404 or in a 500
  (`RefusalsHaveCause` lists which). Two patches of one list at once may both succeed and leave the
  union of their lists, although each was to replace it (`lecturerCrudRepo.ts:156`,
  `courseOfferingRepo.ts:185`, `roomRepo.ts:152`), or the second fails on the key of the join table:
  a 500 for lecturers and offerings, whose handlers do not translate P2002, a 409 that says a name or
  code is taken for rooms and courses. A list of lecturers or slots that names an id twice is a
  500, in a create as in a patch; a transaction PostgreSQL fails to end a deadlock is one, too. Deleting a slot of a fixed-time offering leaves it with none;
  lock creation never compares semesters; parents of offerings can form cycles; the patch of a
  semester does not compare its dates, which the create does; overlapping slots are refused by the
  client's page only.
- *Administration.* Two activations may deadlock, or both commit and leave two active semesters
  (`KeptInTurn` is about requests in turn); two administrators can demote each other
  (`LastAdminByStale`). The login limit of `docs/api_and_database_design.md:757` is mounted nowhere.
- *Sessions.* The proactive timer and a second tab spend the same single-use cookie; one of two
  refreshes then opens "session expired" for a live session (`docs/app-design-spec.md:1177`).
- *Engine.* An offering with a room of its own is left out of the capacity penalty because its room
  was split to fit (`ga/fitness.ts:218`); unless the room is locked, mutation and repair move its
  sessions to smaller ones. `ga/fitness.ts:7` is false when the soft penalty exceeds the hard weight; with
  `elitismCount` 0 a run can be STAGNATED with a clash-free best; a real improvement below
  `STAGNATION_THRESHOLD`, which at a large cost is not small, counts as stagnation;
  repair looks for a free team among the neighbours in one shuffled pool (`ga/repair.ts:112`): with
  teams of two in a pool of four or more a free team can be overlooked and an avoidable clash stay, so
  `NoAvoidableClash` speaks of the session's own team and of the teams every shuffle shows;
  `runGA.cloneChromosome` drops the lecturers from checkpoints, which nothing reads.
- *Pages.* An answer that arrives late replaces a newer one. A handler ends in the render it was
  clicked in: it closes whichever form is open by then and fetches the old page or semester. A
  selection survives a change of page; deleting the last row of the last page leaves an empty page.
  Courses, offerings, lecturers and rooms give the pager the number of rows on the page, so page two
  is out of reach (`docs/app-design-spec.md:681`). Activating a semester on its page does not tell
  the top bar, nor the other way round (`:592`). The run history can chase its own page number for
  ever (`ComesToRest` leaves it out). A lost answer and a second click create a row twice, a run
  included: the page sends no idempotency key. The password typed into the edit form of a user is
  validated and never sent; the parent of an offering can be set and never cleared.

## 5. What holds only under a condition

- `NeverAbandoned` and `Settles` are false with `apiCrash` (crash between insert and enqueue),
  `throwEarly` (the job fails before the try block), `failUpdate` or `markFailed` (FAILED cannot
  be written), two worker crashes on one run, or a key reused after a delete. A run then stays
  QUEUED or RUNNING for ever: the code has no recovery and promises none.
- `VerdictIsFinal`, `AnnouncedIsStored` and `HistoryIsExact` are false with `workerCrash`: a
  second execution of a decided run overwrites its verdict, and `skipDuplicates` mixes two
  histories. `VerdictIsFinal` is also false with `enqueueLost`.
- `ImplementsContract` excludes cancels and deletes, the races of section 4.
- `PageLearns` exempts an end nobody announces (a lost announcement, FAILED or CANCELLED written by
  the API with no worker at work) and a page that gave up after its retries.
- `OneLiveToken` and `ExpiredIsDead` exempt a login of which two refreshes overlapped.
- `ShownIsCurrent` exempts answers out of order, a failed newest request, a handler's old key and
  other people's writes.
- `NoClashUnseen` exempts saving over a warning and saving a form opened on an outdated schedule;
  `TrailAccounts` exempts lost entries.
- `PartsMatchTotal` needs an elite.
- `RefusalsHaveCause` lists two causes that are no missing row, a list that names an id twice and two
  patches of one list at once, and exempts what ends a deadlock. In `catalogue` a deadlock is a
  cycle of two transactions; longer ones, and those of the cascade of a semester with a create or
  another delete, are left out. So are transaction timeouts and the loss of the database.
- `KeptInTurn` is about requests in turn, `LastAdminByStale` about administrators lost in no other way
  than by two stale requests.
- `NoAvoidableClash` does not speak of teams a shuffle may hide (section 4).

## 6. The proofs

All theorems hold for every value of the constants that satisfies the named assumptions of the
module.

### `RunLifecycle_proofs`

For any sets of runs, keys, bodies, requests and worker slots, any positive number of generations,
any `MaxStalled`, and any subset of operations and faults.

- `TypeCorrect` (`Spec => []TypeOK`). `TypeOK` is inductive because it is more than shapes:
  `RunsKnown` says that whatever acts on a row knows which one, and `WorkerLocals` what the worker
  holds at each program point.
- `ResultsCorrect` (`Spec => []ResultsComplete`). Not inductive alone: the status is written last, by
  a worker that must remember what it stored. `ResultsInv` adds, for every run that is not deleted,
  that the history reaches `generationsRun` at all times, that a worker about to write the
  statistics has stored its generations, and one about to write the status the schedule. It
  survives redelivery because history only grows while the run exists, and a deletion because a
  deleted run never comes back.
- `DeletionIsClean` (`Spec => []NoDebris`). Inductive with `TypeOK`: the cascade empties the run, and
  the foreign keys stop every later write.
- `ReplaysCorrect` (`Spec => []ReplayFaithful`). `RequestInv` adds the request between the insert and
  its answer: a row's key and body are written once.

The verdict of a run: three properties that hold while it is executed once. The hypothesis `OneExecution` (no
`workerCrash`, no `enqueueLost`) is what the code needs: a redelivery after a crash, or a job queued
although the request reported failure and wrote FAILED, executes a run that has a verdict (section
5). Every other fault may happen, deletes and cancels included.

- `DriverInv` (`DriverNext`): a run has one driver at a time. At most one request creates it, then at
  most one job is queued for it, never while a request is still creating it, then one worker holds
  this job; a run that is not created has none of them and was never announced.
- `StageInv` (`StageNext`) says what the row holds at each program point of its driver: nothing
  before work begins (`Fresh`), exactly the generations stored so far (`HistoryFits`), no verdict
  before the worker writes one and the written one while it is announced (`WorkFits`).
- `HistoryCorrect` (`HistoryIsExact`), `VerdictCorrect` (`VerdictIsFinal`, an action property) and
  `AnnouncementCorrect` (`AnnouncedIsStored`, which also needs that FAILED can be written, no
  `failUpdate`) follow.

The driver of a run:

- `NobodyAbandoned` (`NeverAbandoned`) under `NothingDropped`: `OneExecution`, no `apiCrash`,
  `markFailed`, `failUpdate` or `throwEarly`, and no deletes where keys are used. Section 5 has what
  happens with each of them. The part that is not bookkeeping is `OwnJobIds`: the job id of a run
  whose job is still to be added is free, because two rows never share a key and a known job id is
  that of a row; otherwise `add` would silently do nothing. It rests on `Undeleted`, since a
  deletion frees the key of a row and not its job id.

The contract of a run:

- `ContractKept` (`Spec => Contract!Spec`) under `Undisturbed`: `OneExecution`, no cancel, no delete,
  as in the run `contract`. It is the safety half of `ImplementsContract`: every step of the handlers, the
  queue and the worker is a step of `RunContract` or leaves status and schedule alone. `Calm`: nothing
  of a cancellation is under way anywhere. `StepsInv`: the worker is where the row says it is, so that
  RUNNING is written over QUEUED only, and a verdict over RUNNING only.

### `RunStream_proofs`

For any runs, pages, reads in flight, retries and broken connections, and every fault of the stream.

- `StreamIsLifecycle` (`StreamSpec => Spec`): the composition adds nothing to the lifecycle, so that
  the invariants above hold in it.
- `StreamTypeCorrect` (`PagesFit`): shapes, and never more than `MAX_RETRIES` attempts in a row.
- `PagesTruthful` (`PageTruthful`). `PagesTrue` carries truth along the whole way: whatever is on the
  wire, in an answer of a read or on the screen, if it is a verdict, then the run is `Decided` (nobody
  is left who would decide it) and its row has this verdict, unless a cancel or a delete replaced it.
  That a decided run stays so (`DecidedNext`) is why late and reordered answers do no harm.
- `StreamsWait` (`LiveStreamsWait`): a stream that subscribed before its second read has not missed
  the end. The announcement follows the write (`AnnouncedIsStored`), so that an announcement before
  the subscription is seen by the second read.
- The last two need `OneExecution` and no `failUpdate`, from `AnnouncementCorrect`.

### `Sessions_proofs`

For any finite sets of tabs, requests and tokens, and every subset of habits: losses, expiries,
logouts, deactivations.

- `SessionsTypeCorrect`, which includes that requests wait exactly while the refresh they share is in
  flight. `HandsInv`: a request runs the handler of its slot and nothing is held before it is minted;
  a refused refresh keeps a dead token, a successful one brings a token of its own login. `Enough`
  counts: the requests that may still mint are no more than the tokens left, so the model's finite
  supply (`TokenLeft`) never blocks a handler half-way; hence `FiniteAssumption`.
- `RefusedIsDeadCorrect`: no row comes back to life. Without any condition.
- `OneLiveTokenCorrect` and `ExpiredIsDeadCorrect`. `LoginsInv`, for each login of which no two
  refreshes overlapped: at most one live token; at most one refresh in flight, and what each of its
  stages knows (after the find, that its token is the only one that may be live; between revoke and
  mint, that none is); at rest, that the live token is in the cookie or was never delivered; that a
  login whose answer is on its way has done nothing else; and that a login that was reported expired
  is closed, with undelivered tokens at most. `Frame` covers the steps of other logins,
  `RefreshStarts`, `RefreshMoves` and `RefreshEnds` those of its own.

### `Housekeeping_proofs`

Administration, for any number of requests, semesters and accounts:

- `AdminTypeCorrect`: a request at each stage carries the row, the snapshot and the guarded change
  its next statement needs; in particular the guard `Permitted` travels with the request.
- `ActivationKeepsOneCorrect` (`Spec => ActivationKeepsOne`). From `LockInv` (`LocksCorrect`): a
  transaction about to commit holds the lock of its target, and a row that is locked is not deleted,
  so the row it makes active exists.
- `LastAdminByStaleCorrect` (`Spec => LastAdminByStale`). A request on another account leaves its own
  author as an administrator, if he still is one; a request on oneself is never a demotion.
- `KeptInTurnCorrect` (`Spec => []KeptInTurn`). `TurnInv`: while requests have not overlapped, the one
  in flight covers every active semester by its target, its snapshot or the locks it holds, and a
  slot about to be written is in order with the row that was read.

The editing of schedules, for any sessions, rooms, slots, lecturers, editors and requests:

- `EditTypeCorrect`.
- `OnlyWhatChangedCorrect` (`EditSpec => OnlyWhatChanged`): a transaction changes the row of its own
  session, and there the fields of its body only.
- `TrailAccountsCorrect` (`EditSpec => []TrailAccounts`). `TrailInv` makes every value *accounted*:
  initial, in an entry, or stored by a request that read another value and whose entry is pending.
  It must say so of the stored rows and of the rows requests have read, because a request that
  stores the value it read writes no entry and relies on whoever put it there.
- `NoClashUnseenCorrect` (`EditSpec => []NoClashUnseen`). `ClashInv` adds that an unwarned request
  has no conflict with the schedule it was made on; if that is still the schedule when it is stored,
  the row it leaves is the place the form showed.

The rate limiter, for any limit, window and clock:

- `WindowHoldsCorrect` and `RetryIsEnoughCorrect`. `LogInv`: the log of the key is the tail of the
  admitted hits, in order, and what fell out of it was older than a window (`LogFits`); whoever waits
  was told at least the end of the oldest hit's window, which can only have left the log since
  (`HeadAwaited`). `Kept` is a suffix because the log is sorted: `FirstFresh` is where it begins, and
  its existence is the least element of a set of naturals (`LeastNatural`, from the well-foundedness
  of `<`, since induction itself is out of reach).

### `Catalogue_proofs`

For any tables, any rows to start with that satisfy `SchemaAssumption` (rows such as the handlers
leave behind, and no schedule before its run), any requests and one run.

- `CatalogueTypeCorrect`, referential integrity included: a row names live rows only, and the columns
  of its table only. This is where the cascades, the `SetNull`s and the restricted deletes of
  `schema.prisma` meet (`Doomed`, `OnDelete`), among them the schedule, whose slots, lecturers and
  offerings are restricted before any other rule applies.
- `SameSemesterCorrect`. The check of a create or patch is made awaits before its write, and rows may
  be deleted in between; `RequestOK` carries through that time that whatever of the body is still
  live is of the semester compared with. It survives because no handler changes the semester of a row
  and an id is not reused: a row that was gone at the check does not come back.
- `RefusalsHaveCauseCorrect`: an answer stands for a named row that is gone, and gone rows stay so.
  For the lists: `ListInv` says that a patch that fills a list and was met by no other has no rival
  and has cleared all there was, so that it collides with nothing but itself. `ClearKeeps` and
  `FillKeeps` are its two steps; `ListsShrink`, that no other write makes a list grow.
- `OnlyEditsBreakRunsCorrect`. `RunInv`: while nothing was edited between its reads, the worker has
  seen every live row of its semester in the tables read so far, and the offerings with their present
  references; an edit sets `torn`, and a torn run is `stale`.
- `ScheduleKeptCorrect` (`Spec => ScheduleKept`): the references of a schedule are restricted, and no
  handler patches it.

### `Pages_proofs`

For any rows, classes, page sizes, number of fetches in flight and of acts, and every kind of page.

- `ShownIsCurrentCorrect`. `PageInv`: the newest fetch asks for what the page is set to, and its
  answer, from the moment the server gives it, then what is shown, is what the server would answer
  now, unless a write of the page is still to be followed by its fetch (`Unfetched`), somebody else
  wrote (`surprise`) or no semester is chosen (`ListInv`). A page with a handler in flight is not at
  rest, and the handler's fetch then becomes the newest one. `CreationInv` is for the page that
  starts runs: its one guarded fetch counts the offerings of the semester the page is set to, and
  a request to start names this semester.

### `Engine_proofs`

For any candidates, slots, rooms and lecturers that pass the validator (the assumptions of
`Genetics`), and any scores, weights, population and number of generations.

- `GenesOKCorrect`. With the session under repair within its gene it is inductive. The lemmas say of
  every operator that it maps the pool of a locus into itself: `SeedsFit`, `MutantsFit`,
  `RepairedFits`, `UpgradedFits`; a team of the size of a team is in turn one of the teams of the
  candidate (`TeamFits`). The first chromosomes are a recursive function of the number of genes,
  unfolded by the least number for which it would fail (`Growing`, `SeededAll`).
- `RepairKeepsPeaceCorrect`. `HardViolationsAre` turns the count into a statement: the uses of rooms
  and lecturers beyond the first are none exactly where the uses are told apart by their slot and
  room, or lecturer, that is, where no two sessions clash. `PeaceInv`: what began with nothing to
  repair still has nothing to repair, short sessions and gaps included; `repairSessionAsBlock` then
  returns the session itself, and a move for capacity takes a room no session of the chromosome has.
- `NoAvoidableClashCorrect` (an action property), for pools of any size. A session is harmless exactly
  if it passes the checks of the repair (`HarmlessIs`); `Place` offers harmless sessions only. A place
  that is harmless for the session's own team, or for one that every shuffle of the pool shows, cannot
  be passed over (`NotPassedOver`): teams of one stand in every shuffle (`SinglesStand`), and so do
  teams of all but one, beside whoever is left out (`AllButOneStand`). With `GenesOK`, the room a locked
  gene is reset to is the one the repair has left it.
- `ReportedIsFittestCorrect`, `PartsMatchTotalCorrect`. The sort is by rank: the ranks of a population
  are different and fill 1..n, so the order is a permutation and the first is the cheapest
  (`SortedIs`). `BestInv`: the overall best is one of the generations' bests and costs no more than
  any. `EliteInv`: with an elite, it stays at the head of the population, so each generation's best is
  the best so far; its cost never rises, and equal costs keep the older one in both places.

- `FitnessFindsClashesCorrect`. The hard half rests on `HardViolationsAre` and on `GenesOK` (nobody
  is assigned without the competencies). Every penalty is a sum over a finite set of nonnegative
  terms, and such a sum is zero exactly where all its terms are (`SumOfNone`); the load of a lecturer
  is the number of slots he teaches because the slots of one session are different (`SumOfSizes`). A
  block never counts as fragmented; a session that does not is a block under `DaysInOrder`, since
  the API, unlike the page, accepts slots that overlap. `SeatsAssumption` and `StaffAssumption` are
  the schemas of rooms and lecturers.

### `Analysis_proofs`

Hopcroft-Karp, for any finite graph and any order in which sessions and slots are tried:

- `MatchingIsMaximumCorrect`. `MatchInv`: `matchL` and `matchR` are inverse to each other (`OneToOne`)
  and along the edges; the calls of `dfs` under way are of sessions in successive layers, each
  holding a slot its caller may have (`CallsChain`), hence different, so that returning true through all
  of them leaves a matching with one session more; and once `bfs` has run, whoever holds a slot of a
  session in a layer is in a layer (`LayersClosed`). At the end no session in a layer has a free slot:
  the unmatched sessions and those they could displace have no more slots than the matched ones
  among them hold, which bounds every matching (`Koenig`).
- `ReportsLargestCorrect`: hence the sessions matched are what `MatchSessions` of `Pipeline` takes.
- `RoundGainsCorrect` (`RoundGains`): a round that `bfs` allows matches one more session, without
  which `while (bfs())` would not end. `GainInv`: until it does, every session in a layer is
  unmatched or holds a slot of one in the layer before, a session leaves its layer only when all its
  slots were tried in vain, and one with a free slot is still in a layer (`Layering`, `TriedInVain`):
  the one of these in the lowest layer leads back to an unmatched session, which the round has not
  come to. It is proved only; no run lists it.

Validation and analysis, for any offerings, locks, rooms and slots:

- `SeedableCorrect`. `PreGAInv`: after validation the candidates are what `RunPreGA` makes of the
  rows. That the largest of the rooms, the maximum of the students and the split counts exist and fit
  are the lemmas `MaxIs`, `LargestIs`, `SeatsAre` and `SplitIs`; the condition on pinned siblings is
  where the count of one offering meets the rooms of another.
- `CampusIsOneRoomCorrect`. `GraphInv`: an assignment of all sessions to distinct starts that existed
  at first survives every revision, since a value is only removed if a rival has no other one; and
  domains only shrink, so that one that exists now existed at first. An emptied domain, or a largest
  matching that misses a session, therefore means the same in every order of revisions. The sessions
  are finitely many (`SessionsFinite`), so that a matching of as many as there are is one of all.

### Only model-checked

Every invariant and every safety property of actions that a passing run checks is proved.

- Liveness (`Settles`, `PageLearns`, `RequestsEnd`, `ComesToRest`, the progress half of
  `ImplementsContract`), which is out of the prover's reach.
- The two disagreements of section 4, which are counterexamples. `Schedulable`, which `ssa_unsound`
  needs, is recursive and therefore stands in `MCPipeline`.
- That an elite is one of the population, and the other assumptions of the modules, are evaluated
  by TLC for the instances of section 3.

## 7. Not modelled

- Ownership checks, list and read endpoints without state, formatting, OpenAPI, logging, validation
  of single values (`components` "HTTP plumbing", partly: bodies and error translation are in
  `Catalogue`).
- The seed and the command-line runners: they run once, by hand.
- Lecturer-distribution entropy and other telemetry of the GA, on which nothing decides; fitness as
  a floating-point number (costs are compared exactly instead); the probabilities of the random
  draws; checkpoints, which nothing reads.
- What forms contain, charts, grids, wording and layout. The delete button of `RunDetailPage` is the
  delete request of `RunLifecycle`.
- Audit entries other than those of overrides: written after their writes in the same best-effort
  way, and read by nothing that decides.
- BullMQ, Redis, Postgres and the browser themselves: modelled from how the code uses them.
