# Formal models of the task pipeline

TLA+ modules, TLC configurations and TLAPS proofs for the program in `src/`: a
service that turns e-mails, phone transcripts and meeting notes into legal
tasks, deduplicates them into a canonical registry and pushes them to Clio, with
a web console for the people who watch and correct it. Paths below are relative
to `src/src/` unless they start with `src/`.

Every definition was translated from the code. A module's comments name what
its actions stand for; `PROJECT.json` maps each definition to its lines.

## The system

One Node process holds the HTTP API and seven BullMQ workers; any number of
such processes may run. They share PostgreSQL (no handler opens a transaction:
each query commits on its own), Redis (locks, caches, rate counters, tokens,
the queues themselves) and the outside services: Claude, an embedding service,
Clio. Every `await` is a point where anything else may happen. The console runs
in browsers and sees the server only through its fetches.

| Part | State | Operations | Modelled in |
|---|---|---|---|
| Matter lock, `registry/locking.ts` | Redis key `lock:matter:<id>` holding a uuid, 30 s TTL | `withMatterLock` round a section; 20 tries, 50 ms apart | `MatterLock` |
| Dedup stage and registry, `dedupe/`, `registry/` | `canonical_tasks`, `task_evidence_links`, `merge_decisions`, review items, `processing_state` | `dedup.check` job: discard, three tiers, merge / enrich / follow-up / create / review; `PATCH /tasks/:id` | `DedupRegistry` |
| Intake, `ingestion/evidence.routes.ts`, `src/web/src/pages/IngestPage.tsx` | the page's form, `evidence_events` and their keys | read a document, submit, insert on conflict, add the job | `Intake` |
| Pipeline, `ingestion/`, `extraction/`, `normalization/`, `resolution/`, `lib/infra/queue.ts` | `processing_state`, spans, candidates, BullMQ jobs and their ids | ingest, extract, normalize, resolve; retries | `Pipeline` |
| Operators' tools, `observability/replay.service.ts`, `app/` | the same; the pause flag and the queue of a stage | replay from the start or from a stage, retry failed jobs; pause, resume | `Pipeline`; `Backoffice`, `Console` |
| Identity resolution, `resolution/` | candidates' matter and user, both registries, two Redis caches of an hour | `identity.resolve` job, six tiers; registering and editing matters and users | `Identity` |
| Assignment and rules, `assignment/` | `routing_rules`; the assignee is logged only | the tiers, triage as the sixth; create, deactivate a rule; adds `sync-<task>` | `Assignment`, `Console`; `ClioSync` (the job) |
| Clio sync, `sync/`, `clio/conflict-handler.ts` | `clio_task_links` (Clio id, etag, status) and Clio's tasks | create, update with If-Match, conflict detection and resolution | `ClioSync` |
| Clio client and limiter, `clio/clio.client.ts`, `clio/rate-limit.ts` | a Redis counter per second | `request`: slot, token, call | `RateLimiter`, `ClioAccess` |
| OAuth, `clio/clio.auth.ts`, `clio/clio.routes.ts` | tokens and single-use states in Redis | authorize, callback, refresh, status | `ClioAuth`, `ClioAccess` |
| Review queue, `review/` | `review_queue` | create, list, decide | creation in `DedupRegistry`, `ClioSync`, `Identity`; decisions in `Console` |
| Web console, `src/web/src/` | per tab: the page shown, its form, a cache of queries | edit tasks, matters, users, rules; decide; pause, resume, retry; ingest | `QueryClient`, `Backoffice`, `Console`, `Intake` |

How they interact: the intake inserts an event and adds its first job. A
stage's worker writes `processing_state` and then adds the job of the next stage
under a deterministic job id. The dedup stage runs its section under the matter
lock. Assignment reads the routing rules that the console edits and adds the
sync job, which also has an id of its task's. A sync calls Clio through the
client, which takes a slot of the limiter and then a token. People enter through
the console, PATCH, replay, retry, manual sync, and by editing tasks in Clio.

What is hard here, and to test: sections that outlive their lock; decisions
taken on rows read several awaits earlier; attempts that die half-way and start
over on what they left behind; caches that nobody invalidates; adds that BullMQ
ignores because it knows the id; a state write and the add it announces being
two steps; tokens refreshed by several processes without a lock; optimistic
concurrency with Clio across lost answers and concurrent runs; pages that save
what they fetched a while ago. `PROJECT.json` lists these hazards at their
lines, each with the properties that watch it.

What makes each part correct: the lock excludes, frees itself and answers
waiters; the registry gets one task per piece of work, keeps human edits and
loses no evidence; an event moves forward through the pipeline and ends
somewhere visible; a guessed or unknown matter is put before a person, and stale
guesses fade; Clio is called within its budget and with live tokens, and ends
up with the human version, at the price of no edit made there by somebody else
and no pile of duplicates; a tab shows its user's own writes and does not undo
what it had shown; a document submitted once is one event with a job.

## The modules

**`MatterLock`** has one action per Redis command or step of `withMatterLock`:
`Enter`, `Acquire`, `Retry`, `GiveUp` (LOCK_TIMEOUT), `Finish`, `Release` (the
compare-and-delete script), and the environment's `Crash` and `Expire`. Time is
not modelled: the sections of `Overrunners` may outlive their key, those of the
other jobs do not. `FreshIds` makes uuids unique among those anybody still holds, which
nothing can tell from unique for ever and keeps the state finite.

**`DedupRegistry`** composes one lock (`Lock == INSTANCE MatterLock`) with the
stage. `todo[c]` is the list of queries the section of candidate c has still to
make; each is an action (`FindExact`, `FindSimilar`, `InsertTask`,
`ReadForEnrich`, `FillFields`, `AddLink`, `IncrementCount`, `InsertDecision`,
`CreateReview`, `SetEvidence`), and between any two a job may throw (`Throw`),
its worker die (`Kill`), a key expire or a person edit a task (`Patch`).
`Enqueue` is what the worker does after the lock is released. Scores and
answers of the adjudicator are any the code accepts for the rows it has read.
The due date stands for the sensitive fields. A fingerprint contains the matter
id in lower case, the row and the lock key have it as written, so both are
given per candidate (`Cand`).
The authority conflicts that `enrichWithConflictCheck` looks for are not there:
the existing value's authority is always null, for which the rules never answer
"review".

**`Pipeline`** follows one event's jobs. `queue[j]` is what BullMQ knows of job
j, named as its job id names it, and `Add` ignores ids it knows. A worker's
handler is `Guard`, the stage's work, `WriteState`, `Send` (per job) and
`Return`; `Fail` is a throw or a dead worker at any of these points. Only the
number of candidates is kept, only the existence of spans. `LateFailures`
says whether handlers may fail after the state write. The dedup job is reduced
to its effect on the state; `DedupRegistry` has the rest.

**`ClioSync`** follows `syncToClio` of one task through its awaits, for a
`sync.push` run and manual ones. Of an etag somebody keeps, only whether it is
still the current one is kept; of a task's content, its version number. The
PATCH is refused unless its If-Match is current. `CallFails`, `ReplyLost`
(done, but the answer or the audit entry failed) and `Die` are the faults.
Every answer of Clio is assumed to have an etag.

**`Identity`** runs the `identity.resolve` jobs of events whose shape recurs
(`Arrive`): `Load` a candidate, `ReadCache`, `Look` (one action per query, in
the order of the tiers), `KeepMatter` (SETEX under the reference alone), `Weigh`
(the review items), the same for the assignee, `Update`, `WriteState`, and
`Fail` anywhere. `CreateMatter`, `UpdateMatter` and `UpdateUser` edit the
registries, `CreateTask` is dedup, `ExpireMatter` and `ExpireUser` are Redis.
Which texts match in SQL is given as relations (`Exact`, `Alike`, `Called`,
`Roles`); an event has one contact and one participant. Faults are bounded, not
attempts: BullMQ tries a job three times, and an operator may retry it after that. The
aliases of a matter do not change, since `Exact` is a constant.

**`ClioAccess`** composes **`RateLimiter`** and **`ClioAuth`** over common
callers (`ClioCallers`): a request takes a slot, then a token, then calls Clio;
the status route and the callback bypass the limiter. `RateLimiter` has INCR and
PEXPIRE as two steps and knows the running window and the one before it;
`ClioAuth` has one stored record, its age, and Clio's view of which refresh
tokens it still accepts. A refresh is three steps (read, call, SET), and Clio
may or may not replace the refresh token. Tokens nobody remembers are recycled,
which keeps the state finite.

**`Console`** composes **`QueryClient`** (what @tanstack/react-query does with
the queries of the pages that a tab shows, external), **`Backoffice`** (a
request and its handler: sent, committed, done, failed at any point),
**`Assignment`** (the tiers and `findRule`, pure operators) and **`Intake`**.
`desk` is what is worked at; the desks share no state, so that one run covers
them in turn. A page's action is the click that sends its request, under the
condition that shows the button; the value of a field is the number of the write
that set it. One query is followed on each page, under the root of its key
(`KeyOf`); a mutation invalidates the queries under the root it names (`Under`),
and none names `metrics`, which the dashboard shows and polls. Hence decisions
are made at two desks, once beside the queue and once beside the dashboard. A
page whose last fetch failed shows the error instead of its data (`failed`).
`Elsewhere` is everybody who is not the tab: other people, API clients, the
pipeline. A POST or DELETE without a body is refused by the server
(`BodyLess`), since the console's client labels it as JSON.

**`Intake`** is `IngestPage` (`Choose`, `Extracted`, `Submit`, `LeavePage`), a
client that sends one document again under one key (`Feed`), and the handler:
`Insert` on conflict, `Enqueue`, `Reply`, with `Break` and `Disconnect` as
faults. A reading that nothing ends goes on when another document is chosen
(`overlapped`).

**`MatterLockProofs`, `DedupRegistryProofs`, `PipelineProofs`, `IdentityProofs`,
`ClioSyncProofs`, `ClioAccessProofs`, `IntakeProofs`, `ConsoleProofs`** hold the
theorems, one module per component they are about. **`MC...`** modules hold the
instances. Modules contain deliberately wrong variants of some actions, each
marked as such; they occur in no behaviour of the specification and serve to
confirm that each property notices such a bug.

## What is checked

| Run | Instance | Shows |
|---|---|---|
| `lock_jobs` | contenders for one matter, one of them an overrunner, and a caller without matter; 2 tries; fairness | exclusion while sections fit the TTL, one owner, only expiry evicts, waiters answered, the lock comes free |
| `dedup_twins` | 2 reports of one work, 2 attempts, a dead worker | lock protocol followed; no task created next to its twin; counts cover links |
| `dedup_edits` | 2 works on one matter, 2 attempts, a human edit | completed jobs have recorded everything; no created task misses assignment |
| `dedup_settle` | 3 candidates: siblings, low confidence, no matter; dead workers, fairness | all jobs end |
| `pipe_forward` | 1 event, up to 2 candidates, 2 attempts, fairness | state only advances, first attempts run, nothing lost, all jobs end |
| `pipe_replay` | 1 replay or retry, failures anywhere | states have their rows; types |
| `identity_hour` | 2 events that recur, 2 matters and an alias, 2 users, 1 edit, 1 failure, fairness | guesses and unknown matters have been questioned, retries move a candidate only by a stale guess, guesses and inactive users leave the cache, all jobs end |
| `sync_concurrent` | worker and manual sync, 2 edits, 1 fault, fairness | foreign edits kept, duplicates bounded, the human version arrives, types |
| `access_calls` | 2 processes, 3 calls, a budget of 1, 5 tokens, 1 authorization, 1 failure, fairness | budget kept, no expired token sent, no refresh token lost without a failure, all calls end |
| `console_desks` | 1 tab at each of 8 desks, 2 requests at once, 2 writes, 1 failure, 3 rules; 2 documents and a fed one, 2 submissions, 2 failures; fairness | own writes shown under invalidated keys, nothing shown undone, who was told of a decision does not decide again from fresh data, pause flag and queue agree, triage after all tiers, polling pages catch up, types; the text is that of the file shown, answers stand for jobs, second events only of resubmissions |

Why the bounds suffice. The lock's hazards take a holder, its successor and a
third that the successor's loss would let in; one matter, since matters share
nothing. Two candidates are enough for every race between a lookup and an
insert. Two attempts make a retry meet what the first left behind,
and more attempts meet the same kinds of leftovers. Events share no state in
`Pipeline`, tasks none in `ClioSync`. Two sync runs, two edits and a fault
cover each pair of concurrent writers with a lost answer between them. Two
callers make every race on one counter, one token record and one callback, and
three calls let one of them come back after both; five tokens are one more than
can be remembered at once. In `Identity` the cases are in the relations: an
alias unknown before its matter is registered, a matter whose displayed name
contains another's reference, a name that tasks know under another user. One
tab and `Elsewhere` are enough for the console, since tabs share nothing but the
server; two writes put one of somebody else between a fetch and a save. Whether
an answer is older than 30 s is a choice at every visit (`Mount`). `Typed` lists
the fields a user changes, so that the others are sent back unchanged.
Decisions are made at the review desk and at the dashboard's, where the query of
the other page is one that no mutation names.

`OwnWritesShown` is about the queries under keys that the mutations invalidate.
It does not hold of the others: `['metrics']` and the task page's
`['audit', ...]` may be 30 s behind their own tab (the second is not followed in
the model). It also excepts answers to a fetch that the library let go on past an
invalidation (`raced`): an invalidation does not cancel the fetch of a page that
is not shown, and what that fetch brings counts as fresh for 30 s. `DecidesOnce`
excepts the same, and the time in which the item is fetched anew, when the page
goes on showing it as open. It is about the console: another client may decide
an item as often as it likes, since the server does not ask.

Several properties say what holds in the absence of a race that they name:
`FlagAgrees` of switches that do not overlap or fail, `PreviewIsOfFile` of readings
that do not overlap, `MutexUnlessOverrun` of sections that fit the TTL. With the
race the opposite happens, as the list below records.

Deadlock is not checked for `DedupRegistry` and `Pipeline`, whose jobs are
finite in number and end; the liveness properties say that they do end.

Runs that fail, and are expected to: each checks one thing that a comment says
and the code does not do.

| Run | Says | Does |
|---|---|---|
| `dedup_human` | sensitive fields a person edited are not overwritten | an edit between read and update is |
| `pipe_late` | the guard skips jobs already past their stage | it also skips a retry that has not handed over |

Further disagreements that the models show, without a run of their own:

* A section that outlives the 30 s key runs side by side with its successor,
  although locking is there "to serialize registry mutations within the same
  matter" (`registry/locking.ts:4`), which is why `MutexUnlessOverrun` excepts
  the `Overrunners`.
* Rows that write one matter id in two cases take two locks
  (`registry/locking.ts:17`) but share a fingerprint
  (`dedupe/dedup.deterministic.ts:12`), and both create the task. Hence
  `OneSpelling` in `CreatedOnlyIfAbsent` and `NoTaskUnassigned`.
* `same_task_enrich` has no protection of completed tasks
  (`dedupe/dedup.service.ts:231`): evidence is added to them, against "prefer
  follow-up or review" (`domain/policy.ts:20`). It is a branch of `FindSimilar`.
* With a completed task and its open follow-up under one fingerprint,
  `findByFingerprint` (`registry/registry.repo.ts:51`) may return the completed
  one and a second follow-up is created; `dedup.deterministic.ts:18` says that
  completed tasks are skipped. It takes three candidates.
* A stage replay leaves `processing_state` alone
  (`observability/replay.service.ts:63`), so the guard skips its job when the
  event is already past the stage.
* `human_edited_at` is never reset: one edit here lets every later edit in Clio
  be overwritten without review (`clio/conflict-handler.ts:57`), against
  `domain/policy.ts:42`. `ForeignEditKept` says what does hold.
* The review item of a sync conflict has a canonical task's id where its
  foreign key wants a candidate's (`clio/conflict-handler.ts:111`,
  `src/migrations/009_create_review_queue.sql:3`): the insert fails, and the
  conflict ends as a failed sync (`CreateReview` with `CandidateIds = {}`).
* "Replay" adds the event's jobs under the ids of the finished ones, which BullMQ
  ignores while it keeps them (`Pipeline!Add`): the replay that
  `src/README.md:133` offers resets the state and stops there. In the same way a
  recompute's sync job (`registry/registry.routes.ts:90`,
  `assignment/assignment.worker.ts:26`) vanishes behind the finished one.
* `review/review.service.ts:41` records a decision and nothing acts on it, though
  the dialog says that the task "will proceed through the pipeline"
  (`src/web/src/pages/ReviewDetailPage.tsx:217`). The dialog stays open after a
  click, and the page shows it while the item is fetched anew, so that one person
can decide twice, also after he was told of the first time.
* A decision and a saved task do not invalidate `['metrics']`
  (`src/web/src/pages/DashboardPage.tsx:35`) or `['audit', ...]`
  (`src/web/src/pages/TaskDetailPage.tsx:50`): "Open Reviews" and the task's history
  stay as they were for up to 30 s.
* A user found by a similar name, or by a role that a task has
  (`resolution/identity.repo.ts:175`, `:194`), is assigned without a review item, where
  a guessed matter has one. `GuessWasQuestioned` is about matters only.
* Every POST and DELETE of the console without a body (recompute, sync, replay,
  retry, deleting a rule, and pause and resume, whose stage names the server
  would refuse as well) has the content type of JSON, for which Fastify 5
  refuses an empty body (`BodyLess`).
* `PipelineMonitorPage` looks metrics up by stage in an answer that is a list.
* `assignment/assignment.service.ts` asks for rules with a matter's id where the
  rules have a practice area, so that only wildcard rules fit in practice;
  `RoutingRulesPage` offers "Any" as an action, which the server refuses.
* The form of `IngestPage` keeps participants, hints and the privilege flag when
  another document is chosen or the first was accepted. Two documents chosen in a
  row may be shown under each other's names (`overlapped`). Each click has an
  idempotency key of its own, which makes the key one of clicks, not of
  documents. The list of evidence is not invalidated.
* An event whose add failed has no job, and a client that tries again under the
  same key is told that the evidence is there (`AnsweredIsQueued`).
* The tab in which somebody connected Clio goes on to say "Not connected": its
  query is not polled, and nothing invalidates it.
* Migrations send BEGIN and COMMIT through the pool, not one connection
  (`src/src/index.ts`), and a second uncaught exception during a shutdown ends the
  process before the workers are drained.

## Fairness

Weak fairness of the steps a running process takes by itself: a worker takes a
waiting job and executes its next statement, an API handler goes on to its next
await, Redis honours EX. No failure, edit, replay or death is fair. In
`MatterLock` it is fairness of the whole retry loop, not of `Acquire`: a waiter
may be unlucky every time, and `WaiterAnswered` includes LOCK_TIMEOUT.
`ClioSync` also assumes that people keep asking for syncs (`StartManual`),
since nothing in the code would try again; this is the "if somebody goes on
syncing" of `HumanVersionArrives`.

In `Identity` workers go on and Redis drops keys after their hour; no edit,
arrival or failure is fair. In `ClioAccess` a process goes on with the calls it
has begun and seconds pass. In `Console` an open page polls, and the server
reads and answers for it; no click, write or request is fair.

## What is proved

Every safety property of the passing runs, invariant or action property, is a
theorem, for every value of the constants. Liveness is not: the prover has no
rules for fairness, and `WaiterAnswered`, `LockComesFree`, `JobsSettle`,
`CacheForgets`, `HumanVersionArrives`, `CallsEnd` and `PolledCatchesUp` are
only model-checked.

The proofs use the named assumptions of the modules and nothing else. They say
that sentinels (`NoId`, `NoMatter`, `NoToken`, `Nothing`, `NoDoc`, `NoRequest`,
`Away`) are no members, that bounds are natural numbers, that there are finitely
many candidates, manual syncs, rules and request slots, that a job may be tried
at least once, that there is a token, that a candidate is of one event, that
the document of the other client is none of the page's, that the pages and rules
that the actions name exist, that a reference matches its own matter, and that
fingerprints tell whether a candidate has a matter. Sets of jobs, matters,
events, tabs and callers may otherwise be of any size.

**`MatterLockProofs`**

* `InductiveInvariant`: `Spec => []IInv`. Exclusion is not inductive by itself:
  that a job is inside says nothing of the key. `IInv` adds that exactly the
  jobs in or leaving a locked section know a uuid (`IdsInUse`), that no two know
  the same (`UniqueIds`), that only jobs with a matter wait or leave
  (`WaitersLock`), and that a section which may not overrun finds its own uuid
  in the key (`KeyKept`). Two jobs inside one matter would then both be the
  value of one key. One lemma per action; `Release` needs `UniqueIds`, `Expire`
  needs the exemption of `Overrunners`.
* `TypeCorrect`, `MutexTheorem` and `SingleOwnerTheorem` follow from it;
  `EvictionTheorem` is an action property shown from the same invariant.

**`DedupRegistryProofs`**

* `Refinement`: `Spec => LockSpec`. Every step of the stage is a step of the
  lock or leaves it alone, so the stage implements `MatterLock`.
  `SectionsSerialized` follows from it and `MutexTheorem`.
* `RegistryInvariant`: `Spec => []RegInv`, whoever dies, edits or enters a
  section too late. A job is undecided or has made the first n queries of its
  verdict (`Made`), stands where that leaves it (`JobAt`), and what those
  queries have left behind is still there (`Effected`), because nobody takes it
  back (`Grows`, shown of every step). `DoneTheorem` is the case of all n.
* `ExclusionInvariant`, under `Exclusive` (no section overruns, one spelling per
  matter): what a lookup has not found stays absent until the section acts on it
  (`Absence`); while nobody edits, there is one task of each print, and it is
  open (`OneEach`), and some job will still find it or has taken it on (`Owned`).
  The step needs exclusion, which `SectionsSerialized` provides.
  `CreateTheorem` is `Absence` at the insert; `AssignTheorem` is `Owned` when no
  job is under way.
* `CountTheorem`: the jobs that are past the counter of a task (`Counted`) are no
  more than it says (`Covered`), whatever order links and counters came in; at
  most one job made the task (`OneMaker`), each link is of a candidate that was
  not discarded (`Evidenced`), and while all report one work, nobody edits and no
  section overruns, they either made the task or were merged (`Simple`). When all
  are done, links and counted jobs then differ by the maker alone.

**`PipelineProofs`**

* `RowsTheorem` and `TypeTheorem`, whatever is replayed. The state alone does
  not tell: `PipeInv` adds that every job that was ever added, and every handler
  that found something, has its rows (`RowsBehindJobs`), and that a worker has
  only active jobs (`Steps`).
* `FirstAttemptTheorem` and `AdvanceTheorem` (`[]FirstAttemptRuns`,
  `StateAdvances`) follow from `Order`, which holds while nobody replays: no job
  is there before its event has reached the state it starts from (`Reached`);
  nobody moves the event under a job that works, or is about to for the first
  time (`InStep`); a handler that has still to add the next job finds the event
  where it left it (`Front`, `Added`); a submission that is not queued has no
  jobs (`Called`). The core of the argument is that at most one job relies on
  the state an event is in (`Relies`, `StateOrder`): the one that writes it.
* `NothingLostTheorem`: while no handler fails late either, `Trail` adds that a
  job which is done has left its successor, or a decision, or no candidates
  (`Passed`), and that retried jobs, too, find their event where their stage
  starts (`OnTime`). From the ingest job that every accepted event has, the
  trail leads to one of the ends that `NothingLost` names.

**`IdentityProofs`**, from one invariant, `IdInv`:

* `UnknownTheorem` and `GuessTheorem`, which are about matters only: a row is overwritten only after its job
  has put what it found before a reviewer (`Asked`), and the references of tasks
  come from such rows. That alone is not kept by a retry, which looks up what
  the attempt before wrote into the row: what caches and rows say can still be
  found (`Sound`, `CacheSound`, `RowsSound`), and the first two queries find it
  again, as an exact match (`FindsAgain`).
* `MovedTheorem`: so a retry moves a candidate only by way of an alias or a stale
  guess in the cache. An alias may mislead it also for a registered matter: the
  query of `identity.repo.ts` takes a row that has the reference or has it as an
  alias, `LIMIT 1` without an order, and nothing keeps the alias of one matter
  from being the reference of another.

**`ClioSyncProofs`**

* `ForeignEditTheorem` and `SyncTypeCorrect`, from `SyncInv`: a run that is to send
  something has read it and knows where (`Known`); of a task that was edited in
  Clio nobody holds the current etag but a run that fetched it, which patches
  on behalf of a person only, and the link does not hold it (`Kept`).
* `DuplicatesTheorem`: `Owed` counts. Before the link is there, each Clio task is
  one that a run is about to save or that a fault has cost; afterwards, the tasks
  and the runs still about to create one are no more than the runs and faults.

**`ClioAccessProofs`**

* `BudgetTheorem`: that a window lets at most `Capacity` calls through is not
  inductive: the caller that found the counter at zero has been counted and
  passes only after PEXPIRE. `LimiterInv` adds that a window's counter is at
  least what it let through, strictly so while such a caller is about to set the
  expiry, that there is one such caller per window, and that a second lets
  through no more than two windows do.
* `BearerTheorem` and `UsableTheorem`, from `AuthInv`: what a caller is about to
  send was fresh when it took it and has not expired since (`Young`); a token
  that is about to be stored is known to nobody else and can be refreshed
  (`Private`), so that who kills the stored refresh token is about to replace it.

**`IntakeProofs`**, for every behaviour of the whole console:

* `AnswersHaveJobs`: `IntakeInv` says where each submission is (`Progress`) and
  that every event has a job or is in the hand of the submission that inserted
  it, still to add the job or failed (`JobsInHand`); the first says that an
  answered submission is not that one. `IntakeTypeCorrect` follows.
* `PreviewKept`: only the document on the page is read for it (`PageInv`) until
  readings overlap.
* `DuplicatesTheorem`: every event has a key of its own, that of a click or the
  one of the other client, and at most one submission is awaited (`KeyInv`); the
  events of a document then are no more than its submissions, all but one of
  them given up.

**`ConsoleProofs`**

* `FlagTheorem`: flag and queue differ while a switch is between its two writes;
  `Agreement` says that then it is the only one, that the flag is what it is
  about to make of the queue, and that they agree otherwise. `StageTypes` adds
  that a switch asks the same of both.
* `TriageTheorem`: `Before` is a strict order of finitely many rules, so one that
  fits comes first if any fits (`FirstRule`, by well-foundedness). So a task is
  left to triage only after all tiers, those that ask for owners included.
* `OwnWritesTheorem`, `ShownTheorem`, `DecidesOnceTheorem` and `TypeTheorem`, from
  `DeskInv`: an answer on its way is of a commit that was made, and refreshes
  every query of its desk but those that no mutation names (`RequestOK`); a query knows the last commit its tab
  was told of, or is invalid, or raced (`Fresh`), also in the fetch that is
  already read; a form differs from what filled it only in what was typed, and
  that of a task from what the page shows (`FormOK`), so that a request sends
  untouched fields as they were shown. For `DecidesOnceTheorem`, no write
  leaves an item open (`Honest`), so that data at least as new as a commit show it
  decided (`Answers`), and the page does not offer it any more. A query that no
  mutation names owes its tab nothing (`Due`). Requests that have still to commit are counted as sent, which is why no value
  is beyond `MaxWrites`.

## What is not modelled

Left out for good: prompts and language-model answers beyond their possible
effects, adapters and text utilities, the conflict rules as tables, request
validation, logging, metrics, health, migrations, start-up and shutdown, the
evaluation harness. They keep no state that a property could be about. Of the
console: the audit log, the settings, the evidence pages and the Clio page,
which only show what they fetch or send requests that are refused for want of a
body; forms beyond the fields that two writers could meet in.

Abstractions worth knowing: BullMQ keeps finished jobs for ever (in the code
the last 1000 completed and 5000 failed ones of each queue); merge decisions
and review items are sets, so a retry's repeated row is not seen; a throw and a
dead worker are one action in `Pipeline`; the audit log is absent except where
its failure matters (`ClioSync!Save`, `Backoffice!Fail`); of the counts that the
dashboard and the pipeline monitor show only the age is kept; `RateLimiter` assumes
that a command reaches Redis within a second of the computation of its key.

## Plan

1. Abstract specifications: an event's life as a four-line state machine that
   `Pipeline` implements while nobody replays; a registry with atomic decisions
   that `DedupRegistry` implements for one matter; Clio as a compare-and-set
   register that `ClioSync` implements.
2. Proofs that the modules implement these specifications, from the invariants
   above: `Order` and `Trail` for an event's life, `ExclInv` for the registry,
   `SyncInv` for the register.
3. Larger instances of `ClioSync` (two faults) and of `Console` (two tabs).
