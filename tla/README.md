# ReplayBug in TLA+

Specifications of the parts of ReplayBug whose correctness depends on the order
in which several actors take their steps: the transactional outbox and its job
queue, the transaction that groups an event into an issue, the queue of the
browser SDK, the requests for reproductions and AI analyses, the files of source
maps, the governance of a workspace, live updates of the dashboard and its paged
lists, and the plan of a reproduction. TLC checks each of them on small instances;
TLAPS proves the most important invariants for every value of the constants. Paths
below are relative to the repository.

## 1. The system

An application loads the **SDK** (`packages/sdk`), which captures errors and
breadcrumbs, queues them and sends batches to the **API** (`apps/api`). Ingest
stores each event together with a row of the event outbox. The **worker**
(`apps/worker`) hands outbox rows to **pg-boss**, consumes the jobs, symbolicates
and groups each event into an issue, and runs the reproduction and AI jobs and
the cleanups. Dashboard users read and triage issues through the API. All state
that outlives a process is in PostgreSQL (`packages/db`), except artifact files.

| Part | State | Operations | Talks to | Hard behaviour | What makes it correct |
|---|---|---|---|---|---|
| SDK queue, `sdk/src/queue.ts`, `index.ts` | events in memory, one timer, one flush in flight | enqueue, flush, retry, re-queue, close | transport, page life cycle | callbacks between awaits, retries at two levels, shutdown during a flush | bounded, ordered, nothing stranded, shutdown ends |
| Ingest, `services/ingest.ts` | events, outbox, telemetry sessions, rate buckets | one transaction per event | SDK; outbox | redelivery, one event of a batch failing | event and outbox row together; one row per client event |
| Event outbox, `dispatcher/`, `reconciliation/`, `repositories/outbox.ts` | outbox rows and their locks | claim, publish, mark, fail | pg-boss, other workers | crash between publish and commit, unknown answers, competing passes | nothing orphaned, dispatched rows settle, everything ends |
| Job queue and consumer, `queues/`, `process-event-handler.ts` | jobs of pg-boss | fetch, complete, fail, expire | processor | expiry while the handler runs, bounded retries | acknowledged only when settled |
| Event processor, `processors/process-event.ts` | event, issue, affected sessions, activity, notifications | lock, group, count, reopen, notify | triage, symbolication | duplicate delivery, first-occurrence race, events out of order | once-only accounting, timeline equals history |
| Triage, `services/issues.ts` | issue, activity, notifications, tags, comments | status, assignee, tags, comments | processor | races with an occurrence | no lost transition, no false notification |
| Reproductions and AI analyses | request row, outbox, job | request, dispatch, generate, finish | pg-boss, retention, model provider | claim commits before publish; terminal transition against retry | one terminal outcome, one notification |
| Retention, `repositories/retention.ts` | deletes events and sessions | lock, recheck, delete | ingest, reproductions | redelivery of what was deleted | no pending or referenced event is deleted |
| Artifacts, `services/artifacts.ts`, `cleanup/artifact-deletion.ts` | files, metadata, deletion outbox | upload, compensate, delete | file system | crash between file and row; content-addressed keys | every record has its file, every other file goes |
| Governance, invitations, keys, `services/workspace-governance.ts`, `invitations.ts`, `keys.ts`, `deletion.ts` | memberships, invitations, keys | roles, transfer, leave, delete, accept, revoke, rotate | issues | concurrent administrators | one owner, one acceptance, a working key |
| Realtime, `realtime/broker.ts`, `lib/use-realtime.ts` | LISTEN connection, subscriber queues, queries on screen | notify, flush, reconnect, refetch | processor, browsers | overflow, reconnection, updates during a fetch | bounded memory, queries catch up |
| Paged lists, list queries of `repositories/` | the reader's cursor | first page, next page | concurrent inserts | equal timestamps, precision of the cursor | no row twice, none left out |
| Reproducer, `reproducer/src/plan.ts`, `locators.ts` | none | events of a session to the plan of a test | reproduction jobs | index arithmetic while actions are taken back, ties | the plan is the session |
| Pure code: fingerprint, normalisation, symbolication, contracts | none | functions | - | boundaries | determinism, stability |

Web, demo, CLI, UI, observability and authentication carry no protocol of their
own. `PROJECT.json` lists every part with its status and every hazard at the line
where it bites; hazards no property covers say why.

## 2. The modules

| Module | Models | Status |
|---|---|---|
| `JobQueue` | the guarantees of pg-boss the worker relies on, as operators on one job row | done |
| `EventOutbox` | ingest, dispatcher, reconciliation and consumers around `JobQueue` | done |
| `IssueAccounting` | abstract: each event counted once, numbers of an issue are those of its events | done |
| `EventProcessing` | `processEvent` and triage, statement by statement | done; implements `IssueAccounting` |
| `SdkQueue` | `EventQueue` and the SDK's `flush()` and `close()` | done |
| `OutboxJobs` | reproduction and AI requests: API call, loops, consumers, retention | done |
| `Artifacts` | CLI upload runs, the upload pipeline, deletion of the project and the deletion worker | done |
| `Workspace` | governance with the deletion of the workspace, sign-ups, invitations, key rotation, by the row locks of each transaction | done but for renaming |
| `Realtime` | from the committed change to the queries its update names | done |
| `Paging` | the ten keyset lists, their sorts and orders, and a reader that follows their cursors | done |
| `ReproductionPlan` | what a reproduction job computes, of any session and any failure in it | done for plan and locators |
| `Reproductions` | `OutboxJobs` and `ReproductionPlan` together | done |
| `PlanAsDocumented` | what the comments and the document on the generator say of navigations | done |
| `MC*`, `*.cfg` | instances for TLC | done |
| `*_proofs` | theorems | done as listed in section 5 |

### EventOutbox and JobQueue

`events`, `outbox` and `job` are the committed tables; `pass[p]` is the transaction
of one dispatcher or reconciliation loop, `slot[w]` a consumer. A pass holds its
row locks (`Locked`) and its uncommitted marks until `PassCommit`; `PassAbort`
throws them away, but not the jobs it published: pg-boss writes through its own
pool. The two loops differ in how they claim: the dispatcher takes the oldest
undispatched rows, the reconciler first lists rows older than `staleTime` without
a lock and claims those that are still pending afterwards. `PublishFailed` covers
the throw whose insert was durable all the same. `ExpireJob` takes a job away from
a handler that may be running on, so a handler can report on a job that was
delivered again. `HandlerCommit` stands for all of `processEvent`, which
`EventProcessing` models in detail.

Abstracted: several events of a batch are ingested one by one (the code does the
same); a rejected event of a batch leaves no trace; `attempt_count` and the text of
`last_error` are dropped, its presence is kept; retry delays take any time.
Consumers take any fetchable job: pg-boss's fetch order is not relied upon. A
processed event is not deleted here (retention is a later module).

### EventProcessing and IssueAccounting

One value of `tx[w]` per statement boundary of `processEvent`. Row locks follow
from the program counter: `HoldsEvent` from `lockEventForProcessing` to the end,
`HoldsIssue` from the lock or the insert of the issue row. Everything a
transaction writes lies on rows it holds, so its writes are applied in
`CommitGrouped` and a rollback (`Abort`) simply forgets it. An uncommitted insert of
an issue is invisible to the first `SELECT ... FOR UPDATE` and makes the second
`INSERT ... ON CONFLICT DO NOTHING` wait; the third statement locks the row that
won. `Plans[e]` is the set of outcomes symbolication and fingerprinting can have
for an event: a source map that arrives or disappears between two attempts changes
it. Any consumer may take up any event at any time, which includes every
redelivery `EventOutbox` allows. Triage requests are transactions on one locked row
and hence one action each; the membership of the assignee is fixed.

Abstracted: titles, severities, project and workspace ids, the enrichment JSON, and
the `pg_notify` at the end. Issue and project deletion are left out.

`IssueAccounting` is what the dashboard numbers promise. The refinement maps
`counted[f]` to the events whose row points at the issue, `closed` to events that
ended without one, and `totals` to the columns of the issue row: counters that are
incremented and extremes kept by `LEAST` and `GREATEST` must stay equal to the
cardinalities and extremes of a set.

### SdkQueue

JavaScript runs to completion, so an action is what happens between two awaits.
`io` says what the flush in flight waits for and stands for `processing`; `attempt`
is the loop counter of `sendWithRetry`; `shutdown` is the place `close()` has
reached. Deadlines may be over whenever they are looked at. After shutdown the
transport is null and a late flush throws a `TypeError` at once (`"dead"`). An item
carries `sends`, the number of times it was handed to the transport, which the
code does not record.

Abstracted: delays and `Retry-After`, the payload, sampling and `beforeSend` (an
event that is dropped there is not captured).

Seen while modelling, and not claimed as defects: `maxQueueSize` can be exceeded by
one batch when a failed flush comes back (`BoundedMemory` states the true bound);
`maxAttempts` holds at both levels, so an event is sent up to its square times
(`SendsBounded`); close() does not wait for a batch in flight when the queue is
empty, and if that batch fails afterwards its events are given up; events the
server rejects are only logged, although the comment at `queue.ts:236` says they
are queued again.

### OutboxJobs

Both kinds of request have the same shape; `kind[k]` decides where they differ, and
the initial states leave it open. `row`, `outbox`, `job` and `told` are the tables,
`job` the same `JobQueue` as above. A call (`call`) reads without a lock, inserts
with `ON CONFLICT DO NOTHING`, commits, or reads the row that was there. A pass
(`pass`) commits its claim before it publishes, so it holds no lock afterwards and
may publish and mark rows another pass has: this is the hazard, and the properties
say what survives it. A consumer (`slot`) reads the row without a lock, works
outside any transaction and settles in a transaction that looks again. `expiry` is
the retention pass on an event: candidates of a snapshot, a lock that skips what an
uncommitted insert shares, and the recheck.

Abstracted: the generated test and the model's answer are outcomes, retry delays
take any time, `attempt_count` and error texts are dropped. Left out: reading and
rendering of requests. Seen while modelling, and not claimed as defects: an AI
outbox row whose error text is blank makes `recordAiAnalysisOutboxFailure` throw and
ends the batch (`RecordRefused`); a repeated AI request is answered `pending`
whatever its state is (`ai-analyses.ts:214`); the summary of a reproduction throws
once retention has taken its event (`reproductions.ts:592`), although the docs say
that its history remains; the comment at `reproduction-dispatcher.ts:26` says that
competing passes skip each other's rows, which holds during the claim only.

### Artifacts

Within one release a storage key is the hash of the content, so `file` is a set of
contents, and two paths may share one. `cli` is a run of `sourcemaps upload`, `up`
the API's handling of its upload in flight: the two are separate, since a run may
give up while the API goes on. `removal` is the transaction that deletes the project
with its row locks; an insert of an artifact row waits for the release row, whose
lock the foreign key shares. `worker` is a deletion pass with its locked rows.
`undone` and `stray` are history: files a compensating delete has removed, and
files left behind by an upload that was cut short between file and row, which
nothing ever removes.

The deletion of a workspace locks the releases and artifacts of its projects and fills
the deletion outbox in the same way (`deletion.ts:227-241`); for the files of one
project the two deletions are the same steps, and `Workspace` has the rest of it.

Abstracted: validation of archives and paths, temporary files, source-map content.

### Workspace

A call takes its row locks one after the other and writes when it commits; the
place `at` says which locks it has (`HasWorkspace`, `HasMember`, `HasUser`,
`HasInvite`). Foreign keys share the locks of workspace and users, so an acceptance
cannot insert a membership while a governance transaction has the workspace.
Authorisation reads before the transaction; what the transaction reads again under
its locks, and what it does not, is kept as in the code. `Abort` stands for every
rollback, the end of a deadlock by PostgreSQL included: `createInvitation` locks a
membership before the workspace and governance the other way round.

A user stands for an address, and for the account with it once that is in `account`
(`Register`). A creation that finds no account locks none and looks at no membership
(`FindNoUser`); `overlooked` is history, the invitations written that way for somebody
who had registered by then. The deletion (`deleteWorkspaceWithArtifacts`) takes the
governance locks and then everything that belongs to the workspace with it, so it
waits for whoever has locked an invitation.

Abstracted: audit rows matter for their foreign
keys only; tokens, names and secret tokens are left out; the worker's batch is at
least as large as the set of invitations. Seen while modelling, and not claimed as
defects: two rotations leave two active keys (`keys.ts:60`), so `SomeKeyWorks` asks for
one at least; an invitation whose addressee registers, and accepts an earlier
invitation, between the look for the account and the insert is pending for a member
(`invitations.ts:211`), which `PendingInvitesAreUseful` exempts by `overlooked` and by
nothing else; the role an invitation grants is checked only before
the transaction (`invitations.ts:181`), and the second attempt after a token
collision runs in a transaction PostgreSQL has already aborted
(`invitations.ts:250`).

### Realtime

One browser with the queries of the components on its screen (`Open`). `channel` holds
notifications on the LISTEN connection, `queue` is the subscriber's, `wire` the stream,
`asked` and `answer` the fetches; the queries are being fetched for the first time when
the model starts. `changes` counts what was committed, and `data` says of which count a
query shows the database. `Invalidated` is the switch over the ten update types, by the
names of the query keys; the key of an issue is a prefix of those below it, so naming
it names them all. `toStreamPayload` is what the stream leaves of an update.

`base`, `unbroken` and `coalesced` are history: the database at the ready frame, and
whether since then a connection was lost or the queue has overflown. The properties are
about the time in between, since nothing is fetched again on reconnection, and an
overflow keeps only the update that came last, though those it drops may name other
queries (`broker.ts:200`, which the document on realtime calls correct). Two more
exceptions are what the code does: a failed fetch is not repeated (`failed`), and an
update that finds a query on its first fetch lets that fetch go on, even if it has read
before the change (`joined`): TanStack Query cancels a fetch only for a query that has
data. `leaked` counts subscribers whose socket closed while the handler was still
waiting: `realtime.ts:197` registers the close handler too late for them.

Abstracted: what else a change writes, event ids, heartbeats, other projects. A pending
record polls every 2 s (`reproduction-panel.tsx:152`); that is left out. Seen while
modelling, and not claimed as defects: the stream takes `reproductionId` off
(`routes/realtime.ts:48-60`), although the browser's type has it (`lib/realtime.ts:30-33`)
and the dashboard means to refetch the record by it (`use-realtime.ts:56` and `65`), so
only the poll shows that a reproduction has ended; `reproduction.failed` names neither
the history nor the activity of its issue (`use-realtime.ts:62-69`), so a failure is not
seen there until something else refetches them. The properties ask for what an update
names as it arrives, and so hold all the same.

### Paging

Each list is its query with the order of its rows and the precision of its cursor;
`list` says which one the reader has opened, the issues by one of four columns and
issues and sessions in either order. `Stamps` are the database's microseconds. Lists
whose column is filled from a JavaScript `Date` have whole milliseconds; counts and
sequence numbers take the same values, and their cursors keep them. Rows are inserted at
any time with any stamp (transactions commit out of order), and two lists move their
rows: up, but down in the order of `first_seen`. `steady` are the rows the promise is
about.

Abstracted: filters, and the rejection of a cursor of another sort or order.

### ReproductionPlan

Functions from a session and a failure in it to the plan of its test, with no state of
their own: what the worker collects and sanitizes (`Evidence`), the window
(`Windowed`), and the single walk over it (`Visit` with `GoTo`, `Click`, `Input`),
whose locals are a record. The properties compare the walk with what a plan must be,
said of the whole window without a walk: which events can be found again (`Acting`),
which fills the next action makes void (`Superseded`), and which navigation follows a
click (`Follows`). Two things they leave open, since code and document differ: what
becomes of a navigation no action precedes, and where a test starts whose window has no
navigation. `PlanAsDocumented` says what is written about these and checks it of one
session with two failures, against the same functions. `Reproductions` puts them beside the life of a request: once a
reproduction is ready, whatever session it was made of, its plan is that session's
(`PlanFollowsSession`, `PlanIsDeterministic`, `LocatorIsStrongest`). Which session that
is plays no part in the steps, so all are looked at. `MCOutboxJobs` has the sessions they are checked over. Sorting is said by
ranks (`Sort`: equal elements keep their places), and `IsSession`, `IsRow` and
`IsCandidates` say the shape of what is stored.

Abstracted: URLs, selectors and values are tokens, the patterns that tell unsafe and
sensitive ones are attributes of a token; labels, warnings, diagnostics and the
assertion about the failure are left out. The pages in which the worker lists a session
are read at once: an event that is ingested behind its cursor is one that came too late
for the plan. The two findings: the navigation put in front of a full window is cut off
again (`plan.ts:113-116`), so the start route is then the page of the last event; while
there is no action yet a second navigation becomes an expected URL rather than a
`goto` (`plan.ts:185`). Seen while modelling, and not claimed as a defect: the first
usable navigation is the start route even when clicks came before it (`plan.ts:179`).

## 3. The runs

| Run | Instance | Shows |
|---|---|---|
| `outbox` | 2 events, one of them malformed, dispatcher and reconciler, 1 consumer, batches of 1, 1 retry, 1 fault | `NoSilentOrphan`, `DispatchedRowsSettle`, `EveryEventEnds` |
| `outbox_poison` | 1 event, 1 retry, no fault | violates `EveryEventIsProcessed` (finding) |
| `processing` | 4 events, 2 fingerprints, 2 consumers, 2 members, 2 triage actions, 1 rollback | refinement, timeline, releases, notifications, reopening, no deadlock |
| `sdk_queue` | 5 events, queue and batch of 2, 2 attempts | bounds, order, nothing stranded, everything leaves |
| `sdk_close` | 1 event | violates `CloseNeverThrows` (finding): the flush made by the queue's own close() fails |
| `requests` | 1 identity asked for twice, of either kind, dispatcher and reconciler, 2 consumers, 1 retry, 1 fault | nothing lost, created and told once, final outcome, evidence kept, outages end; of sessions of up to 6 events: plans follow their session, do not depend on arrival, use the strongest locator |
| `artifacts` | 2 runs of 2 files, 2 contents, 2 deletion passes, 2 faults | success means stored, rows have files, files go with the project, deletions end |
| `artifacts_shared` | the same with 1 deletion pass and no fault | violates `RowsHaveFiles` (finding) |
| `workspace` | 3 users, with and without accounts, 2 invitations, 3 keys, 2 requests at a time, 3 in all | one owner, useful invitations, a working key, managers invite |
| `dashboard` | 2 queries, 2 update types, 2 issues, queue of 1, 2 changes, 1 fault | changes are on their way, the latest one is shown |
| `paging` | up to 3 rows, pages of 1, 2 milliseconds of 2 microseconds | violates `NoDuplicatesNoSkips` (finding) with two rows of one millisecond |
| `plan_documented` | a session of 8 events with 2 failures, windows of 5 | violates `NavigatesAsDocumented` (two findings) |

Why these bounds are enough for the cases of interest:

- *outbox*: with two events both loops can want the same row, one row can hold up the
  other, and rows can become visible out of `created_at` order. A job whose handler runs
  on can expire, is delivered again and is handled by the same consumer twice; one
  retry allows both a retry and the terminal state. One fault suffices for each
  crash window, since a crash only drops local state. Batches of several rows that
  succeed in part and several consumers are not reached here: the three safety
  properties are proved for any batch size and any number of consumers.
- *processing*: three events can meet in one issue, in any order, two of the same
  time and two of one session; one can be grouped elsewhere on a retry; one is
  never grouped. Two triage actions resolve and reassign, or resolve twice.
  Symmetry is used for consumers and members, over invariants, an action property
  and a refinement whose formulas treat them alike; there is no liveness in it.
- *sdk_queue*: five events fill the queue while a batch of two is in flight and
  leave one more to be evicted or dropped; two attempts make both retry levels
  count.
- *requests*: one identity suffices for every race, since rows do not share anything
  but their event; two calls race for it, two passes publish it, two consumers hold
  it. A batch of several rows is not reached here; the proofs cover it.
- *requests, plans*: every session of up to three of eleven kinds of event, of four of the eight
  that can become an action, and of six of three kinds, any event of it the failure, against
  a window of five and three actions at most: both limits are passed, and fills are taken back after clicks,
  after fills and after navigations. Three events with numbers and times out of 1
  and 2 tie in every way. One click on an element with up to two candidates of every
  kind. A property is that a set of counterexamples is empty, once a reproduction is
  ready; TLC computes these sets once.
- *artifacts*: two paths with one content and one path with two contents give each
  collision there is: of keys, of rows and of both.
- *workspace*: the third user is the one who is neither actor nor target; the third
  request starts after one of two overlapping ones has ended.
- *dashboard*: the activity of one issue, which either update type names if it is about
  that issue, and the notifications, which one of them names whatever the issue: so an
  update may name both queries, one of them or none, and one type loses its id on the
  stream. Two changes overflow a queue of one; the second one can come while a query is
  on its first fetch, is being refetched, or is about to be. One fault breaks a
  connection or a fetch. The proof of `ChangesAreOnTheirWay` is for any queries, types,
  changes and queue.
- *plan_documented*: one session is enough to refute; its two failures show one
  disagreement each, and the run refutes the two together.

`MaxTime`, `MaxFaults`, `MaxTriage`, `MaxEvents`, `MaxCalls` and `MaxChanges` are bounds of the instances; the
proofs hold for any value of them. Deadlock is checked in `processing`, where a
consumer can always be given an event again; elsewhere the system really stops
when all events, requests or files are settled, or the bound is used up.

## 4. Fairness

- `EventOutbox!Fairness`: the loops re-arm their timers in `finally` blocks whatever
  a pass did, so claims and the work on a claimed batch are weakly fair.
  `PublishOk` is strongly fair: a publish that is attempted again and again
  succeeds at some point; without it the database could refuse for ever. pg-boss
  polls, expires and records, hence weak fairness of fetch, handler and expiry.
  Nothing is assumed of ingest, of crashes, of handlers succeeding or of time:
  `EveryEventEnds` allows for a handler that always throws.
- `SdkQueue!FairSpec`: timers fire, every fetch or delay settles in one way or
  another, and `close()` goes on when it can. That a fetch settles is the browser's
  guarantee; the code sets no time-out of its own. The application owes nothing.
- `Artifacts!Fairness`: the deletion loop re-arms its timer whatever a pass did, and a
  pass goes on. Each `DeleteFile` is strongly fair: a storage that is tried again and
  again is not unavailable for ever. Nobody has to upload or to delete a project.
- `Realtime!Fairness`: the callbacks and requests that are due come. Changes and lost
  connections are not assumed; a fetch may fail, which the property allows for.
- `OutboxJobs` and `Workspace` are checked for safety only.
- `EventProcessing` has no liveness of its own; that every delivery ends is part of
  `EventOutbox`.

## 5. The proofs

Assumptions are the named `ConstantsAssumption` of each module, which every run
evaluates: constants have the types the code gives them and, for
`EventProcessing`, ids are distinct from the special values. Event sets may be
infinite unless a lemma needs their finiteness; what is counted at any time is
finite by the invariant.

**`EventOutbox_proofs`** proves `TypeOK`, `NoSilentOrphan` and `DispatchedRowsSettle`.
`NoSilentOrphan` is not inductive: a dispatched row must have a job, and a
completed job a settled event. The invariant adds that a row exists exactly for
ingested events, that a row marked or about to be marked has a job
(`MarkedIsPublished`), that a handler acknowledges and pg-boss completes only what is
settled (`AckIsSettled`), and that passes hold disjoint sets of undispatched rows
(`ClaimsExclusive`), which is what `DispatchedRowsSettle` rests on. `JobOps` states
once what the job operators do.

**`EventProcessing_proofs`** proves `TypeOK`, `ReleasesFollowTimes`, `OccurrenceReopens`
and that `Spec` implements `IssueAccounting`. The invariant says that a consumer in
a transaction works on a pending event (`InTransaction`), that what it read
under a lock is still current (`ReadIsCurrent`), that no two consumers hold one row
(`LocksExclusive`), that only processed events point at issues, that `resolved_at`
is set exactly in a resolved issue, and that the numbers of an issue are those of
the events counted in it (`NumbersAreExact`). The heart is `CountOne`: adding one
event to a finite set changes cardinality, distinct sessions, minimum and maximum
as the SQL expressions do. Every step is then a `Count`, a `Close` or a stutter.

The second part of the module proves `TimelineExplainsIssue` and
`RegressionsAreNotified` on top of that invariant. The timeline of an issue explains its row, and every
regression in it was told to the assignee of the moment; both are kept by appending
an entry, which is what the lemmas `AppendExplains` and `ToldOfAppend` say of the
last entry of a kind. That a last entry exists needs an induction, for which
the well-foundedness of strict inclusion between finite sets stands in.

**`SdkQueue_proofs`** proves the five invariants of the run, of which only
`NothingStranded` is inductive given the timer's type: an action that leaves events in
the queue leaves a flush in flight or sets the timer. `CaptureOrder` needs that batch
and queue are each sorted and the batch is ahead of the queue (`LineOK`);
`BoundedMemory` that a batch in flight is no larger than a batch may be (`SizesOK`);
`SendsBounded` that every failed round of sends has been paid for with an attempt of
its events, and that a flush waits for its next send only while one is left
(`SendsOK`). Re-queueing a batch and evicting are loops. Their bodies are `Turn`s that
keep a property of the line; `CountUp`, an induction over a bounded number of turns
got from the least number at which a set of numbers ends, carries it through.

**`ReproductionPlan_proofs`** proves the three invariants about plans, for sessions of
every length. The planner has no steps of its own, and the argument is about its functions.
`StrongestLocator`: the stable sort and the choice after it find the first of the
strongest candidates. `ArrivalDoesNotMatter`: the plan of any rearrangement of the
rows is the same plan, as positions and event ids give one order only
(`InOrderIs`, `OnlyOrder`); `DeterministicPlan` is the case of two neighbours, the one
TLC runs. `FaithfulPlan`: the plan is what `PlanFollowsSession` says it must be. Its
loop invariant `After` relates the locals of the walk to the rows before it: the
actions are those of an increasing list of the rows kept so far, the keys seen are
those of all rows so far, the start URL is that of the first navigation, and the walk
remembers a click as its last action exactly if the last row kept is one. There is
one lemma for each kind of row (`Navigates`, `Clicks`, `Inputs`, `SeenRow`,
`QuietRow`), and `Walks` proves that the recursive function is defined for the length
of the window. Assumed: the limits are numbers (`LimitsAssumption`), and sessions and
their lists of candidates have the shape `IsSession` says, that of stored rows
(`SessionsAssumption`).

**`OutboxJobs_proofs`** proves all seven properties of the run. The invariant has
three parts about the tables: rows, outbox and jobs agree (`RowsAgree`: a dispatched
row has a job, a completed job an ended request), uncommitted inserts of an identity
exclude each other and the row (`InsertsExclude`), and evidence is there for whoever
needs it (`Evidence`), which rests on retention's second look and on the share lock
of an uncommitted insert. Three more say what a pass, a consumer and a last attempt
may be at: a pass only marks what has a job (`PassesOK`), a consumer acknowledges
only what has ended (`SlotsOK`), and an analysis whose job has failed without a fault
has ended or is still held by the handler of its last attempt (`LastAttempts`). Each
actor has a lemma that its local steps keep the invariant, and each action that
writes a table one of its own.

**`Workspace_proofs`** proves all five. `ExactlyOneOwner` is not inductive: a call that
decides must have read roles that are still current, which holds because nobody can
change a role while it has the workspace's lock, and that an acceptance changes a
user without a role, which holds because of the user's lock. `PendingInvitesAreUseful`
needs that a creation which found the account of its addressee still sees it without a
membership (`Knows`); one that found none has locked nothing, and its invitation is
either `overlooked` or for somebody without an account, who has no role. `SomeKeyWorks`
needs nothing of the locks: a rotation activates the key it inserts, and the keys it
revokes were listed before. A deletion makes the workspace's rows vanish at once, and no
call that is past its look at the workspace's lock can follow it.

**`Artifacts_proofs`** proves the four invariants of the run. Rows are only added
while the project lives, so what a run has seen stored stays stored until the
deletion (`PlanOK`, `UpOK`). A file belongs to a row, to an upload under way, to the
deletion outbox, or was left by an upload that ended without its answer
(`FilesOwned`); a row keeps its file unless a compensation took it (`FilesKept`). The
deletion has read every key of the project when it commits, because an insert waits
for the release's lock (`DeletionsOK`), and what a worker removes is due and of a
project that is gone (`WorkersOK`). `RunStep` is the shared argument of all steps that
only move an upload along.

**`Realtime_proofs`** proves `TypeOK` and `ChangesAreOnTheirWay`, for any queries on
screen and any of the ten update types. An unbroken stream means that the broker listens
and the handler is subscribed (`ConnectedOK`), so a notification is never appended to a
channel nobody drains; the invariant then follows an announcement from the channel over
the queue and the wire to the request, and also says of a failed query that nothing is
left in flight (`Announced`). What an update names is decided by what the stream leaves
of it, and taking the id off twice is taking it off once, so an update names the same
queries before and after it is written.

Every invariant and action property of the passing runs is thus a theorem, and the
refinement of `IssueAccounting` too. Only model-checked: liveness
(`EveryEventEnds`, `EveryEventLeaves`, `EveryDeletionEnds`, `LatestChangeIsShown`), which
is out of the prover's reach. The properties of the runs that expect a violation are
false and have no theorem.

## 6. Not modelled

- *Strings and pure code*: normalisation and fingerprints, sanitizing, source-map
  arithmetic, the text of tests and prompts, validation, configuration.
  They enter the models as outcomes.
- *Sign-in, sessions, secret tokens, projects, origins, releases, metrics, export and
  the public demo*: writes of a single row and reads, with nothing to interleave.
- *Renaming a workspace*: a write of a single row.
- *Rate limiting*: one atomic upsert per request.
- *User interfaces, CLI output, observability, scripts and generated code.*
- *What joins the parts*: the SDK's delivery and ingest meet at the transport only.
  An event that fails in its transaction is counted as rejected and the SDK does not
  send it again (`ingest.ts:473`); an event that was deleted by retention and is sent
  once more counts again. Membership is fixed in `EventProcessing`, so an assignment to
  somebody who is removed meanwhile (`issues.ts:467`) is not seen.
