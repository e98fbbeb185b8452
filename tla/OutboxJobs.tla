----------------------------- MODULE OutboxJobs -----------------------------
(***************************************************************************)
(* Requests for a reproduction test or an AI analysis, from the API call   *)
(* that accepts one to the consumer that ends it, with the retention pass  *)
(* that may delete the event they are about.                               *)
(*                                                                         *)
(* The two kinds of request have tables, loops, queues and processors of   *)
(* their own with the same shape; where they differ, kind[k] decides.      *)
(* Unlike the event outbox, a pass commits its claim before it publishes:  *)
(* no lock is held while it works, and each row is marked in a transaction *)
(* of its own.                                                             *)
(*                                                                         *)
(* A request is identified by what its unique index covers: user, event,   *)
(* generator or model version, and idempotency key hash.                   *)
(***************************************************************************)
EXTENDS Naturals, FiniteSets

CONSTANTS
  Key,        \* identities of requests
  Event,      \* ids of grouped events
  Call,       \* API calls, one request each
  Pass,       \* dispatcher and reconciliation loops of all workers
  Reconciler, \* those of Pass that are reconciliation loops
  Slot,       \* consumers of the two queues
  EventOf,    \* the event a request is about
  KeyOf,      \* the request a call makes
  BatchSize,  \* REPLAYBUG_*_OUTBOX_BATCH_SIZE
  RetryLimit, \* REPLAYBUG_JOB_RETRY_LIMIT
  MaxFaults   \* bound: crashes and failing transactions in one behaviour

ASSUME ConstantsAssumption ==
  /\ EventOf \in [Key -> Event]
  /\ KeyOf \in [Call -> Key]
  /\ Reconciler \subseteq Pass
  /\ BatchSize \in Nat \ {0}
  /\ RetryLimit \in Nat
  /\ MaxFaults \in Nat

VARIABLES
  kind,    \* which of the two tables a request belongs to
  live,    \* the event row exists; while it does not, event_id is null
  expiry,  \* a retention pass at work on the event
  row,     \* committed status of the request
  outbox,  \* the request's outbox row
  job,     \* the pg-boss job whose id is the request's
  call,    \* what each API call is doing, and what it answered
  pass,    \* what each loop is doing
  slot,    \* what each consumer is doing
  told,    \* activity rows and notifications about the request
  faults   \* crashes and failing transactions so far

vars == <<kind, live, expiry, row, outbox, job, call, pass, slot, told, faults>>

JQ == INSTANCE JobQueue

-----------------------------------------------------------------------------
\* Rows and local states

Kind     == {"reproduction", "analysis"}
Ended    == {"ready", "failed"}
Status   == {"none", "pending"} \cup Ended

\* attempt_count and last_error are diagnostics that no code reads back.
OutboxState == {"none", "pending", "dispatched"}

CallState == {"idle", "insert", "reread", "commit",
              "created", "existing", "error"}

PassState == [pc : {"idle", "listed", "publish", "mark", "record"},
              of : Kind, todo : SUBSET Key, at : SUBSET Key]
IdlePass  == [pc |-> "idle", of |-> "analysis", todo |-> {}, at |-> {}]

\* plan: the terminal status the processor has decided on.
SlotState == [pc : {"idle", "build", "settle", "ack", "nack"},
              on : {{}} \cup {{k} : k \in Key}, final : BOOLEAN,
              plan : {"none"} \cup Ended]
IdleSlot  == [pc |-> "idle", on |-> {}, final |-> FALSE, plan |-> "none"]

Told == [requested : 0..1, ended : 0..1, notified : 0..1]

IsPending(k)  == row[k] = "pending"
Waiting(q)    == {k \in Key : kind[k] = q /\ outbox[k] = "pending"}
Inserting(k)  == {c \in Call : KeyOf[c] = k /\ call[c] = "commit"}

\* The share locks that foreign-key checks of uncommitted inserts hold.
SharedBy(e)   == UNION {Inserting(k) : k \in {d \in Key : EventOf[d] = e}}

Fault == faults < MaxFaults /\ faults' = faults + 1

-----------------------------------------------------------------------------
Init ==
  /\ kind \in [Key -> Kind]
  /\ live = [e \in Event |-> TRUE]
  /\ expiry = [e \in Event |-> "idle"]
  /\ row = [k \in Key |-> "none"]
  /\ outbox = [k \in Key |-> "none"]
  /\ job = [k \in Key |-> JQ!NoJob]
  /\ call = [c \in Call |-> "idle"]
  /\ pass = [p \in Pass |-> IdlePass]
  /\ slot = [w \in Slot |-> IdleSlot]
  /\ told = [k \in Key |-> [requested |-> 0, ended |-> 0, notified |-> 0]]
  /\ faults = 0

-----------------------------------------------------------------------------
\* The API call: requestReproduction and requestAiAnalysis

Step(c, state) == call' = [call EXCEPT ![c] = state]

Turned(c, states) ==
  /\ call[c] = "idle"
  /\ \E state \in states : Step(c, state)
  /\ UNCHANGED <<kind, live, expiry, row, outbox, job, pass, slot, told, faults>>

\* What a reproduction is made from: the event, its session up to the failure,
\* and an absolute URL to start at.  Read without a lock; any part may be
\* missing.
BuildGenerationInput(e) == IF live[e] THEN {"insert", "error"} ELSE {"error"}

\* Membership and capability are read before the evidence.
ReadForReproduction(c) ==
  /\ kind[KeyOf[c]] = "reproduction"
  /\ Turned(c, {"error"} \cup BuildGenerationInput(EventOf[KeyOf[c]]))

\* The configuration of the model first, then event, membership and issue.
ReadForAnalysis(c) ==
  /\ kind[KeyOf[c]] = "analysis"
  /\ Turned(c, IF live[EventOf[KeyOf[c]]] THEN {"insert", "error"} ELSE {"error"})

\* Mutant of CallInsert: no unique index to wait on.
CallInsertUnserialized(c) ==
  LET k == KeyOf[c] IN
  /\ call[c] = "insert"
  /\ expiry[EventOf[k]] # "locked"
  /\ Step(c, IF ~live[EventOf[k]] THEN "error"
             ELSE IF row[k] = "none" THEN "commit" ELSE "reread")
  /\ UNCHANGED <<kind, live, expiry, row, outbox, job, pass, slot, told, faults>>

\* INSERT ... ON CONFLICT DO NOTHING.  It waits for an uncommitted row with
\* the same identity and for a retention pass that has locked the event.
\* Once the event is gone the identity cannot conflict and the foreign key
\* fails.
CallInsert(c) ==
  LET k == KeyOf[c] IN
  /\ call[c] = "insert"
  /\ Inserting(k) = {}
  /\ expiry[EventOf[k]] # "locked"
  /\ Step(c, IF ~live[EventOf[k]] THEN "error"
             ELSE IF row[k] = "none" THEN "commit" ELSE "reread")
  /\ UNCHANGED <<kind, live, expiry, row, outbox, job, pass, slot, told, faults>>

\* Request row, outbox row and, for an analysis, the activity row.
CallCommit(c) ==
  LET k == KeyOf[c] IN
  /\ call[c] = "commit"
  /\ Step(c, "created")
  /\ row' = [row EXCEPT ![k] = "pending"]
  /\ outbox' = [outbox EXCEPT ![k] = "pending"]
  /\ told' = [told EXCEPT ![k] =
       [requested |-> IF kind[k] = "analysis" THEN @.requested + 1 ELSE @.requested,
        ended |-> @.ended, notified |-> @.notified]]
  /\ UNCHANGED <<kind, live, expiry, job, pass, slot, faults>>

CallAbort(c) ==
  /\ call[c] = "commit"
  /\ Fault
  /\ Step(c, "error")
  /\ UNCHANGED <<kind, live, expiry, row, outbox, job, pass, slot, told>>

\* The conflicting row is read back by user, event, version and key; a null
\* event_id no longer matches.
CallReread(c) ==
  /\ call[c] = "reread"
  /\ Step(c, IF live[EventOf[KeyOf[c]]] THEN "existing" ELSE "error")
  /\ UNCHANGED <<kind, live, expiry, row, outbox, job, pass, slot, told, faults>>

-----------------------------------------------------------------------------
\* Retention: deleteEligibleEvents on one event that is old enough, processed
\* and dispatched

Eligible(e) ==
  \A k \in Key : kind[k] = "reproduction" /\ EventOf[k] = e => ~IsPending(k)

\* The candidates are those of the statement's snapshot ...
ExpirySelect(e) ==
  /\ expiry[e] = "idle"
  /\ live[e]
  /\ Eligible(e)
  /\ expiry' = [expiry EXCEPT ![e] = "seen"]
  /\ UNCHANGED <<kind, live, row, outbox, job, call, pass, slot, told, faults>>

\* ... which may be older than the moment the row is locked.  SKIP LOCKED: an
\* event an uncommitted insert refers to is left alone.
ExpiryLock(e) ==
  /\ expiry[e] = "seen"
  /\ expiry' = [expiry EXCEPT ![e] = IF SharedBy(e) = {} THEN "locked" ELSE "idle"]
  /\ UNCHANGED <<kind, live, row, outbox, job, call, pass, slot, told, faults>>

\* Mutant of ExpiryDelete: no second look under the lock.
ExpiryDeleteUnchecked(e) ==
  /\ expiry[e] = "locked"
  /\ live' = [live EXCEPT ![e] = FALSE]
  /\ expiry' = [expiry EXCEPT ![e] = "idle"]
  /\ UNCHANGED <<kind, row, outbox, job, call, pass, slot, told, faults>>

\* The predicates again under the lock, then the delete; event_id of every
\* request about the event becomes null.
ExpiryDelete(e) ==
  /\ expiry[e] = "locked"
  /\ live' = [live EXCEPT ![e] = ~Eligible(e)]
  /\ expiry' = [expiry EXCEPT ![e] = "idle"]
  /\ UNCHANGED <<kind, row, outbox, job, call, pass, slot, told, faults>>

-----------------------------------------------------------------------------
\* A dispatch pass, and a reconciliation pass

Batch(S) ==
  IF Cardinality(S) <= BatchSize THEN {S}
  ELSE {B \in SUBSET S : Cardinality(B) = BatchSize}

At(p, pc, todo, at) ==
  pass' = [pass EXCEPT ![p] = [pc |-> pc, of |-> @.of, todo |-> todo, at |-> at]]

\* The row is done with: the next one, or the end of the pass.
Advance(p) ==
  IF pass[p].todo = {} THEN pass' = [pass EXCEPT ![p] = IdlePass]
  ELSE At(p, "publish", pass[p].todo, {})

\* The claim's transaction commits at once: nothing is locked afterwards.
ClaimPending(p) ==
  /\ p \notin Reconciler
  /\ pass[p].pc = "idle"
  /\ \E q \in Kind : \E B \in Batch(Waiting(q)) :
       /\ B # {}
       /\ pass' = [pass EXCEPT ![p] =
            [pc |-> "publish", of |-> q, todo |-> B, at |-> {}]]
  /\ UNCHANGED <<kind, live, expiry, row, outbox, job, call, slot, told, faults>>

\* Which waiting rows are older than the threshold is a matter of time.
ListStale(p) ==
  /\ p \in Reconciler
  /\ pass[p].pc = "idle"
  /\ \E q \in Kind :
       /\ Waiting(q) # {}
       /\ pass' = [pass EXCEPT ![p] =
            [pc |-> "listed", of |-> q, todo |-> {}, at |-> {}]]
  /\ UNCHANGED <<kind, live, expiry, row, outbox, job, call, slot, told, faults>>

ClaimStale(p) ==
  /\ pass[p].pc = "listed"
  /\ \/ /\ Waiting(pass[p].of) = {}
        /\ pass' = [pass EXCEPT ![p] = IdlePass]
     \/ \E B \in Batch(Waiting(pass[p].of)) :
          B # {} /\ At(p, "publish", B, {})
  /\ UNCHANGED <<kind, live, expiry, row, outbox, job, call, slot, told, faults>>

\* send() returned a job id, or null because the job exists.
PublishOk(p) ==
  /\ pass[p].pc = "publish"
  /\ \E k \in pass[p].todo :
       /\ job' = [job EXCEPT ![k] = JQ!Send(@)]
       /\ At(p, "mark", pass[p].todo \ {k}, {k})
  /\ UNCHANGED <<kind, live, expiry, row, outbox, call, slot, told, faults>>

\* Mutant of PublishFailed: the exception is swallowed.
PublishFailedButMarked(p) ==
  /\ pass[p].pc = "publish"
  /\ \E k \in pass[p].todo :
       /\ UNCHANGED job \/ job' = [job EXCEPT ![k] = JQ!Send(@)]
       /\ At(p, "mark", pass[p].todo \ {k}, {k})
  /\ UNCHANGED <<kind, live, expiry, row, outbox, call, slot, told, faults>>

\* send() threw, though the job may be stored all the same.
PublishFailed(p) ==
  /\ pass[p].pc = "publish"
  /\ \E k \in pass[p].todo :
       /\ UNCHANGED job \/ job' = [job EXCEPT ![k] = JQ!Send(@)]
       /\ At(p, "record", pass[p].todo \ {k}, {k})
  /\ UNCHANGED <<kind, live, expiry, row, outbox, call, slot, told, faults>>

\* The row is marked by id, whatever another pass has made of it meanwhile.
Mark(p) ==
  /\ pass[p].pc = "mark"
  /\ outbox' = [k \in Key |->
       IF k \in pass[p].at THEN "dispatched" ELSE outbox[k]]
  /\ Advance(p)
  /\ UNCHANGED <<kind, live, expiry, row, job, call, slot, told, faults>>

\* Marking is inside the try block too: the published row is recorded as failed.
MarkFailed(p) ==
  /\ pass[p].pc = "mark"
  /\ Fault
  /\ At(p, "record", pass[p].todo, pass[p].at)
  /\ UNCHANGED <<kind, live, expiry, row, outbox, job, call, slot, told>>

\* The row stays pending for a later pass, unless it was dispatched already.
RecordFailure(p) ==
  /\ pass[p].pc = "record"
  /\ Advance(p)
  /\ UNCHANGED <<kind, live, expiry, row, outbox, job, call, slot, told, faults>>

\* An AI row refuses an error text that is empty after trimming: the
\* exception leaves the catch block and the rest of the batch is given up.
RecordRefused(p) ==
  /\ pass[p].pc = "record"
  /\ pass[p].of = "analysis"
  /\ pass' = [pass EXCEPT ![p] = IdlePass]
  /\ UNCHANGED <<kind, live, expiry, row, outbox, job, call, slot, told, faults>>

\* The worker dies, or recording the failure fails as well.
PassAbort(p) ==
  /\ pass[p].pc # "idle"
  /\ Fault
  /\ pass' = [pass EXCEPT ![p] = IdlePass]
  /\ UNCHANGED <<kind, live, expiry, row, outbox, job, call, slot, told>>

-----------------------------------------------------------------------------
\* A consumer: processGenerateReproduction and processAiAnalysis

Slotted(w, pc, plan) ==
  slot' = [slot EXCEPT ![w] =
    [pc |-> pc, on |-> @.on, final |-> @.final, plan |-> plan]]

\* A delivery begins with a read of the row without a lock: an ended request
\* is acknowledged, one whose event is gone will fail, any other is worked on.
FetchJob(w, k) ==
  /\ slot[w].pc = "idle"
  /\ JQ!Fetchable(job[k])
  /\ job' = [job EXCEPT ![k] = JQ!Fetch(@)]
  /\ \E pc \in {"ack", "settle", "build"} :
       /\ pc = "ack" <=> ~IsPending(k)
       /\ pc = "settle" <=> IsPending(k) /\ ~live[EventOf[k]]
       /\ slot' = [slot EXCEPT ![w] =
            [pc |-> pc, on |-> {k},
             plan |-> IF pc = "settle" THEN "failed" ELSE "none",
             final |-> JQ!Fetch(job[k]).retries >= RetryLimit]]
  /\ UNCHANGED <<kind, live, expiry, row, outbox, call, pass, told, faults>>

\* The evidence is read once more and the test rendered and parsed, outside any
\* transaction.  An event that has gone meanwhile throws.
GenerateTest(w) ==
  /\ slot[w].pc = "build"
  /\ \E k \in slot[w].on :
       /\ kind[k] = "reproduction"
       /\ \/ live[EventOf[k]] /\ \E plan \in Ended : Slotted(w, "settle", plan)
          \/ ~live[EventOf[k]] /\ Slotted(w, "nack", "none")
  /\ UNCHANGED <<kind, live, expiry, row, outbox, job, call, pass, told, faults>>

\* The evidence is read, the model asked and its answer validated.  Missing
\* evidence, a missing configuration and a refused answer are final.
AskModel(w) ==
  /\ slot[w].pc = "build"
  /\ \E k \in slot[w].on :
       /\ kind[k] = "analysis"
       /\ \E plan \in Ended :
            (plan = "ready" => live[EventOf[k]]) /\ Slotted(w, "settle", plan)
  /\ UNCHANGED <<kind, live, expiry, row, outbox, job, call, pass, told, faults>>

\* Mutant of ProviderOutage: the last attempt is not told apart.
ProviderOutageThrown(w) ==
  /\ slot[w].pc = "build"
  /\ \E k \in slot[w].on : kind[k] = "analysis"
  /\ Slotted(w, "nack", "none")
  /\ UNCHANGED <<kind, live, expiry, row, outbox, job, call, pass, told, faults>>

\* The provider timed out or refused the connection: another attempt, unless
\* this is the last one.
ProviderOutage(w) ==
  /\ slot[w].pc = "build"
  /\ \E k \in slot[w].on : kind[k] = "analysis"
  /\ IF slot[w].final THEN Slotted(w, "settle", "failed") ELSE Slotted(w, "nack", "none")
  /\ UNCHANGED <<kind, live, expiry, row, outbox, job, call, pass, told, faults>>

\* Mutant of Settle: the row is not looked at again.
SettleUnchecked(w, q, plan, notified) ==
  /\ slot[w].pc = "settle" /\ slot[w].plan = plan
  /\ \E k \in slot[w].on :
       /\ kind[k] = q
       /\ row' = [row EXCEPT ![k] = plan]
       /\ told' = [told EXCEPT ![k] =
            [requested |-> @.requested, ended |-> @.ended + 1,
             notified |-> @.notified + notified]]
  /\ Slotted(w, "ack", "none")
  /\ UNCHANGED <<kind, live, expiry, outbox, job, call, pass, faults>>

\* The terminal transaction: lock the row, look again, write status, activity
\* and notification.
Settle(w, q, plan, notified) ==
  /\ slot[w].pc = "settle" /\ slot[w].plan = plan
  /\ \E k \in slot[w].on :
       /\ kind[k] = q
       /\ \/ /\ IsPending(k)
             /\ row' = [row EXCEPT ![k] = plan]
             /\ told' = [told EXCEPT ![k] =
                  [requested |-> @.requested, ended |-> @.ended + 1,
                   notified |-> @.notified + notified]]
          \/ ~IsPending(k) /\ UNCHANGED <<row, told>>
  /\ Slotted(w, "ack", "none")
  /\ UNCHANGED <<kind, live, expiry, outbox, job, call, pass, faults>>

\* A reproduction that succeeded notifies nobody.
MarkReproductionReady(w) == Settle(w, "reproduction", "ready", 0)
FailDeterministic(w)     == Settle(w, "reproduction", "failed", 1)
ApplyTerminalReady(w)    == Settle(w, "analysis", "ready", 1)
ApplyTerminalFailure(w)  == Settle(w, "analysis", "failed", 1)

\* A statement before or in the terminal transaction failed.
HandlerThrow(w) ==
  /\ slot[w].pc \in {"build", "settle", "ack"}
  /\ Fault
  /\ Slotted(w, "nack", "none")
  /\ UNCHANGED <<kind, live, expiry, row, outbox, job, call, pass, told>>

Report(w) ==
  /\ \E k \in slot[w].on :
       \/ slot[w].pc = "ack"  /\ job' = [job EXCEPT ![k] = JQ!Complete(@)]
       \/ slot[w].pc = "nack" /\ job' = [job EXCEPT ![k] = JQ!Fail(@)]
  /\ slot' = [slot EXCEPT ![w] = IdleSlot]
  /\ UNCHANGED <<kind, live, expiry, row, outbox, call, pass, told, faults>>

\* No report within expireInSeconds; the handler may be running still.
ExpireJob(k) ==
  /\ job[k].state = "active"
  /\ job' = [job EXCEPT ![k] = JQ!Expire(@)]
  /\ UNCHANGED <<kind, live, expiry, row, outbox, call, pass, slot, told, faults>>

SlotCrash(w) ==
  /\ slot[w].pc # "idle"
  /\ Fault
  /\ slot' = [slot EXCEPT ![w] = IdleSlot]
  /\ UNCHANGED <<kind, live, expiry, row, outbox, job, call, pass, told>>

-----------------------------------------------------------------------------
Next ==
  \/ \E c \in Call : \/ ReadForReproduction(c) \/ ReadForAnalysis(c) \/ CallInsert(c)
                     \/ CallCommit(c) \/ CallAbort(c) \/ CallReread(c)
  \/ \E e \in Event : ExpirySelect(e) \/ ExpiryLock(e) \/ ExpiryDelete(e)
  \/ \E p \in Pass : \/ ClaimPending(p) \/ ListStale(p) \/ ClaimStale(p)
                     \/ PublishOk(p) \/ PublishFailed(p) \/ Mark(p) \/ MarkFailed(p)
                     \/ RecordFailure(p) \/ RecordRefused(p) \/ PassAbort(p)
  \/ \E w \in Slot : \/ \E k \in Key : FetchJob(w, k)
                     \/ GenerateTest(w) \/ AskModel(w) \/ ProviderOutage(w)
                     \/ MarkReproductionReady(w) \/ FailDeterministic(w)
                     \/ ApplyTerminalReady(w) \/ ApplyTerminalFailure(w)
                     \/ HandlerThrow(w) \/ Report(w) \/ SlotCrash(w)
  \/ \E k \in Key : ExpireJob(k)

Spec == Init /\ [][Next]_vars

-----------------------------------------------------------------------------
\* Every variable has the shape of the rows and local states above; no
\* activity row or notification is ever written twice.
TypeOK ==
  /\ kind \in [Key -> Kind]
  /\ live \in [Event -> BOOLEAN]
  /\ expiry \in [Event -> {"idle", "seen", "locked"}]
  /\ row \in [Key -> Status]
  /\ outbox \in [Key -> OutboxState]
  /\ job \in [Key -> JQ!Job]
  /\ call \in [Call -> CallState]
  /\ pass \in [Pass -> PassState]
  /\ slot \in [Slot -> SlotState]
  /\ told \in [Key -> Told]
  /\ faults \in 0..MaxFaults

\* Accepted requests are not lost between the tables and the queue: a pending
\* one is still to be dispatched, or has a job that will run, runs, or is kept
\* as failed.
NoLostRequest ==
  \A k \in Key : IsPending(k) =>
    \/ outbox[k] = "pending"
    \/ job[k].state \in {"created", "retry", "active", "failed"}

\* However often a job is delivered, the end of a request is told exactly once:
\* one activity row, and one notification unless a reproduction succeeded.
ToldOnce ==
  \A k \in Key :
    /\ told[k].ended = (IF row[k] \in Ended THEN 1 ELSE 0)
    /\ told[k].notified =
         (IF row[k] \in Ended /\ (kind[k] = "analysis" \/ row[k] = "failed") THEN 1 ELSE 0)
    /\ told[k].requested = (IF kind[k] = "analysis" /\ row[k] # "none" THEN 1 ELSE 0)

\* The status the dashboard has shown as ready or failed never changes again.
OutcomeIsFinal ==
  [][\A k \in Key : row[k] \in Ended => row'[k] = row[k]]_vars

\* Retention never takes the evidence from under a reproduction that is still
\* to be generated, nor from one about to be inserted (tenancy.md, "Pending
\* events and pending reproductions are protected").
PendingKeepsEvidence ==
  \A k \in Key :
    \/ kind[k] = "reproduction" /\ IsPending(k)
    \/ Inserting(k) # {}
    => live[EventOf[k]]

\* One identity, one row: of all calls with one idempotency key a single one
\* is told that it created the request.
CreatedOnce ==
  \A c, d \in Call :
    c # d /\ KeyOf[c] = KeyOf[d] /\ call[c] \in {"commit", "created"}
      => call[d] \notin {"commit", "created"}

\* A provider that is down ends an analysis instead of leaving it pending: once
\* its job has failed for good and no handler is left, only a crash or a
\* failing database can have kept the row pending (worker.ts:167).
OutageEndsAnalysis ==
  \A k \in Key :
    /\ kind[k] = "analysis" /\ IsPending(k) /\ job[k].state = "failed"
    /\ \A w \in Slot : k \notin slot[w].on
    => faults > 0
=============================================================================
