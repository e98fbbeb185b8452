----------------------------- MODULE EventOutbox -----------------------------
(***************************************************************************)
(* The way of an accepted event from the ingest transaction to the issue   *)
(* transaction of the worker: event row and outbox row committed together, *)
(* dispatcher and reconciliation passes that claim outbox rows under row   *)
(* locks, publish each to pg-boss and mark it, and the pg-boss consumers   *)
(* that run processEvent.                                                  *)
(*                                                                         *)
(* A pass is one database transaction.  What it writes to the outbox is    *)
(* buffered in pass[p] and reaches the table at PassCommit; PassAbort (a   *)
(* crash or a lost connection) throws it away.  What it publishes is       *)
(* durable at once: pg-boss writes through a connection pool of its own.   *)
(*                                                                         *)
(* Events are identified by the row id; createdAt is the outbox row's      *)
(* created_at made unique by the event_id tie-break of the claim query.    *)
(***************************************************************************)
EXTENDS Naturals, FiniteSets

CONSTANTS
  Event,        \* ids of event rows that may be ingested
  Malformed,    \* those whose stored payload processEvent rejects for good
  Pass,         \* the dispatcher and reconciliation loops of all workers
  Reconciler,   \* those of Pass that are reconciliation loops
  Slot,         \* the pg-boss consumers of all workers
  BatchSize,    \* REPLAYBUG_OUTBOX_BATCH_SIZE
  RetryLimit,   \* REPLAYBUG_JOB_RETRY_LIMIT
  MaxTime,      \* bound: created_at values are 1..MaxTime
  MaxFaults     \* bound: crashes and lost connections in one behaviour

ASSUME ConstantsAssumption ==
  /\ Malformed \subseteq Event
  /\ Reconciler \subseteq Pass
  /\ BatchSize \in Nat \ {0}
  /\ RetryLimit \in Nat
  /\ MaxTime \in Nat
  /\ MaxFaults \in Nat

VARIABLES
  events,     \* processing_state of each event row, "absent" before ingest
  outbox,     \* committed columns of each row of event_processing_outbox
  job,        \* the pg-boss job whose id is the event id
  pass,       \* what each dispatcher or reconciliation loop is doing
  slot,       \* what each consumer is doing
  staleTime,  \* Date.now() - staleAfterMs as the reconciler computes it
  faults      \* crashes and lost connections so far

vars == <<events, outbox, job, pass, slot, staleTime, faults>>

JQ == INSTANCE JobQueue

-----------------------------------------------------------------------------
\* Rows and local states

Time == 1..MaxTime

EventState == {"absent", "pending", "processed", "rejected"}
Terminal   == {"processed", "rejected"}

\* createdAt is 0 where there is no row.
Row == [createdAt : 0..MaxTime, dispatched : BOOLEAN, error : BOOLEAN]
NoRow == [createdAt |-> 0, dispatched |-> FALSE, error |-> FALSE]

\* todo: claimed, not yet handled.  done, failed: handled, written but not
\* committed.  before: the reconciler's staleBefore.
PassState ==
  [pc : {"idle", "listed", "publish"}, before : 0..MaxTime,
   todo : SUBSET Event, done : SUBSET Event, failed : SUBSET Event]

IdlePass == [pc |-> "idle", before |-> 0, todo |-> {}, done |-> {}, failed |-> {}]

Publishing(todo, done, failed) ==
  [pc |-> "publish", before |-> 0, todo |-> todo, done |-> done, failed |-> failed]

\* on: the event being handled, if any.
SlotState == [pc : {"idle", "run", "ack", "nack"},
              on : {{}} \cup {{e} : e \in Event}]
IdleSlot  == [pc |-> "idle", on |-> {}]

HasRow(e)  == outbox[e].createdAt # 0
Pending(e) == HasRow(e) /\ ~outbox[e].dispatched

\* The row locks of the pass's transaction, held until it ends.
Locked(p) == pass[p].todo \cup pass[p].done \cup pass[p].failed

\* Mutant of Unlocked: the claim reads without FOR UPDATE SKIP LOCKED.
UnlockedIgnoringLocks == Event

Unlocked == Event \ UNION {Locked(p) : p \in Pass}

\* ORDER BY created_at, event_id LIMIT n
Oldest(S, n) ==
  {e \in S :
     Cardinality({d \in S : outbox[d].createdAt < outbox[e].createdAt}) < n}

\* The row the publishing loop is at: the oldest that is left.
Current(p) == Oldest(pass[p].todo, 1)

-----------------------------------------------------------------------------
Init ==
  /\ events = [e \in Event |-> "absent"]
  /\ outbox = [e \in Event |-> NoRow]
  /\ job = [e \in Event |-> JQ!NoJob]
  /\ pass = [p \in Pass |-> IdlePass]
  /\ slot = [w \in Slot |-> IdleSlot]
  /\ staleTime = 0
  /\ faults = 0

\* Ingest of one event: the event row and its outbox row in one transaction.
\* created_at is the time the transaction began, so rows can appear out of
\* created_at order.  A redelivered event finds its row and changes nothing.
Ingest(e) ==
  /\ events[e] = "absent"
  /\ \E t \in Time :
       /\ \A d \in Event : outbox[d].createdAt # t
       /\ outbox' = [outbox EXCEPT
            ![e] = [createdAt |-> t, dispatched |-> FALSE, error |-> FALSE]]
  /\ events' = [events EXCEPT ![e] = "pending"]
  /\ UNCHANGED <<job, pass, slot, staleTime, faults>>

\* Time passes: one more created_at falls behind the stale threshold.
Age ==
  /\ staleTime < MaxTime
  /\ staleTime' = staleTime + 1
  /\ UNCHANGED <<events, outbox, job, pass, slot, faults>>

-----------------------------------------------------------------------------
\* A dispatch pass, and a reconciliation pass

Claim(p, claimed) ==
  /\ claimed # {}
  /\ pass' = [pass EXCEPT ![p] = Publishing(claimed, {}, {})]
  /\ UNCHANGED <<events, outbox, job, slot, staleTime, faults>>

ClaimPendingOutboxBatch(p) ==
  /\ p \notin Reconciler
  /\ pass[p].pc = "idle"
  /\ Claim(p, Oldest({e \in Unlocked : Pending(e)}, BatchSize))

\* The reconciler first counts stale rows without a lock ...
ListStaleOutbox(p) ==
  /\ p \in Reconciler
  /\ pass[p].pc = "idle"
  /\ \E e \in Event : Pending(e) /\ outbox[e].createdAt <= staleTime
  /\ pass' = [pass EXCEPT ![p] =
       [pc |-> "listed", before |-> staleTime, todo |-> {}, done |-> {}, failed |-> {}]]
  /\ UNCHANGED <<events, outbox, job, slot, staleTime, faults>>

StaleRows(p) ==
  {e \in Unlocked : Pending(e) /\ outbox[e].createdAt <= pass[p].before}

\* ... and then claims those that are still pending and not locked.
ClaimStaleOutboxBatch(p) ==
  /\ pass[p].pc = "listed"
  /\ \/ Claim(p, Oldest(StaleRows(p), BatchSize))
     \/ /\ StaleRows(p) = {}
        /\ pass' = [pass EXCEPT ![p] = IdlePass]
        /\ UNCHANGED <<events, outbox, job, slot, staleTime, faults>>

\* Mutant of PublishOk: null, the deduplicated send, is taken for a failure.
PublishOkUnlessDeduplicated(p) ==
  /\ pass[p].pc = "publish"
  /\ \E e \in Current(p) :
       /\ job' = [job EXCEPT ![e] = JQ!Send(@)]
       /\ pass' = [pass EXCEPT ![p] =
            IF JQ!Exists(job[e])
              THEN Publishing(@.todo \ {e}, @.done, @.failed \cup {e})
              ELSE Publishing(@.todo \ {e}, @.done \cup {e}, @.failed)]
  /\ UNCHANGED <<events, outbox, slot, staleTime, faults>>

\* send() returned a job id, or null because the job exists: both are a
\* durable handoff, and the row is marked in the pass's transaction.
PublishOk(p) ==
  /\ pass[p].pc = "publish"
  /\ \E e \in Current(p) :
       /\ job' = [job EXCEPT ![e] = JQ!Send(@)]
       /\ pass' = [pass EXCEPT
            ![p] = Publishing(@.todo \ {e}, @.done \cup {e}, @.failed)]
  /\ UNCHANGED <<events, outbox, slot, staleTime, faults>>

\* Mutant of PublishFailed: the row is marked although the send threw.
PublishFailedButMarked(p) ==
  /\ pass[p].pc = "publish"
  /\ \E e \in Current(p) :
       pass' = [pass EXCEPT
         ![p] = Publishing(@.todo \ {e}, @.done \cup {e}, @.failed)]
  /\ UNCHANGED <<events, outbox, job, slot, staleTime, faults>>

\* send() threw.  The insert may have been durable all the same: only the
\* answer is known to be missing.
PublishFailed(p) ==
  /\ pass[p].pc = "publish"
  /\ \E e \in Current(p) :
       /\ \/ UNCHANGED job
          \/ job' = [job EXCEPT ![e] = JQ!Send(@)]
       /\ pass' = [pass EXCEPT
            ![p] = Publishing(@.todo \ {e}, @.done, @.failed \cup {e})]
  /\ UNCHANGED <<events, outbox, slot, staleTime, faults>>

PassCommit(p) ==
  /\ pass[p].pc = "publish"
  /\ pass[p].todo = {}
  /\ outbox' = [e \in Event |->
       IF e \in pass[p].done
         THEN [outbox[e] EXCEPT !.dispatched = TRUE, !.error = FALSE]
       ELSE IF e \in pass[p].failed
         THEN [outbox[e] EXCEPT !.error = TRUE]
       ELSE outbox[e]]
  /\ pass' = [pass EXCEPT ![p] = IdlePass]
  /\ UNCHANGED <<events, job, slot, staleTime, faults>>

\* The transaction is rolled back: process crash, lost connection, or an
\* UPDATE that failed and left it aborted.
PassAbort(p) ==
  /\ pass[p].pc # "idle"
  /\ faults < MaxFaults
  /\ faults' = faults + 1
  /\ pass' = [pass EXCEPT ![p] = IdlePass]
  /\ UNCHANGED <<events, outbox, job, slot, staleTime>>

-----------------------------------------------------------------------------
\* A consumer of replaybug.process-event

FetchJob(w, e) ==
  /\ slot[w].pc = "idle"
  /\ JQ!Fetchable(job[e])
  /\ job' = [job EXCEPT ![e] = JQ!Fetch(@)]
  /\ slot' = [slot EXCEPT ![w] = [pc |-> "run", on |-> {e}]]
  /\ UNCHANGED <<events, outbox, pass, staleTime, faults>>

\* processEvent committed: the pending event is processed or rejected, any
\* other event is left as it is.
HandlerCommit(w) ==
  /\ slot[w].pc = "run"
  /\ \E e \in slot[w].on :
       events' = [events EXCEPT ![e] =
         IF @ # "pending" THEN @
         ELSE IF e \in Malformed THEN "rejected" ELSE "processed"]
  /\ slot' = [slot EXCEPT ![w].pc = "ack"]
  /\ UNCHANGED <<outbox, job, pass, staleTime, faults>>

\* processEvent threw, its transaction was rolled back.
HandlerThrow(w) ==
  /\ slot[w].pc = "run"
  /\ slot' = [slot EXCEPT ![w].pc = "nack"]
  /\ UNCHANGED <<events, outbox, job, pass, staleTime, faults>>

\* pg-boss records how the handler ended.
Report(w) ==
  /\ \E e \in slot[w].on :
       \/ slot[w].pc = "ack"  /\ job' = [job EXCEPT ![e] = JQ!Complete(@)]
       \/ slot[w].pc = "nack" /\ job' = [job EXCEPT ![e] = JQ!Fail(@)]
  /\ slot' = [slot EXCEPT ![w] = IdleSlot]
  /\ UNCHANGED <<events, outbox, pass, staleTime, faults>>

\* No report within expireInSeconds.  The handler may be running still.
ExpireJob(e) ==
  /\ job[e].state = "active"
  /\ job' = [job EXCEPT ![e] = JQ!Expire(@)]
  /\ UNCHANGED <<events, outbox, pass, slot, staleTime, faults>>

\* The worker process dies with a handler in it; the job stays active.
SlotCrash(w) ==
  /\ slot[w].pc # "idle"
  /\ faults < MaxFaults
  /\ faults' = faults + 1
  /\ slot' = [slot EXCEPT ![w] = IdleSlot]
  /\ UNCHANGED <<events, outbox, job, pass, staleTime>>

-----------------------------------------------------------------------------
Next ==
  \/ Age
  \/ \E e \in Event : Ingest(e) \/ ExpireJob(e)
  \/ \E p \in Pass : \/ ClaimPendingOutboxBatch(p) \/ ListStaleOutbox(p)
                     \/ ClaimStaleOutboxBatch(p)   \/ PublishOk(p)
                     \/ PublishFailed(p) \/ PassCommit(p) \/ PassAbort(p)
  \/ \E w \in Slot : \/ \E e \in Event : FetchJob(w, e)
                     \/ HandlerCommit(w) \/ HandlerThrow(w)
                     \/ Report(w)        \/ SlotCrash(w)

Spec == Init /\ [][Next]_vars

\* Timers re-arm after every pass and a claimed batch is worked off (WF); a
\* publish that is tried again and again succeeds at some point (SF); pg-boss
\* keeps delivering, expiring and recording jobs (WF).  Ingest, the clock,
\* failures and crashes owe nobody anything.
Fairness ==
  /\ \A p \in Pass :
       /\ WF_vars(ClaimPendingOutboxBatch(p))
       /\ WF_vars(ListStaleOutbox(p) \/ ClaimStaleOutboxBatch(p))
       /\ WF_vars(PublishOk(p) \/ PublishFailed(p) \/ PassCommit(p))
       /\ SF_vars(PublishOk(p))
  /\ \A w \in Slot :
       /\ WF_vars(\E e \in Event : FetchJob(w, e))
       /\ WF_vars(HandlerCommit(w) \/ HandlerThrow(w) \/ Report(w))
  /\ \A e \in Event : WF_vars(ExpireJob(e))

FairSpec == Spec /\ Fairness

-----------------------------------------------------------------------------
\* Every variable has the shape of the rows and local states above.
TypeOK ==
  /\ events \in [Event -> EventState]
  /\ outbox \in [Event -> Row]
  /\ job \in [Event -> JQ!Job] /\ \A e \in Event : JQ!RetryLeft(job[e])
  /\ pass \in [Pass -> PassState]
  /\ slot \in [Slot -> SlotState]
  /\ staleTime \in 0..MaxTime
  /\ faults \in 0..MaxFaults

\* An accepted event that is not settled is still an undispatched outbox row,
\* or has a job that will run, runs, or is kept as failed: no crash window of
\* the dispatcher and no early acknowledgement of the handler loses it
\* (ADR 0001, "silently orphaned").
NoSilentOrphan ==
  \A e \in Event : events[e] = "pending" =>
    \/ Pending(e)
    \/ job[e].state \in {"created", "retry", "active", "failed"}

\* Once dispatched_at is set, the row is never written again: no pass that
\* claimed it earlier can still record a failure on it or re-mark it.
DispatchedRowsSettle ==
  [][\A e \in Event : outbox[e].dispatched => outbox'[e] = outbox[e]]_vars

\* Whatever crashes, failed publishes and competing passes come between, every
\* accepted event is marked dispatched and comes to an end: it is processed or
\* rejected, or its job has failed for good.
EveryEventEnds ==
  \A e \in Event : events[e] = "pending" ~>
    /\ outbox[e].dispatched
    /\ events[e] \in Terminal \/ job[e].state = "failed"

\* What ADR 0001 and the comment on the outbox table promise: an accepted
\* event is eventually processed.
EveryEventIsProcessed ==
  \A e \in Event : events[e] = "pending" ~> events[e] \in Terminal
=============================================================================
