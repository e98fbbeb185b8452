------------------------------- MODULE SdkQueue -------------------------------
(***************************************************************************)
(* The browser SDK's EventQueue with the shutdown of the SDK around it:    *)
(* batching, the flush timer, retries inside one flush, re-queueing after  *)
(* a flush that failed, eviction at the size limit, and close().           *)
(*                                                                         *)
(* JavaScript runs one task at a time, so an action is what happens        *)
(* between two awaits.  `processing` of the code is io # "none": a flush   *)
(* is waiting for the transport or for a retry delay.  Time-outs may       *)
(* expire whenever the code looks at them.                                 *)
(***************************************************************************)
EXTENDS Naturals, Sequences, SequencesExt

CONSTANTS
  MaxQueueSize,   \* maxQueueSize
  MaxBatchSize,   \* maxBatchSize
  MaxAttempts,    \* retry.maxAttempts
  MaxEvents       \* bound: events the application captures

ASSUME ConstantsAssumption ==
  /\ MaxQueueSize \in Nat \ {0} /\ MaxBatchSize \in Nat \ {0}
  /\ MaxAttempts \in Nat \ {0} /\ MaxEvents \in Nat

VARIABLES
  queue,      \* events waiting, oldest first
  batch,      \* events of the flush that is in flight
  attempt,    \* the loop counter of its sendWithRetry
  io,         \* what that flush is waiting for
  timer,      \* flushTimer # null
  closed,     \* EventQueue.closed
  captured,   \* events captured so far: the latest id
  shutdown    \* where ReplayBug.close() is

vars == <<queue, batch, attempt, io, timer, closed, captured, shutdown>>

-----------------------------------------------------------------------------
\* critical: one of immediateFlushTypes.  attempts: failed flushes of the
\* event.  sends: how often it was handed to the transport.
Item == [id : 1..MaxEvents, critical : BOOLEAN,
         attempts : 0..(MaxAttempts - 1), sends : Nat]

\* "dead": the transport is gone and throws at once, see performClose.
Io == {"none", "fetch", "backoff", "dead"}

\* "flush" and "drain": awaiting a flush of its own in flush() and in the
\* queue's close().  "flushing", "draining": at the head of those loops.
Shutdown == {"open", "flushing", "flush", "closing", "draining", "drain",
             "closed", "threw"}

Ids(s) == {s[i].id : i \in DOMAIN s}

Init ==
  /\ queue = <<>> /\ batch = <<>>
  /\ attempt = 0 /\ io = "none"
  /\ timer = FALSE /\ closed = FALSE
  /\ captured = 0 /\ shutdown = "open"

\* transport.send, when it is called.
Sent(items) ==
  [i \in DOMAIN items |->
     [id |-> items[i].id, critical |-> items[i].critical,
      attempts |-> items[i].attempts,
      sends |-> items[i].sends + IF shutdown = "closed" THEN 0 ELSE 1]]
Sending == IF shutdown = "closed" THEN "dead" ELSE "fetch"

\* flush() up to its first await, on a queue that holds q; `tick` is the timer
\* after that.  While another flush is in flight, or with nothing to send, it
\* returns null.
Flush(q, tick) ==
  IF io = "none" /\ q # <<>>
    THEN LET n == IF Len(q) < MaxBatchSize THEN Len(q) ELSE MaxBatchSize
         IN  /\ batch' = Sent(SubSeq(q, 1, n))
             /\ queue' = SubSeq(q, n + 1, Len(q))
             /\ io' = Sending
             /\ attempt' = 0
             /\ timer' = tick
    ELSE /\ queue' = q
         /\ timer' = tick
         /\ UNCHANGED <<batch, io, attempt>>

-----------------------------------------------------------------------------
\* enqueue(): at the limit the oldest event that is not critical makes room;
\* when all are critical the new one is dropped.

IsMinor(item) == ~item.critical
Full == Len(queue) >= MaxQueueSize
Roomy == IF Full THEN RemoveFirstMatch(queue, IsMinor) ELSE queue

\* Mutant of Enqueue: the limit is compared off by one.
EnqueueOneTooMany(critical) ==
  LET event == [id |-> captured + 1, critical |-> critical, attempts |-> 0, sends |-> 0]
      room  == IF Len(queue) > MaxQueueSize THEN RemoveFirstMatch(queue, IsMinor) ELSE queue
      q     == Append(room, event)
  IN
  /\ ~closed /\ captured < MaxEvents
  /\ captured' = captured + 1
  /\ IF critical THEN Flush(q, timer)
     ELSE /\ queue' = q /\ timer' = TRUE /\ UNCHANGED <<batch, io, attempt>>
  /\ UNCHANGED <<closed, shutdown>>

Enqueue(critical) ==
  LET event == [id |-> captured + 1, critical |-> critical, attempts |-> 0, sends |-> 0]
      q     == Append(Roomy, event)
  IN
  /\ ~closed /\ captured < MaxEvents
  /\ captured' = captured + 1
  /\ \/ /\ Full /\ Roomy = queue
        /\ UNCHANGED <<queue, timer, batch, io, attempt>>
     \/ /\ ~Full \/ Roomy # queue
        /\ IF critical THEN Flush(q, timer)
           ELSE /\ queue' = q /\ timer' = TRUE
                /\ UNCHANGED <<batch, io, attempt>>
  /\ UNCHANGED <<closed, shutdown>>

TimerFires ==
  /\ timer
  /\ Flush(queue, FALSE)
  /\ UNCHANGED <<closed, captured, shutdown>>

\* The application's flush(), or beforeunload.
HostFlush ==
  /\ shutdown # "closed"
  /\ io = "none" /\ queue # <<>>
  /\ Flush(queue, timer)
  /\ UNCHANGED <<closed, captured, shutdown>>

-----------------------------------------------------------------------------
\* The rest of a flush

\* Mutant of FlushTimer: the finally block does not look at the queue.
FlushTimerUnchanged(q) == timer

\* finally: the timer is set again when events are waiting.
FlushTimer(q) == timer \/ q # <<>>

\* The batch was answered, with accepted, duplicate or rejected events: none
\* of them is sent again.
SendOk ==
  /\ io = "fetch"
  /\ batch' = <<>> /\ io' = "none" /\ attempt' = 0
  /\ timer' = FlushTimer(queue)
  /\ shutdown' = CASE shutdown = "flush" -> "flushing"
                   [] shutdown = "drain" -> "draining"
                   [] OTHER -> shutdown
  /\ UNCHANGED <<queue, closed, captured>>

\* Mutant of SendRetryable: the loop runs once more.
SendRetryableOnceMore ==
  /\ io = "fetch"
  /\ attempt < MaxAttempts
  /\ io' = "backoff"
  /\ UNCHANGED <<queue, batch, attempt, timer, closed, captured, shutdown>>

\* The send failed in a way that isRetryable accepts: wait and try again.
SendRetryable ==
  /\ io = "fetch"
  /\ attempt < MaxAttempts - 1
  /\ io' = "backoff"
  /\ UNCHANGED <<queue, batch, attempt, timer, closed, captured, shutdown>>

Resend ==
  /\ io = "backoff"
  /\ attempt' = attempt + 1
  /\ batch' = Sent(batch)
  /\ io' = Sending
  /\ UNCHANGED <<queue, timer, closed, captured, shutdown>>

Failed(item) ==
  [id |-> item.id, critical |-> item.critical,
   attempts |-> item.attempts + 1, sends |-> item.sends]

\* Mutant of Survives: the limit is compared off by one.
SurvivesOnceMore(item) == item.attempts + 1 <= MaxAttempts

Survives(item) == item.attempts + 1 < MaxAttempts

\* Mutant of Requeued: unshift() in the order of the batch.
RequeuedForward(items) ==
  LET back[n \in 0..Len(items)] ==
        IF n = 0 THEN queue
        ELSE IF Survives(items[n]) THEN <<Failed(items[n])>> \o back[n - 1]
        ELSE back[n - 1]
  IN  back[Len(items)]

\* The loop over batch.reverse(), and the queue after n turns: an event that
\* survives is put in front, so that the batch has the order it had.
Requeued(items) ==
  LET back[n \in 0..Len(items)] ==
        IF n = 0 THEN queue
        ELSE LET item == items[Len(items) - n + 1] IN
             IF Survives(item) THEN <<Failed(item)>> \o back[n - 1] ELSE back[n - 1]
  IN  back[Len(items)]

\* The last attempt failed, or the failure is not retryable: the flush rejects.
\* shutdown's flush() is caught, the queue's close() passes it on.
FlushFails ==
  /\ io \in {"fetch", "dead"}
  /\ queue' = Requeued(batch)
  /\ batch' = <<>> /\ io' = "none" /\ attempt' = 0
  /\ timer' = FlushTimer(queue')
  /\ shutdown' = CASE shutdown = "flush" -> "closing"
                   [] shutdown = "drain" -> "threw"
                   [] OTHER -> shutdown
  /\ UNCHANGED <<closed, captured>>

-----------------------------------------------------------------------------
\* ReplayBug.close()

\* A close() that threw leaves the SDK initialized, so it can be called again.  It
\* comes to the first look at the queue of flush(5000) without waiting.
BeginClose ==
  /\ shutdown \in {"open", "threw"}
  /\ Flush(queue, timer)
  /\ shutdown' = IF queue = <<>> THEN "closing"
                 ELSE IF io = "none" THEN "flush" ELSE "flushing"
  /\ UNCHANGED <<closed, captured>>

\* flush(5000) goes on: while events wait and there is time, flush.  A batch in
\* flight is not waited for once the queue is empty.
FlushLoop ==
  /\ shutdown = "flushing"
  /\ \/ /\ queue # <<>> /\ io = "none"
        /\ Flush(queue, timer)
        /\ shutdown' = "flush"
     \/ /\ shutdown' = "closing"
        /\ UNCHANGED <<queue, batch, attempt, io, timer>>
  /\ UNCHANGED <<closed, captured>>

\* Mutant of QueueClose: the timer is cleared but nothing is flushed.
QueueCloseWithoutFlush ==
  /\ shutdown = "closing"
  /\ closed' = TRUE
  /\ timer' = FALSE
  /\ shutdown' = "closed"
  /\ UNCHANGED <<queue, batch, attempt, io, captured>>

\* EventQueue.close(): the timer is cleared and the first flush begins.
QueueClose ==
  /\ shutdown = "closing"
  /\ closed' = TRUE
  /\ Flush(queue, FALSE)
  /\ shutdown' = IF queue = <<>> THEN "closed"
                 ELSE IF io = "none" THEN "drain" ELSE "draining"
  /\ UNCHANGED captured

\* The loop of EventQueue.close(); each wait ends at the deadline at the latest.
DrainLoop ==
  /\ \/ /\ shutdown = "draining" /\ queue # <<>> /\ io = "none"
        /\ Flush(queue, timer)
        /\ shutdown' = "drain"
     \/ /\ shutdown \in {"draining", "drain"}
        /\ shutdown' = "closed"
        /\ UNCHANGED <<queue, batch, attempt, io, timer>>
  /\ UNCHANGED <<closed, captured>>

-----------------------------------------------------------------------------
Settle == SendOk \/ SendRetryable \/ Resend \/ FlushFails

Next ==
  \/ \E critical \in BOOLEAN : Enqueue(critical)
  \/ TimerFires \/ HostFlush
  \/ SendOk \/ SendRetryable \/ Resend \/ FlushFails
  \/ BeginClose \/ FlushLoop \/ QueueClose \/ DrainLoop

Spec == Init /\ [][Next]_vars

\* Timers fire and every fetch settles; the application owes nothing.
FairSpec ==
  Spec /\ WF_vars(TimerFires) /\ WF_vars(Settle)
       /\ WF_vars(FlushLoop \/ QueueClose \/ DrainLoop)

-----------------------------------------------------------------------------
\* Every variable has the shape described above.
TypeOK ==
  /\ queue \in Seq(Item) /\ batch \in Seq(Item)
  /\ attempt \in 0..(MaxAttempts - 1)
  /\ io \in Io /\ (io = "none" <=> batch = <<>>)
  /\ timer \in BOOLEAN /\ closed \in BOOLEAN
  /\ captured \in 0..MaxEvents
  /\ shutdown \in Shutdown

\* Memory stays bounded although a failed batch goes back in front of whatever
\* was enqueued meanwhile: the limit is exceeded by one batch at most.
BoundedMemory == Len(queue) + Len(batch) <= MaxQueueSize + MaxBatchSize

\* No event waits for nothing: while the queue is not empty a flush is in
\* flight or a timer is set, in shutdown and after a failed one too.
NothingStranded == queue # <<>> => timer \/ io # "none"

\* Evictions, failed flushes and re-queueing never reorder or duplicate what is
\* left: events are sent in the order in which they were captured.
CaptureOrder ==
  LET line == batch \o queue
  IN  \A i, j \in DOMAIN line : i < j => line[i].id < line[j].id

\* The two retry mechanisms multiply, and no more: every flush of an event
\* sends it MaxAttempts times at most, and there are MaxAttempts of them.
SendsBounded ==
  /\ \A i \in DOMAIN queue : queue[i].sends <= MaxAttempts * queue[i].attempts
  /\ \A i \in DOMAIN batch :
       batch[i].sends <= MaxAttempts * batch[i].attempts + attempt + 1

\* Every captured event leaves the SDK, answered or given up, whatever the
\* transport does and whenever the SDK is closed.
EveryEventLeaves ==
  \A id \in 1..MaxEvents :
    id \in Ids(queue) \cup Ids(batch) ~> id \notin Ids(queue) \cup Ids(batch)

\* What the comment in performClose says of a drain that fails.
CloseNeverThrows == shutdown # "threw"
=============================================================================
