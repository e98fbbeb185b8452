-------------------------- MODULE EventOutbox_proofs --------------------------
(***************************************************************************)
(* Proofs about EventOutbox, for every number of events, passes and        *)
(* consumers, every batch size and every retry limit.                      *)
(***************************************************************************)
EXTENDS EventOutbox, TLAPS

\* An event has an outbox row exactly when it has been ingested, and a job
\* only then.
RowWithEvent ==
  \A e \in Event : /\ events[e] = "absent" <=> ~HasRow(e)
                   /\ JQ!Exists(job[e]) => events[e] # "absent"

\* A row is marked, or about to be marked, only when its job exists.
MarkedIsPublished ==
  \A e \in Event : /\ outbox[e].dispatched => JQ!Exists(job[e])
                   /\ \A p \in Pass : e \in pass[p].done => JQ!Exists(job[e])

\* The rows a pass holds are undispatched rows that no other pass holds.
ClaimsExclusive ==
  \A p \in Pass : /\ \A e \in Locked(p) : Pending(e)
                  /\ \A q \in Pass : p # q => Locked(p) \cap Locked(q) = {}

\* A handler acknowledges, and pg-boss completes, only what is settled.
AckIsSettled ==
  /\ \A w \in Slot : \A e \in slot[w].on :
       /\ events[e] # "absent"
       /\ slot[w].pc = "ack" => events[e] # "pending"
  /\ \A e \in Event : job[e].state = "completed" => events[e] # "pending"

IInv == TypeOK /\ RowWithEvent /\ MarkedIsPublished /\ ClaimsExclusive /\ AckIsSettled

-----------------------------------------------------------------------------
\* What the job operators return, and what they do to the job's existence.
LEMMA JobOps ==
  ASSUME NEW j \in JQ!Job, JQ!RetryLeft(j)
  PROVE  /\ JQ!Send(j) \in JQ!Job /\ JQ!RetryLeft(JQ!Send(j))
         /\ JQ!Exists(JQ!Send(j))
         /\ JQ!Send(j).state = "completed" <=> j.state = "completed"
         /\ JQ!Fetchable(j) =>
              /\ JQ!Fetch(j) \in JQ!Job /\ JQ!RetryLeft(JQ!Fetch(j))
              /\ JQ!Exists(j) /\ JQ!Exists(JQ!Fetch(j))
              /\ JQ!Fetch(j).state # "completed"
         /\ JQ!Complete(j) \in JQ!Job /\ JQ!RetryLeft(JQ!Complete(j))
         /\ JQ!Exists(JQ!Complete(j)) <=> JQ!Exists(j)
         /\ JQ!Fail(j) \in JQ!Job /\ JQ!RetryLeft(JQ!Fail(j))
         /\ JQ!Exists(JQ!Fail(j)) <=> JQ!Exists(j)
         /\ JQ!Fail(j).state = "completed" <=> j.state = "completed"
         /\ JQ!Expire(j) = JQ!Fail(j)
<1> USE ConstantsAssumption DEF JQ!Job, JQ!JobState, JQ!Exists, JQ!RetryLeft
<1>1. /\ JQ!Send(j) \in JQ!Job /\ JQ!RetryLeft(JQ!Send(j))
      /\ JQ!Exists(JQ!Send(j))
      /\ JQ!Send(j).state = "completed" <=> j.state = "completed"
  BY DEF JQ!Send
<1>2. ASSUME JQ!Fetchable(j)
      PROVE  /\ JQ!Fetch(j) \in JQ!Job /\ JQ!RetryLeft(JQ!Fetch(j))
             /\ JQ!Exists(j) /\ JQ!Exists(JQ!Fetch(j))
             /\ JQ!Fetch(j).state # "completed"
  BY <1>2 DEF JQ!Fetchable, JQ!Fetch
<1>3. /\ JQ!Complete(j) \in JQ!Job /\ JQ!RetryLeft(JQ!Complete(j))
      /\ JQ!Exists(JQ!Complete(j)) <=> JQ!Exists(j)
  BY DEF JQ!Complete
<1>4. /\ JQ!Fail(j) \in JQ!Job /\ JQ!RetryLeft(JQ!Fail(j))
      /\ JQ!Exists(JQ!Fail(j)) <=> JQ!Exists(j)
      /\ JQ!Fail(j).state = "completed" <=> j.state = "completed"
  BY DEF JQ!Fail
<1>5. JQ!Expire(j) = JQ!Fail(j)
  BY DEF JQ!Expire
<1>6. QED
  BY <1>1, <1>2, <1>3, <1>4, <1>5

\* The initial state satisfies the invariant.
LEMMA InitIInv == Init => IInv
<1> SUFFICES ASSUME Init PROVE IInv
  OBVIOUS
<1>1. JQ!NoJob \in JQ!Job /\ JQ!NoJob.state = "none" /\ JQ!RetryLeft(JQ!NoJob)
  BY ConstantsAssumption DEF JQ!NoJob, JQ!Job, JQ!JobState, JQ!RetryLeft
<1>2. TypeOK
  BY <1>1, ConstantsAssumption
     DEF Init, TypeOK, EventState, Row, NoRow, PassState, IdlePass, SlotState, IdleSlot
<1>3. QED
  BY <1>1, <1>2
     DEF Init, IInv, RowWithEvent, MarkedIsPublished, ClaimsExclusive, AckIsSettled,
         HasRow, NoRow, Locked, IdlePass, IdleSlot, JQ!Exists, JQ!NoJob




\* Every step keeps the invariant: one case per action.
LEMMA NextIInv == IInv /\ [Next]_vars => IInv'
<1> SUFFICES ASSUME IInv, [Next]_vars PROVE IInv'
  OBVIOUS
<1> USE ConstantsAssumption DEF IInv
<1>1. CASE Age
  BY <1>1 DEF Age, TypeOK, RowWithEvent, MarkedIsPublished, ClaimsExclusive,
              AckIsSettled, HasRow, Locked, Pending
<1>2. ASSUME NEW e \in Event, Ingest(e)
      PROVE  IInv'
  <2>1. TypeOK'
    BY <1>2 DEF Ingest, Time, Row, TypeOK, EventState
  <2>2. RowWithEvent' /\ MarkedIsPublished'
    BY <1>2 DEF Ingest, Time, RowWithEvent, MarkedIsPublished, HasRow, TypeOK, EventState
  <2>3. ClaimsExclusive'
    BY <1>2 DEF Ingest, Time, ClaimsExclusive, RowWithEvent, Locked, Pending, HasRow,
                TypeOK, PassState
  <2>4. AckIsSettled'
    BY <1>2 DEF Ingest, AckIsSettled, RowWithEvent, JQ!Exists, TypeOK, SlotState
  <2>5. QED
    BY <2>1, <2>2, <2>3, <2>4
<1>3. ASSUME NEW e \in Event, ExpireJob(e)
      PROVE  IInv'
  <2>1. TypeOK' /\ RowWithEvent' /\ MarkedIsPublished'
    BY <1>3, JobOps
       DEF ExpireJob, TypeOK, RowWithEvent, MarkedIsPublished, HasRow
  <2>2. ClaimsExclusive' /\ AckIsSettled'
    BY <1>3, JobOps
       DEF ExpireJob, ClaimsExclusive, AckIsSettled, Locked, Pending, HasRow, TypeOK
  <2>3. QED
    BY <2>1, <2>2
<1>4. ASSUME NEW p \in Pass, NEW R \in SUBSET {e \in Unlocked : Pending(e)},
             NEW n, Claim(p, Oldest(R, n)), pass[p].pc # "publish"
      PROVE  IInv'
  <2>1. Oldest(R, n) \subseteq R /\ R \subseteq Event
    BY DEF Oldest, Unlocked
  <2>2. \A e \in Oldest(R, n) : Pending(e) /\ \A q \in Pass : e \notin Locked(q)
    BY <2>1 DEF Unlocked
  <2>3. TypeOK'
    BY <1>4, <2>1 DEF Claim, TypeOK, PassState, Publishing
  <2>4. ClaimsExclusive'
    BY <1>4, <2>2 DEF Claim, ClaimsExclusive, Locked, Pending, HasRow, TypeOK, PassState, Publishing
  <2>5. RowWithEvent' /\ MarkedIsPublished' /\ AckIsSettled'
    BY <1>4 DEF Claim, RowWithEvent, MarkedIsPublished, AckIsSettled, HasRow,
                TypeOK, PassState, Publishing
  <2>6. QED
    BY <2>3, <2>4, <2>5
<1>5. ASSUME NEW p \in Pass, ClaimPendingOutboxBatch(p)
      PROVE  IInv'
  BY <1>4, <1>5 DEF ClaimPendingOutboxBatch
<1>6. ASSUME NEW p \in Pass, ListStaleOutbox(p)
      PROVE  IInv'
  <2>1. TypeOK'
    BY <1>6 DEF ListStaleOutbox, TypeOK, PassState
  <2>2. RowWithEvent' /\ MarkedIsPublished' /\ ClaimsExclusive' /\ AckIsSettled'
    BY <1>6 DEF ListStaleOutbox, RowWithEvent, MarkedIsPublished, ClaimsExclusive,
                AckIsSettled, HasRow, Locked, Pending, TypeOK, PassState
  <2>3. QED
    BY <2>1, <2>2
\* A pass that lets its locks go writes nothing.
<1>7. ASSUME NEW p \in Pass, pass' = [pass EXCEPT ![p] = IdlePass],
             UNCHANGED <<events, outbox, job, slot, staleTime>>, faults' \in 0..MaxFaults
      PROVE  IInv'
  BY <1>7 DEF IdlePass, TypeOK, PassState, RowWithEvent, MarkedIsPublished,
              ClaimsExclusive, AckIsSettled, HasRow, Locked, Pending
<1>8. ASSUME NEW p \in Pass, ClaimStaleOutboxBatch(p)
      PROVE  IInv'
  <2>1. CASE Claim(p, Oldest(StaleRows(p), BatchSize))
    BY <1>4, <1>8, <2>1 DEF ClaimStaleOutboxBatch, StaleRows
  <2>2. CASE ~Claim(p, Oldest(StaleRows(p), BatchSize))
    BY <1>7, <1>8, <2>2 DEF ClaimStaleOutboxBatch, TypeOK
  <2>3. QED
    BY <2>1, <2>2
<1>9. ASSUME NEW p \in Pass, PublishOk(p)
      PROVE  IInv'
  <2>1. PICK e \in pass[p].todo :
          /\ job' = [job EXCEPT ![e] = JQ!Send(@)]
          /\ pass' = [pass EXCEPT
               ![p] = Publishing(@.todo \ {e}, @.done \cup {e}, @.failed)]
    BY <1>9 DEF PublishOk, Current, Oldest
  <2>2. /\ e \in Event /\ HasRow(e) /\ ~outbox[e].dispatched
        /\ job[e] \in JQ!Job /\ JQ!RetryLeft(job[e])
    BY DEF TypeOK, PassState, Publishing, ClaimsExclusive, Locked, Pending
  <2>a. /\ JQ!Send(job[e]) \in JQ!Job /\ JQ!RetryLeft(JQ!Send(job[e]))
        /\ JQ!Exists(JQ!Send(job[e]))
        /\ JQ!Send(job[e]).state = "completed" <=> job[e].state = "completed"
    BY <2>2, JobOps
  <2>b. job' \in [Event -> JQ!Job] /\ \A d \in Event : JQ!RetryLeft(job[d])'
    BY <2>1, <2>2, <2>a DEF TypeOK
  <2>c. pass' \in [Pass -> PassState]
    BY <2>1, <2>2 DEF TypeOK, PassState, Publishing
  <2>3. TypeOK'
    BY <1>9, <2>b, <2>c DEF PublishOk, TypeOK
  <2>4. RowWithEvent' /\ MarkedIsPublished' /\ AckIsSettled'
    BY <1>9, <2>1, <2>2, <2>a
       DEF PublishOk, RowWithEvent, MarkedIsPublished, AckIsSettled, HasRow, TypeOK, PassState, Publishing
  <2>5. ClaimsExclusive'
    BY <1>9, <2>1, <2>2
       DEF PublishOk, ClaimsExclusive, Locked, Pending, HasRow, TypeOK, PassState, Publishing
  <2>6. QED
    BY <2>3, <2>4, <2>5
<1>10. ASSUME NEW p \in Pass, PublishFailed(p)
       PROVE  IInv'
  <2>1. PICK e \in pass[p].todo :
          /\ job' = job \/ job' = [job EXCEPT ![e] = JQ!Send(@)]
          /\ pass' = [pass EXCEPT
               ![p] = Publishing(@.todo \ {e}, @.done, @.failed \cup {e})]
    BY <1>10 DEF PublishFailed, Current, Oldest
  <2>2. /\ e \in Event /\ HasRow(e) /\ ~outbox[e].dispatched
        /\ job[e] \in JQ!Job /\ JQ!RetryLeft(job[e])
    BY DEF TypeOK, PassState, Publishing, ClaimsExclusive, Locked, Pending
  <2>a. /\ JQ!Send(job[e]) \in JQ!Job /\ JQ!RetryLeft(JQ!Send(job[e]))
        /\ JQ!Exists(JQ!Send(job[e]))
        /\ JQ!Send(job[e]).state = "completed" <=> job[e].state = "completed"
    BY <2>2, JobOps
  <2>b. job' \in [Event -> JQ!Job] /\ \A d \in Event : JQ!RetryLeft(job[d])'
    BY <2>1, <2>2, <2>a DEF TypeOK
  <2>c. pass' \in [Pass -> PassState]
    BY <2>1, <2>2 DEF TypeOK, PassState, Publishing
  <2>3. TypeOK'
    BY <1>10, <2>b, <2>c DEF PublishFailed, TypeOK
  <2>d. \A d \in Event : /\ JQ!Exists(job[d]) => JQ!Exists(job'[d])
                         /\ d # e => job'[d] = job[d]
                         /\ job'[d].state = "completed" <=> job[d].state = "completed"
    BY <2>1, <2>2, <2>a DEF TypeOK
  <2>4. RowWithEvent' /\ MarkedIsPublished' /\ AckIsSettled'
    BY <1>10, <2>1, <2>2, <2>d
       DEF PublishFailed, RowWithEvent, MarkedIsPublished, AckIsSettled, HasRow,
           TypeOK, PassState, Publishing
  <2>5. ClaimsExclusive'
    BY <1>10, <2>1, <2>2
       DEF PublishFailed, ClaimsExclusive, Locked, Pending, HasRow, TypeOK, PassState, Publishing
  <2>6. QED
    BY <2>3, <2>4, <2>5
<1>11. ASSUME NEW p \in Pass, PassCommit(p)
       PROVE  IInv'
  <2>1. \A e \in Event : outbox[e] # outbox'[e] => e \in Locked(p)
    BY <1>11 DEF PassCommit, Locked, TypeOK
  <2>2. \A e \in Event : HasRow(e)' <=> HasRow(e)
    BY <1>11 DEF PassCommit, HasRow, TypeOK, Row
  <2>3. TypeOK'
    <3>1. outbox' \in [Event -> Row]
      BY <1>11 DEF PassCommit, TypeOK, Row
    <3>2. pass' \in [Pass -> PassState]
      <4>1. IdlePass \in PassState
        BY DEF IdlePass, PassState
      <4>2. QED
        BY <1>11, <4>1 DEF PassCommit, TypeOK
    <3>3. QED
      BY <1>11, <3>1, <3>2 DEF PassCommit, TypeOK
  <2>4. RowWithEvent' /\ AckIsSettled'
    BY <1>11, <2>2 DEF PassCommit, RowWithEvent, AckIsSettled
  <2>5. MarkedIsPublished'
    BY <1>11 DEF PassCommit, MarkedIsPublished, TypeOK, Row, PassState, IdlePass
  <2>6. ClaimsExclusive'
    <3>1. \A q \in Pass : Locked(q)' = IF q = p THEN {} ELSE Locked(q)
      BY <1>11 DEF PassCommit, Locked, IdlePass, TypeOK
    <3>2. \A q \in Pass : \A e \in Locked(q)' : Pending(e) /\ e \in Event /\ e \notin Locked(p)
      BY <3>1 DEF ClaimsExclusive, TypeOK, PassState, Locked
    <3>3. \A e \in Event : e \notin Locked(p) /\ Pending(e) => Pending(e)'
      BY <2>1 DEF Pending, HasRow
    <3>4. QED
      BY <3>1, <3>2, <3>3 DEF ClaimsExclusive
  <2>7. QED
    BY <2>3, <2>4, <2>5, <2>6
<1>12. ASSUME NEW p \in Pass, PassAbort(p)
       PROVE  IInv'
  <2>1. faults' \in 0..MaxFaults
    BY <1>12 DEF PassAbort, TypeOK
  <2>2. QED
    BY <1>7, <1>12, <2>1 DEF PassAbort
<1>13. ASSUME NEW w \in Slot, NEW e \in Event, FetchJob(w, e)
       PROVE  IInv'
  <2>1. TypeOK'
    BY <1>13, JobOps DEF FetchJob, TypeOK, SlotState
  <2>2. RowWithEvent' /\ MarkedIsPublished' /\ ClaimsExclusive'
    BY <1>13, JobOps DEF FetchJob, RowWithEvent, MarkedIsPublished, ClaimsExclusive,
                         HasRow, Locked, Pending, TypeOK
  <2>3. AckIsSettled'
    BY <1>13, JobOps DEF FetchJob, AckIsSettled, RowWithEvent, TypeOK, SlotState
  <2>4. QED
    BY <2>1, <2>2, <2>3
<1>14. ASSUME NEW w \in Slot, HandlerCommit(w)
       PROVE  IInv'
  <2>0. PICK e \in slot[w].on :
          events' = [events EXCEPT ![e] =
            IF @ # "pending" THEN @
            ELSE IF e \in Malformed THEN "rejected" ELSE "processed"]
    BY <1>14 DEF HandlerCommit
  <2>1. e \in Event /\ slot[w].on = {e}
    <3>1. slot[w].on \in {{}} \cup {{d} : d \in Event}
      BY DEF TypeOK, SlotState
    <3>2. QED
      BY <3>1
  <2>2. TypeOK'
    BY <1>14, <2>0, <2>1 DEF HandlerCommit, TypeOK, EventState, SlotState
  <2>3. RowWithEvent' /\ MarkedIsPublished' /\ ClaimsExclusive'
    BY <1>14, <2>0, <2>1 DEF HandlerCommit, RowWithEvent, MarkedIsPublished, ClaimsExclusive,
                       HasRow, Locked, Pending, TypeOK
  <2>4. AckIsSettled'
    BY <1>14, <2>0, <2>1 DEF HandlerCommit, AckIsSettled, TypeOK, SlotState
  <2>5. QED
    BY <2>2, <2>3, <2>4
\* A slot that throws, reports or dies leaves events and outbox alone.
<1>15. ASSUME NEW w \in Slot, HandlerThrow(w) \/ SlotCrash(w)
       PROVE  IInv'
  <2>1. TypeOK'
    BY <1>15 DEF HandlerThrow, SlotCrash, IdleSlot, TypeOK, SlotState
  <2>2. RowWithEvent' /\ MarkedIsPublished' /\ ClaimsExclusive'
    BY <1>15 DEF HandlerThrow, SlotCrash, RowWithEvent, MarkedIsPublished,
                 ClaimsExclusive, HasRow, Locked, Pending
  <2>3. AckIsSettled'
    BY <1>15 DEF HandlerThrow, SlotCrash, IdleSlot, AckIsSettled, TypeOK, SlotState
  <2>4. QED
    BY <2>1, <2>2, <2>3
<1>16. ASSUME NEW w \in Slot, Report(w)
       PROVE  IInv'
  <2>1. PICK e \in slot[w].on :
          \/ slot[w].pc = "ack"  /\ job' = [job EXCEPT ![e] = JQ!Complete(@)]
          \/ slot[w].pc = "nack" /\ job' = [job EXCEPT ![e] = JQ!Fail(@)]
    BY <1>16 DEF Report
  <2>2. e \in Event
    BY DEF TypeOK, SlotState
  <2>3. TypeOK'
    BY <1>16, <2>1, <2>2, JobOps DEF Report, IdleSlot, TypeOK, SlotState
  <2>4. RowWithEvent' /\ MarkedIsPublished' /\ ClaimsExclusive'
    BY <1>16, <2>1, <2>2, JobOps
       DEF Report, RowWithEvent, MarkedIsPublished, ClaimsExclusive, HasRow, Locked,
           Pending, TypeOK
  <2>5. AckIsSettled'
    BY <1>16, <2>1, <2>2, JobOps DEF Report, IdleSlot, AckIsSettled, TypeOK, SlotState
  <2>6. QED
    BY <2>3, <2>4, <2>5
<1>17. CASE UNCHANGED vars
  BY <1>17 DEF vars, TypeOK, RowWithEvent, MarkedIsPublished, ClaimsExclusive,
               AckIsSettled, HasRow, Locked, Pending
<1>18. QED
  BY <1>1, <1>2, <1>3, <1>5, <1>6, <1>8, <1>9, <1>10, <1>11, <1>12, <1>13, <1>14,
     <1>15, <1>16, <1>17 DEF Next

\* The invariant holds in every reachable state.
THEOREM Invariance == Spec => []IInv
<1>1. QED
  BY InitIInv, NextIInv, PTL DEF Spec

\* Type correctness of the outbox, the passes, the consumers and the jobs.
THEOREM TypeCorrect == Spec => []TypeOK
<1>1. IInv => TypeOK
  BY DEF IInv
<1>2. QED
  BY <1>1, Invariance, PTL

\* An accepted event is never lost between the outbox and its handler: while
\* it is pending, either its row is undispatched or a job for it exists that
\* was not completed (ADR 0001).
THEOREM NoOrphans == Spec => []NoSilentOrphan
<1>1. IInv => NoSilentOrphan
  BY DEF IInv, TypeOK, RowWithEvent, MarkedIsPublished, AckIsSettled, NoSilentOrphan,
         Pending, HasRow, JQ!Exists, JQ!Job, JQ!JobState
<1>2. QED
  BY <1>1, Invariance, PTL

\* No pass ever writes a row that is already marked dispatched.
THEOREM SettledRows == Spec => DispatchedRowsSettle
<1>1. ASSUME IInv, [Next]_vars
      PROVE  [\A e \in Event : outbox[e].dispatched => outbox'[e] = outbox[e]]_vars
  <2> SUFFICES ASSUME NEW e \in Event, outbox[e].dispatched, Next
               PROVE  outbox'[e] = outbox[e]
    BY <1>1
  <2>1. HasRow(e) /\ \A p \in Pass : e \notin Locked(p)
    BY <1>1 DEF IInv, TypeOK, RowWithEvent, MarkedIsPublished, ClaimsExclusive, Pending
  <2>2. CASE \E d \in Event : Ingest(d)
    BY <1>1, <2>1, <2>2 DEF Ingest, IInv, TypeOK, RowWithEvent
  <2>3. CASE \E p \in Pass : PassCommit(p)
    BY <1>1, <2>1, <2>3 DEF PassCommit, Locked, IInv, TypeOK
  <2>4. CASE UNCHANGED outbox
    BY <2>4
  <2>5. QED
    BY <2>2, <2>3, <2>4
       DEF Next, Age, ExpireJob, ClaimPendingOutboxBatch, ListStaleOutbox,
           ClaimStaleOutboxBatch, Claim, PublishOk, PublishFailed, PassAbort, FetchJob,
           HandlerCommit, HandlerThrow, Report, SlotCrash
<1>2. QED
  BY <1>1, Invariance, PTL DEF Spec, DispatchedRowsSettle
=============================================================================
