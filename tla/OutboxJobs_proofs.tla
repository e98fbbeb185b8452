--------------------------- MODULE OutboxJobs_proofs ---------------------------
(***************************************************************************)
(* Proofs about OutboxJobs, for every number of requests, events, calls,   *)
(* loops and consumers, every batch size, retry limit and fault bound.     *)
(***************************************************************************)
EXTENDS OutboxJobs, TLAPS

ShapeOK ==
  /\ kind \in [Key -> Kind]
  /\ live \in [Event -> BOOLEAN]
  /\ expiry \in [Event -> {"idle", "seen", "locked"}]
  /\ row \in [Key -> Status]
  /\ outbox \in [Key -> OutboxState]
  /\ job \in [Key -> JQ!Job]
  /\ call \in [Call -> CallState]
  /\ pass \in [Pass -> PassState]
  /\ slot \in [Slot -> SlotState]
  /\ told \in [Key -> Told]
  /\ faults \in 0..MaxFaults

\* Request row, outbox row and job: which of them there are.
RowsAgree ==
  \A k \in Key :
    /\ row[k] = "none" <=> outbox[k] = "none"
    /\ job[k].state # "none" => row[k] # "none"
    /\ outbox[k] = "dispatched" => job[k].state # "none"
    /\ job[k].state = "completed" => row[k] \in Ended

\* An inserting call has the event's lock and the identity to itself.
InsertsExclude ==
  \A c \in Call :
    /\ call[c] = "commit" =>
         /\ row[KeyOf[c]] = "none"
         /\ live[EventOf[KeyOf[c]]]
         /\ expiry[EventOf[KeyOf[c]]] # "locked"
    /\ call[c] = "created" => row[KeyOf[c]] # "none"
    /\ \A d \in Call : c # d /\ KeyOf[c] = KeyOf[d]
                         /\ call[c] \in {"commit", "created"} => call[d] # call[c]

\* A pass works on rows that exist and marks those it has published.
PassesOK ==
  \A p \in Pass :
    /\ \A k \in pass[p].todo \cup pass[p].at : row[k] # "none"
    /\ pass[p].pc = "mark" => \A k \in pass[p].at : job[k].state # "none"

\* A handler has a job, and acknowledges only what has ended.
SlotsOK ==
  \A w \in Slot : \A k \in slot[w].on :
    /\ job[k].state # "none"
    /\ slot[w].pc = "ack" => row[k] \in Ended
    /\ slot[w].pc # "idle"

Evidence ==
  \A k \in Key : kind[k] = "reproduction" /\ row[k] = "pending" => live[EventOf[k]]

\* An analysis at its last attempt has a handler that knows it is the last.
LastHandler(k, w) ==
  k \in slot[w].on /\ slot[w].final /\ slot[w].pc \in {"build", "settle"}

LastAttempts ==
  \A k \in Key :
    /\ job[k].state = "failed" => job[k].retries = RetryLimit
    /\ job[k].state = "retry" => job[k].retries < RetryLimit
    /\ /\ faults = 0
       /\ kind[k] = "analysis"
       /\ row[k] = "pending"
       /\ job[k].state \in {"active", "failed"}
       /\ job[k].retries = RetryLimit
       => \E w \in Slot : LastHandler(k, w)

Tables == /\ ShapeOK
          /\ RowsAgree
          /\ InsertsExclude
          /\ Evidence
          /\ ToldOnce
IInv == Tables /\ PassesOK /\ SlotsOK /\ LastAttempts

-----------------------------------------------------------------------------
LEMMA InitIInv == Init => IInv
<1> SUFFICES ASSUME Init PROVE IInv
  OBVIOUS
<1>1. IdlePass \in PassState /\ IdlePass.todo = {} /\ IdlePass.at = {} /\ IdlePass.pc = "idle"
  BY DEF IdlePass, PassState, Kind
<1>2. IdleSlot \in SlotState /\ IdleSlot.on = {}
  BY DEF IdleSlot, SlotState
<1>3. JQ!NoJob \in JQ!Job /\ JQ!NoJob.state = "none"
  BY ConstantsAssumption DEF JQ!NoJob, JQ!Job, JQ!JobState
<1>4. [requested |-> 0, ended |-> 0, notified |-> 0] \in Told
  BY DEF Told
<1>5. ShapeOK
  BY <1>1, <1>2, <1>3, <1>4, ConstantsAssumption
     DEF Init, ShapeOK, Status, OutboxState, CallState
<1>6. RowsAgree /\ InsertsExclude /\ Evidence
  BY <1>3 DEF Init, RowsAgree, InsertsExclude, Evidence
<1>7. ToldOnce
  BY DEF Init, ToldOnce, Ended
<1>8. PassesOK /\ SlotsOK
  BY <1>1, <1>2 DEF Init, PassesOK, SlotsOK
<1>9. LastAttempts
  BY <1>3 DEF Init, LastAttempts
<1>10. QED
  BY <1>5, <1>6, <1>7, <1>8, <1>9 DEF IInv, Tables

-----------------------------------------------------------------------------
\* The API calls.

\* A call that writes nothing and does not insert.
LEMMA CallMoves ==
  ASSUME IInv, NEW c \in Call, NEW state \in CallState \ {"commit", "created"},
         Step(c, state), faults' \in {faults, faults + 1}, faults' \in 0..MaxFaults,
         UNCHANGED <<kind, live, expiry, row, outbox, job, pass, slot, told>>
  PROVE  IInv'
<1>1. /\ call' \in [Call -> CallState] /\ call'[c] = state
      /\ \A d \in Call \ {c} : call'[d] = call[d]
  BY DEF IInv, Tables, ShapeOK, Step
<1>2. ShapeOK' /\ RowsAgree' /\ Evidence' /\ ToldOnce'
  BY <1>1 DEF IInv, Tables, ShapeOK, RowsAgree, Evidence, ToldOnce
<1>3. InsertsExclude'
  BY <1>1 DEF IInv, Tables, InsertsExclude
<1>4. PassesOK' /\ SlotsOK'
  BY DEF IInv, PassesOK, SlotsOK
<1>5. LastAttempts'
  <2>1. faults' = 0 => faults = 0
    BY DEF IInv, Tables, ShapeOK
  <2>2. QED
    BY <2>1 DEF IInv, LastAttempts, LastHandler
<1>6. QED
  BY <1>2, <1>3, <1>4, <1>5 DEF IInv, Tables

LEMMA ReadStep ==
  ASSUME IInv, NEW c \in Call, ReadForReproduction(c) \/ ReadForAnalysis(c)
  PROVE  IInv'
<1>1. PICK state \in {"insert", "error"} : Step(c, state)
  BY DEF ReadForReproduction, ReadForAnalysis, Turned, BuildGenerationInput
<1>2. state \in CallState \ {"commit", "created"} /\ faults \in 0..MaxFaults
  BY DEF CallState, IInv, Tables, ShapeOK
<1>3. UNCHANGED <<kind, live, expiry, row, outbox, job, pass, slot, told, faults>>
  BY DEF ReadForReproduction, ReadForAnalysis, Turned
<1>4. QED
  BY <1>1, <1>2, <1>3, CallMoves

LEMMA CallInsertStep == ASSUME IInv, NEW c \in Call, CallInsert(c) PROVE IInv'
<1>1. /\ UNCHANGED <<kind, live, expiry, row, outbox, job, pass, slot, told, faults>>
      /\ faults \in 0..MaxFaults
      /\ {"error", "reread"} \subseteq CallState \ {"commit", "created"}
  BY DEF CallInsert, IInv, Tables, ShapeOK, CallState
<1>2. CASE live[EventOf[KeyOf[c]]] /\ row[KeyOf[c]] = "none"
  <2>1. /\ Step(c, "commit") /\ call[c] = "insert" /\ Inserting(KeyOf[c]) = {}
        /\ expiry[EventOf[KeyOf[c]]] # "locked"
    BY <1>2 DEF CallInsert
  <2>2. /\ call' \in [Call -> CallState] /\ call'[c] = "commit"
        /\ \A d \in Call \ {c} : call'[d] = call[d]
    BY <2>1 DEF IInv, Tables, ShapeOK, Step, CallState
  <2>3. \A d \in Call : KeyOf[d] = KeyOf[c] => call[d] \notin {"commit", "created"}
    BY <1>2, <2>1 DEF Inserting, IInv, Tables, InsertsExclude
  <2>4. InsertsExclude'
    BY <1>1, <1>2, <2>1, <2>2, <2>3 DEF IInv, Tables, InsertsExclude
  <2>5. ShapeOK' /\ RowsAgree' /\ Evidence' /\ ToldOnce'
    BY <1>1, <2>2 DEF IInv, Tables, ShapeOK, RowsAgree, Evidence, ToldOnce
  <2>6. PassesOK' /\ SlotsOK' /\ LastAttempts'
    BY <1>1 DEF IInv, PassesOK, SlotsOK, LastAttempts, LastHandler
  <2>7. QED
    BY <2>4, <2>5, <2>6 DEF IInv, Tables
<1>3. CASE ~(live[EventOf[KeyOf[c]]] /\ row[KeyOf[c]] = "none")
  <2>1. Step(c, "error") \/ Step(c, "reread")
    BY <1>3 DEF CallInsert
  <2>2. QED
    BY <1>1, <2>1, CallMoves
<1>4. QED
  BY <1>2, <1>3

LEMMA CallCommitStep == ASSUME IInv, NEW c \in Call, CallCommit(c) PROVE IInv'
<1>1. PICK k \in Key : k = KeyOf[c]
  BY ConstantsAssumption
<1>2. /\ call[c] = "commit" /\ row[k] = "none" /\ outbox[k] = "none" /\ job[k].state = "none"
      /\ live[EventOf[k]]
  BY <1>1 DEF CallCommit, IInv, Tables, InsertsExclude, RowsAgree
<1>3. /\ UNCHANGED <<kind, live, expiry, job, pass, slot, faults>>
      /\ call' \in [Call -> CallState] /\ call'[c] = "created"
      /\ \A d \in Call \ {c} : call'[d] = call[d]
      /\ row' \in [Key -> Status] /\ row'[k] = "pending"
      /\ outbox' \in [Key -> OutboxState] /\ outbox'[k] = "pending"
      /\ \A l \in Key \ {k} : row'[l] = row[l] /\ outbox'[l] = outbox[l]
  BY <1>1 DEF CallCommit, Step, IInv, Tables, ShapeOK, CallState, Status, OutboxState
<1>4. told[k].requested = 0 /\ told[k].ended = 0 /\ told[k].notified = 0
  BY <1>2 DEF IInv, Tables, ToldOnce, Ended
<1>5. PICK r \in 0..1 :
        /\ r = (IF kind[k] = "analysis" THEN 1 ELSE 0)
        /\ told' = [told EXCEPT ![k] = [requested |-> r, ended |-> 0, notified |-> 0]]
  <2>1. told' = [told EXCEPT ![k] =
           [requested |-> IF kind[k] = "analysis" THEN told[k].requested + 1
                          ELSE told[k].requested,
            ended |-> told[k].ended, notified |-> told[k].notified]]
    BY <1>1 DEF CallCommit
  <2>2. CASE kind[k] = "analysis"
    BY <1>4, <2>1, <2>2
  <2>3. CASE kind[k] # "analysis"
    BY <1>4, <2>1, <2>3
  <2>4. QED
    BY <2>2, <2>3
<1>6. /\ told' \in [Key -> Told]
      /\ told'[k] = [requested |-> r, ended |-> 0, notified |-> 0]
      /\ \A l \in Key \ {k} : told'[l] = told[l]
  BY <1>5 DEF IInv, Tables, ShapeOK, Told
<1>7. ShapeOK' /\ RowsAgree' /\ Evidence'
  <2>1. ShapeOK'
    BY <1>3, <1>6 DEF IInv, Tables, ShapeOK
  <2>2. RowsAgree'
    BY <1>2, <1>3 DEF IInv, Tables, RowsAgree, Ended
  <2>3. Evidence'
    BY <1>2, <1>3 DEF IInv, Tables, Evidence
  <2>4. QED
    BY <2>1, <2>2, <2>3
<1>8. InsertsExclude'
  <2>1. \A d \in Call : KeyOf[d] \in Key
    BY ConstantsAssumption
  <2>2. \A d \in Call \ {c} : KeyOf[d] = k => call[d] \notin {"commit", "created"}
    BY <1>1, <1>2 DEF IInv, Tables, InsertsExclude
  <2>3. \A d \in Call \ {c} : call[d] = "commit" => row'[KeyOf[d]] = "none"
    BY <1>3, <2>1, <2>2 DEF IInv, Tables, InsertsExclude
  <2>4. \A d \in Call : call'[d] = "created" => row'[KeyOf[d]] # "none"
    BY <1>1, <1>3, <2>1 DEF IInv, Tables, InsertsExclude
  <2>5. QED
    BY <1>1, <1>3, <2>1, <2>2, <2>3, <2>4 DEF IInv, Tables, InsertsExclude
<1>9. ToldOnce'
  BY <1>3, <1>5, <1>6 DEF IInv, Tables, ToldOnce, Ended
<1>10. PassesOK' /\ SlotsOK'
  <2>1. /\ \A p \in Pass : pass[p].todo \cup pass[p].at \subseteq Key
        /\ \A w \in Slot : slot[w].on \subseteq Key
    BY DEF IInv, Tables, ShapeOK, PassState, SlotState
  <2>2. QED
    BY <1>2, <1>3, <2>1 DEF IInv, PassesOK, SlotsOK
<1>11. LastAttempts'
  BY <1>2, <1>3 DEF IInv, LastAttempts, LastHandler
<1>12. QED
  BY <1>7, <1>8, <1>9, <1>10, <1>11 DEF IInv, Tables

LEMMA CallEndStep ==
  ASSUME IInv, NEW c \in Call, CallAbort(c) \/ CallReread(c)
  PROVE  IInv'
<1>1. PICK state \in {"existing", "error"} : Step(c, state)
  BY DEF CallAbort, CallReread
<1>2. state \in CallState \ {"commit", "created"}
  BY DEF CallState
<1>3. /\ UNCHANGED <<kind, live, expiry, row, outbox, job, pass, slot, told>>
      /\ faults' \in {faults, faults + 1} /\ faults' \in 0..MaxFaults
  BY ConstantsAssumption DEF CallAbort, CallReread, Fault, IInv, Tables, ShapeOK
<1>4. QED
  BY <1>1, <1>2, <1>3, CallMoves

-----------------------------------------------------------------------------
\* Retention.
LEMMA ExpiryStep ==
  ASSUME IInv, NEW e \in Event, ExpirySelect(e) \/ ExpiryLock(e) \/ ExpiryDelete(e)
  PROVE  IInv'
<1>1. UNCHANGED <<kind, row, outbox, job, call, pass, slot, told, faults>>
  BY DEF ExpirySelect, ExpiryLock, ExpiryDelete
<1>2. /\ live \in [Event -> BOOLEAN] /\ expiry \in [Event -> {"idle", "seen", "locked"}]
      /\ live' \in [Event -> BOOLEAN] /\ expiry' \in [Event -> {"idle", "seen", "locked"}]
      /\ \A f \in Event \ {e} : live'[f] = live[f] /\ expiry'[f] = expiry[f]
  BY DEF IInv, Tables, ShapeOK, ExpirySelect, ExpiryLock, ExpiryDelete, Eligible
<1>3. expiry'[e] = "locked" => SharedBy(e) = {} /\ live'[e] = live[e]
  BY <1>2 DEF ExpirySelect, ExpiryLock, ExpiryDelete
<1>4. live'[e] # live[e] => expiry[e] = "locked" /\ (~live'[e] => Eligible(e))
  BY <1>2 DEF ExpirySelect, ExpiryLock, ExpiryDelete
<1>5. SharedBy(e) = {} => \A c \in Call : call[c] = "commit" => EventOf[KeyOf[c]] # e
  <2> SUFFICES ASSUME NEW c \in Call, call[c] = "commit", EventOf[KeyOf[c]] = e
               PROVE  c \in SharedBy(e)
    OBVIOUS
  <2>1. KeyOf[c] \in {d \in Key : EventOf[d] = e} /\ c \in Inserting(KeyOf[c])
    BY ConstantsAssumption DEF Inserting
  <2>2. QED
    BY <2>1 DEF SharedBy
<1>6. \A k \in Key : EventOf[k] \in Event
  BY ConstantsAssumption
<1>7. \A c \in Call : KeyOf[c] \in Key
  BY ConstantsAssumption
<1>8. ShapeOK' /\ RowsAgree' /\ ToldOnce'
  BY <1>1, <1>2 DEF IInv, Tables, ShapeOK, RowsAgree, ToldOnce
<1>9. InsertsExclude'
  <2>1. ASSUME NEW c \in Call, call[c] = "commit"
        PROVE  live'[EventOf[KeyOf[c]]] /\ expiry'[EventOf[KeyOf[c]]] # "locked"
    <3>1. live[EventOf[KeyOf[c]]] /\ expiry[EventOf[KeyOf[c]]] # "locked"
      BY <2>1 DEF IInv, Tables, InsertsExclude
    <3>2. CASE EventOf[KeyOf[c]] = e
      BY <1>2, <1>3, <1>4, <1>5, <2>1, <3>1, <3>2
    <3>3. CASE EventOf[KeyOf[c]] # e
      BY <1>2, <1>6, <1>7, <3>1, <3>3
    <3>4. QED
      BY <3>2, <3>3
  <2>2. QED
    BY <1>1, <2>1 DEF IInv, Tables, InsertsExclude
<1>10. Evidence'
  <2>1. ASSUME NEW k \in Key, kind[k] = "reproduction", row[k] = "pending"
        PROVE  live'[EventOf[k]]
    <3>1. live[EventOf[k]] /\ (EventOf[k] = e => ~Eligible(e))
      BY <2>1 DEF IInv, Tables, Evidence, Eligible, IsPending
    <3>2. QED
      BY <1>2, <1>4, <1>6, <3>1
  <2>2. QED
    BY <1>1, <2>1 DEF Evidence
<1>11. PassesOK' /\ SlotsOK' /\ LastAttempts'
  BY <1>1 DEF IInv, PassesOK, SlotsOK, LastAttempts, LastHandler
<1>12. QED
  BY <1>8, <1>9, <1>10, <1>11 DEF IInv, Tables

-----------------------------------------------------------------------------
\* The passes.

\* A pass that goes on in its own memory.
LEMMA PassMoves ==
  ASSUME IInv, NEW p \in Pass, NEW s \in PassState, pass' = [pass EXCEPT ![p] = s],
         \A k \in s.todo \cup s.at : row[k] # "none",
         s.pc = "mark" => \A k \in s.at : job[k].state # "none",
         faults' \in {faults, faults + 1}, faults' \in 0..MaxFaults,
         UNCHANGED <<kind, live, expiry, row, outbox, job, call, slot, told>>
  PROVE  IInv'
<1>1. pass' \in [Pass -> PassState] /\ pass'[p] = s /\ \A q \in Pass \ {p} : pass'[q] = pass[q]
  BY DEF IInv, Tables, ShapeOK
<1>2. Tables'
  BY <1>1 DEF IInv, Tables, ShapeOK, RowsAgree, InsertsExclude, Evidence, ToldOnce
<1>3. PassesOK'
  BY <1>1 DEF IInv, PassesOK
<1>4. faults' = 0 => faults = 0
  BY DEF IInv, Tables, ShapeOK
<1>5. SlotsOK' /\ LastAttempts'
  BY <1>4 DEF IInv, SlotsOK, LastAttempts, LastHandler
<1>6. QED
  BY <1>2, <1>3, <1>5 DEF IInv

\* What a pass is, and what it becomes.
LEMMA PassFacts ==
  ASSUME IInv, NEW p \in Pass
  PROVE  /\ pass[p] \in PassState /\ pass \in [Pass -> PassState]
         /\ \A k \in pass[p].todo \cup pass[p].at : row[k] # "none"
         /\ IdlePass \in PassState /\ IdlePass.todo = {} /\ IdlePass.at = {}
         /\ IdlePass.pc = "idle"
         /\ faults \in 0..MaxFaults
         /\ \A q \in Kind : \A B \in Batch(Waiting(q)) :
              B \subseteq Key /\ \A k \in B : row[k] # "none"
<1>1. pass[p] \in PassState /\ pass \in [Pass -> PassState] /\ faults \in 0..MaxFaults
  BY DEF IInv, Tables, ShapeOK
<1>2. \A k \in pass[p].todo \cup pass[p].at : row[k] # "none"
  BY DEF IInv, PassesOK
<1>3. IdlePass \in PassState /\ IdlePass.todo = {} /\ IdlePass.at = {} /\ IdlePass.pc = "idle"
  BY DEF IdlePass, PassState, Kind
<1>4. ASSUME NEW q \in Kind, NEW B \in Batch(Waiting(q))
      PROVE  B \subseteq Key /\ \A k \in B : row[k] # "none"
  <2>1. B \subseteq Waiting(q)
    BY <1>4 DEF Batch
  <2>2. QED
    BY <2>1 DEF Waiting, IInv, Tables, RowsAgree
<1>5. QED
  BY <1>1, <1>2, <1>3, <1>4

LEMMA ClaimStep ==
  ASSUME IInv, NEW p \in Pass, ClaimPending(p) \/ ListStale(p) \/ ClaimStale(p)
  PROVE  IInv'
<1>1. UNCHANGED <<kind, live, expiry, row, outbox, job, call, slot, told, faults>>
  BY DEF ClaimPending, ListStale, ClaimStale
<1>2. PICK s \in PassState :
        /\ pass' = [pass EXCEPT ![p] = s] /\ s.pc # "mark"
        /\ \A k \in s.todo \cup s.at : row[k] # "none"
  <2>1. CASE ClaimPending(p)
    <3>1. PICK q \in Kind, B \in SUBSET Key :
            /\ pass' = [pass EXCEPT ![p] = [pc |-> "publish", of |-> q, todo |-> B, at |-> {}]]
            /\ \A k \in B : row[k] # "none"
      BY <2>1, PassFacts DEF ClaimPending
    <3>2. [pc |-> "publish", of |-> q, todo |-> B, at |-> {}] \in PassState
      BY DEF PassState
    <3>3. QED
      BY <3>1, <3>2
  <2>2. CASE ListStale(p)
    <3>1. PICK q \in Kind :
            pass' = [pass EXCEPT ![p] = [pc |-> "listed", of |-> q, todo |-> {}, at |-> {}]]
      BY <2>2 DEF ListStale
    <3>2. [pc |-> "listed", of |-> q, todo |-> {}, at |-> {}] \in PassState
      BY DEF PassState
    <3>3. QED
      BY <3>1, <3>2
  <2>3. CASE ClaimStale(p)
    <3>1. pass[p].of \in Kind
      BY PassFacts DEF PassState
    <3>2. CASE pass' = [pass EXCEPT ![p] = IdlePass]
      BY <3>2, PassFacts
    <3>3. CASE \E B \in Batch(Waiting(pass[p].of)) : At(p, "publish", B, {})
      <4>1. PICK B \in Batch(Waiting(pass[p].of)) : At(p, "publish", B, {})
        BY <3>3
      <4>2. B \subseteq Key /\ \A k \in B : row[k] # "none"
        BY <3>1, PassFacts
      <4>3. pass' = [pass EXCEPT ![p] =
              [pc |-> "publish", of |-> pass[p].of, todo |-> B, at |-> {}]]
        BY <4>1 DEF At
      <4>4. [pc |-> "publish", of |-> pass[p].of, todo |-> B, at |-> {}] \in PassState
        BY <3>1, <4>2 DEF PassState
      <4>5. QED
        BY <4>2, <4>3, <4>4
    <3>4. QED
      BY <2>3, <3>2, <3>3 DEF ClaimStale
  <2>4. QED
    BY <2>1, <2>2, <2>3
<1>3. QED
  BY <1>1, <1>2, PassFacts, PassMoves

LEMMA PassEndStep ==
  ASSUME IInv, NEW p \in Pass,
         MarkFailed(p) \/ RecordFailure(p) \/ RecordRefused(p) \/ PassAbort(p)
  PROVE  IInv'
<1>1. /\ UNCHANGED <<kind, live, expiry, row, outbox, job, call, slot, told>>
      /\ faults' \in {faults, faults + 1} /\ faults' \in 0..MaxFaults
  BY PassFacts, ConstantsAssumption DEF MarkFailed, RecordFailure, RecordRefused, PassAbort, Fault
<1>2. PICK s \in PassState :
        /\ pass' = [pass EXCEPT ![p] = s] /\ s.pc # "mark"
        /\ \A k \in s.todo \cup s.at : row[k] # "none"
  <2>1. \/ pass' = [pass EXCEPT ![p] = IdlePass]
        \/ At(p, "record", pass[p].todo, pass[p].at)
        \/ At(p, "publish", pass[p].todo, {})
    BY DEF MarkFailed, RecordFailure, RecordRefused, PassAbort, Advance
  <2>2. CASE pass' = [pass EXCEPT ![p] = IdlePass]
    BY <2>2, PassFacts
  <2>3. ASSUME NEW pc \in {"record", "publish"}, NEW at \in SUBSET pass[p].at,
               At(p, pc, pass[p].todo, at)
        PROVE  \E s \in PassState :
                 /\ pass' = [pass EXCEPT ![p] = s] /\ s.pc # "mark"
                 /\ \A k \in s.todo \cup s.at : row[k] # "none"
    <3> DEFINE s == [pc |-> pc, of |-> pass[p].of, todo |-> pass[p].todo, at |-> at]
    <3>1. s \in PassState
      BY PassFacts DEF PassState
    <3>2. pass' = [pass EXCEPT ![p] = s]
      BY <2>3 DEF At
    <3>3. QED
      BY <3>1, <3>2, PassFacts
  <2>4. QED
    BY <2>1, <2>2, <2>3
<1>3. QED
  BY <1>1, <1>2, PassMoves

\* What the job operators do to a job.
LEMMA JobOps ==
  ASSUME NEW j \in JQ!Job, j.state = "retry" => j.retries < RetryLimit,
         j.state = "failed" => j.retries = RetryLimit
  PROVE  /\ JQ!Send(j) \in JQ!Job /\ JQ!Send(j).state # "none"
         /\ j.state # "none" => JQ!Send(j).state = j.state /\ JQ!Send(j).retries = j.retries
         /\ j.state = "none" => JQ!Send(j).state = "created"
         /\ JQ!Fetchable(j) => /\ JQ!Fetch(j) \in JQ!Job /\ JQ!Fetch(j).state = "active"
                               /\ j.state # "none"
         /\ JQ!Complete(j) \in JQ!Job
         /\ j.state # "active" => JQ!Complete(j) = j
         /\ j.state = "active" => JQ!Complete(j).state = "completed"
         /\ JQ!Fail(j) \in JQ!Job
         /\ j.state # "active" => JQ!Fail(j) = j
         /\ j.state = "active" /\ j.retries < RetryLimit =>
              JQ!Fail(j).state = "retry" /\ JQ!Fail(j).retries = j.retries
         /\ j.state = "active" /\ ~(j.retries < RetryLimit) =>
              JQ!Fail(j).state = "failed" /\ JQ!Fail(j).retries = RetryLimit
<1> USE ConstantsAssumption DEF JQ!Job, JQ!JobState, JQ!Exists
<1>1. /\ JQ!Send(j) \in JQ!Job /\ JQ!Send(j).state # "none"
      /\ j.state # "none" => JQ!Send(j).state = j.state /\ JQ!Send(j).retries = j.retries
      /\ j.state = "none" => JQ!Send(j).state = "created"
  BY DEF JQ!Send
<1>2. JQ!Fetchable(j) => /\ JQ!Fetch(j) \in JQ!Job /\ JQ!Fetch(j).state = "active"
                         /\ j.state # "none"
  BY DEF JQ!Fetch, JQ!Fetchable
<1>3. /\ JQ!Complete(j) \in JQ!Job
      /\ j.state # "active" => JQ!Complete(j) = j
      /\ j.state = "active" => JQ!Complete(j).state = "completed"
  BY DEF JQ!Complete
<1>4. /\ JQ!Fail(j) \in JQ!Job
      /\ j.state # "active" => JQ!Fail(j) = j
      /\ j.state = "active" /\ j.retries < RetryLimit =>
           JQ!Fail(j).state = "retry" /\ JQ!Fail(j).retries = j.retries
      /\ j.state = "active" /\ ~(j.retries < RetryLimit) =>
           JQ!Fail(j).state = "failed" /\ JQ!Fail(j).retries = RetryLimit
  BY DEF JQ!Fail
<1>5. QED
  BY <1>1, <1>2, <1>3, <1>4

LEMMA JobFacts ==
  ASSUME IInv, NEW k \in Key
  PROVE  /\ job[k] \in JQ!Job /\ job \in [Key -> JQ!Job]
         /\ job[k].state = "retry" => job[k].retries < RetryLimit
         /\ job[k].state = "failed" => job[k].retries = RetryLimit
BY DEF IInv, Tables, ShapeOK, LastAttempts

\* A job is created if it is missing; the row waits to be marked or recorded.
LEMMA PublishStep ==
  ASSUME IInv, NEW p \in Pass, PublishOk(p) \/ PublishFailed(p)
  PROVE  IInv'
<1>1. pass[p] \in PassState /\ pass \in [Pass -> PassState]
      /\ pass[p].todo \subseteq Key
  BY PassFacts DEF PassState
<1>2. PICK k \in pass[p].todo, pc \in {"mark", "record"} :
        /\ At(p, pc, pass[p].todo \ {k}, {k})
        /\ pc = "mark" => job' = [job EXCEPT ![k] = JQ!Send(job[k])]
        /\ job' = job \/ job' = [job EXCEPT ![k] = JQ!Send(job[k])]
  BY DEF PublishOk, PublishFailed
<1>3. k \in Key /\ row[k] # "none"
  BY <1>1, PassFacts
<1>4. UNCHANGED <<kind, live, expiry, row, outbox, call, slot, told, faults>>
  BY DEF PublishOk, PublishFailed
<1> DEFINE s == [pc |-> pc, of |-> pass[p].of, todo |-> pass[p].todo \ {k}, at |-> {k}]
<1>5. s \in PassState /\ pass' = [pass EXCEPT ![p] = s]
  BY <1>1, <1>2, <1>3 DEF At, PassState
<1>6. /\ pass' \in [Pass -> PassState] /\ pass'[p] = s
      /\ \A q \in Pass \ {p} : pass'[q] = pass[q]
  BY <1>1, <1>5
<1>7. /\ job' \in [Key -> JQ!Job]
      /\ \A l \in Key \ {k} : job'[l] = job[l]
      /\ pc = "mark" => job'[k].state # "none"
      /\ job[k].state # "none" => job'[k].state = job[k].state /\ job'[k].retries = job[k].retries
      /\ job[k].state = "none" => job'[k].state \in {"none", "created"}
  BY <1>2, <1>3, JobFacts, JobOps
<1>8. ShapeOK' /\ InsertsExclude' /\ Evidence' /\ ToldOnce'
  BY <1>4, <1>6, <1>7 DEF IInv, Tables, ShapeOK, InsertsExclude, Evidence, ToldOnce
<1>9. RowsAgree'
  BY <1>3, <1>4, <1>7 DEF IInv, Tables, RowsAgree
<1>10. \A l \in Key : job[l].state # "none" => job'[l].state # "none"
  BY <1>7
<1>11. PassesOK'
  <2>1. \A q \in Pass \ {p} : pass[q].at \subseteq Key
    BY <1>1 DEF PassState
  <2>2. s.pc = pc /\ s.at = {k} /\ s.todo \subseteq pass[p].todo
    OBVIOUS
  <2>3. QED
    BY <1>3, <1>4, <1>6, <1>7, <1>10, <2>1, <2>2 DEF IInv, PassesOK
<1>12. SlotsOK'
  <2>1. \A w \in Slot : slot[w].on \subseteq Key
    BY DEF IInv, Tables, ShapeOK, SlotState
  <2>2. QED
    BY <1>4, <1>10, <2>1 DEF IInv, SlotsOK
<1>13. LastAttempts'
  <2> SUFFICES ASSUME NEW l \in Key
               PROVE  /\ job'[l].state = "failed" => job'[l].retries = RetryLimit
                      /\ job'[l].state = "retry" => job'[l].retries < RetryLimit
                      /\ /\ faults = 0
                         /\ kind[l] = "analysis"
                         /\ row[l] = "pending"
                         /\ job'[l].state \in {"active", "failed"}
                         /\ job'[l].retries = RetryLimit
                         => \E w \in Slot : LastHandler(l, w)
    BY <1>4 DEF LastAttempts, LastHandler
  <2>1. \/ job'[l].state = job[l].state /\ job'[l].retries = job[l].retries
        \/ job'[l].state \in {"none", "created"}
    BY <1>7
  <2>2. QED
    BY <2>1 DEF IInv, LastAttempts
<1>14. QED
  BY <1>8, <1>9, <1>11, <1>12, <1>13 DEF IInv, Tables

LEMMA MarkStep == ASSUME IInv, NEW p \in Pass, Mark(p) PROVE IInv'
<1>1. /\ UNCHANGED <<kind, live, expiry, row, job, call, slot, told, faults>>
      /\ pass[p].pc = "mark"
      /\ outbox' = [k \in Key |-> IF k \in pass[p].at THEN "dispatched" ELSE outbox[k]]
  BY DEF Mark
<1>2. \A k \in pass[p].at : row[k] # "none" /\ job[k].state # "none"
  BY <1>1 DEF IInv, PassesOK
<1>3. PICK s \in PassState :
        /\ pass' = [pass EXCEPT ![p] = s] /\ s.pc # "mark" /\ s.at = {}
        /\ s.todo \subseteq pass[p].todo
  <2>1. CASE pass' = [pass EXCEPT ![p] = IdlePass]
    BY <2>1, PassFacts
  <2>2. CASE At(p, "publish", pass[p].todo, {})
    <3> DEFINE s == [pc |-> "publish", of |-> pass[p].of, todo |-> pass[p].todo, at |-> {}]
    <3>1. s \in PassState
      BY PassFacts DEF PassState
    <3>2. pass' = [pass EXCEPT ![p] = s]
      BY <2>2 DEF At
    <3>3. QED
      BY <3>1, <3>2
  <2>3. QED
    BY <2>1, <2>2 DEF Mark, Advance
<1>4. /\ pass' \in [Pass -> PassState] /\ pass'[p] = s
      /\ \A q \in Pass \ {p} : pass'[q] = pass[q]
  BY <1>3, PassFacts
<1>5. outbox' \in [Key -> OutboxState]
  BY <1>1 DEF IInv, Tables, ShapeOK, OutboxState
<1>6. ShapeOK' /\ InsertsExclude' /\ Evidence' /\ ToldOnce'
  BY <1>1, <1>4, <1>5 DEF IInv, Tables, ShapeOK, InsertsExclude, Evidence, ToldOnce
<1>7. RowsAgree'
  BY <1>1, <1>2 DEF IInv, Tables, RowsAgree
<1>8. PassesOK'
  <2>1. \A k \in s.todo \cup s.at : row[k] # "none"
    BY <1>3, PassFacts
  <2>2. QED
    BY <1>1, <1>3, <1>4, <2>1 DEF IInv, PassesOK
<1>9. SlotsOK' /\ LastAttempts'
  BY <1>1 DEF IInv, SlotsOK, LastAttempts, LastHandler
<1>10. QED
  BY <1>6, <1>7, <1>8, <1>9 DEF IInv, Tables

-----------------------------------------------------------------------------
\* The consumers.
LEMMA SlotFacts ==
  ASSUME IInv, NEW w \in Slot
  PROVE  /\ slot[w] \in SlotState /\ slot \in [Slot -> SlotState]
         /\ slot[w].on \subseteq Key
         /\ \A k \in slot[w].on : job[k].state # "none" /\ (slot[w].pc = "ack" => row[k] \in Ended)
         /\ \A k, l \in slot[w].on : k = l
         /\ IdleSlot \in SlotState /\ IdleSlot.on = {} /\ IdleSlot.pc = "idle"
<1>1. slot[w] \in SlotState /\ slot \in [Slot -> SlotState]
  BY DEF IInv, Tables, ShapeOK
<1>2. slot[w].on \subseteq Key /\ \A k, l \in slot[w].on : k = l
  BY <1>1 DEF SlotState
<1>3. \A k \in slot[w].on : job[k].state # "none" /\ (slot[w].pc = "ack" => row[k] \in Ended)
  BY DEF IInv, SlotsOK
<1>4. IdleSlot \in SlotState /\ IdleSlot.on = {} /\ IdleSlot.pc = "idle"
  BY DEF IdleSlot, SlotState
<1>5. QED
  BY <1>1, <1>2, <1>3, <1>4

\* A handler that goes on in its own memory.
LEMMA SlotMoves ==
  ASSUME IInv, NEW w \in Slot, NEW s \in SlotState, slot' = [slot EXCEPT ![w] = s],
         \A k \in s.on : /\ job[k].state # "none" /\ s.pc # "idle"
                         /\ s.pc = "ack" => row[k] \in Ended,
         faults' = faults \/ faults' = faults + 1, faults' \in 0..MaxFaults,
         faults' = 0 => \A k \in Key : kind[k] = "analysis" /\ LastHandler(k, w) =>
                          k \in s.on /\ s.final /\ s.pc \in {"build", "settle"},
         UNCHANGED <<kind, live, expiry, row, outbox, job, call, pass, told>>
  PROVE  IInv'
<1>1. slot' \in [Slot -> SlotState] /\ slot'[w] = s /\ \A v \in Slot \ {w} : slot'[v] = slot[v]
  BY SlotFacts
<1>2. Tables'
  BY <1>1 DEF IInv, Tables, ShapeOK, RowsAgree, InsertsExclude, Evidence, ToldOnce
<1>3. PassesOK'
  BY DEF IInv, PassesOK
<1>4. SlotsOK'
  BY <1>1 DEF IInv, SlotsOK
<1>5. faults' = 0 => faults = 0
  BY DEF IInv, Tables, ShapeOK
<1>6. LastAttempts'
  <2>1. ASSUME NEW k \in Key, faults' = 0, kind[k] = "analysis", row[k] = "pending",
               job[k].state \in {"active", "failed"}, job[k].retries = RetryLimit
        PROVE  \E v \in Slot : LastHandler(k, v)'
    <3>1. PICK v \in Slot : LastHandler(k, v)
      BY <1>5, <2>1 DEF IInv, LastAttempts
    <3>2. LastHandler(k, v)'
      BY <1>1, <2>1, <3>1 DEF LastHandler
    <3>3. QED
      BY <3>2
  <2>2. QED
    BY <2>1 DEF IInv, LastAttempts
<1>7. QED
  BY <1>2, <1>3, <1>4, <1>6 DEF IInv

LEMMA BuildStep ==
  ASSUME IInv, NEW w \in Slot, GenerateTest(w) \/ AskModel(w) \/ ProviderOutage(w)
  PROVE  IInv'
<1>1. /\ UNCHANGED <<kind, live, expiry, row, outbox, job, call, pass, told, faults>>
      /\ slot[w].pc = "build" /\ faults \in 0..MaxFaults
  BY DEF GenerateTest, AskModel, ProviderOutage, IInv, Tables, ShapeOK
<1>2. PICK k \in slot[w].on : TRUE
  BY DEF GenerateTest, AskModel, ProviderOutage
<1>3. PICK pc \in {"settle", "nack"}, plan \in {"none"} \cup Ended :
        /\ Slotted(w, pc, plan)
        /\ pc = "nack" => kind[k] = "reproduction" \/ ~slot[w].final
  <2>1. CASE GenerateTest(w)
    BY <1>2, <2>1, SlotFacts DEF GenerateTest
  <2>2. CASE AskModel(w)
    BY <2>2 DEF AskModel
  <2>3. CASE ProviderOutage(w)
    BY <2>3 DEF ProviderOutage, Ended
  <2>4. QED
    BY <2>1, <2>2, <2>3
<1> DEFINE s == [pc |-> pc, on |-> slot[w].on, final |-> slot[w].final, plan |-> plan]
<1>4. s \in SlotState /\ slot' = [slot EXCEPT ![w] = s]
  BY <1>3, SlotFacts DEF SlotState, Slotted
<1>5. \A l \in Key : kind[l] = "analysis" /\ LastHandler(l, w) =>
         l \in s.on /\ s.final /\ s.pc \in {"build", "settle"}
  BY <1>2, <1>3, SlotFacts DEF LastHandler
<1>6. \A l \in s.on : job[l].state # "none" /\ s.pc \notin {"idle", "ack"}
  BY SlotFacts
<1>7. QED
  BY <1>1, <1>4, <1>5, <1>6, SlotMoves

LEMMA SlotFaultStep ==
  ASSUME IInv, NEW w \in Slot, HandlerThrow(w) \/ SlotCrash(w)
  PROVE  IInv'
<1>1. /\ UNCHANGED <<kind, live, expiry, row, outbox, job, call, pass, told>>
      /\ faults' = faults + 1 /\ faults' \in 0..MaxFaults /\ faults' # 0
  BY ConstantsAssumption DEF HandlerThrow, SlotCrash, Fault, IInv, Tables, ShapeOK
<1>2. CASE HandlerThrow(w)
  <2> DEFINE s == [pc |-> "nack", on |-> slot[w].on, final |-> slot[w].final, plan |-> "none"]
  <2>1. s \in SlotState /\ slot' = [slot EXCEPT ![w] = s]
    BY <1>2, SlotFacts DEF SlotState, Slotted, HandlerThrow
  <2>2. \A l \in s.on : job[l].state # "none" /\ s.pc \notin {"idle", "ack"}
    BY SlotFacts
  <2>3. QED
    BY <1>1, <2>1, <2>2, SlotMoves
<1>3. CASE SlotCrash(w)
  <2>1. slot' = [slot EXCEPT ![w] = IdleSlot]
    BY <1>3 DEF SlotCrash
  <2>2. QED
    BY <1>1, <2>1, SlotFacts, SlotMoves
<1>4. QED
  BY <1>2, <1>3

LEMMA FetchStep == ASSUME IInv, NEW w \in Slot, NEW k \in Key, FetchJob(w, k) PROVE IInv'
<1>1. /\ UNCHANGED <<kind, live, expiry, row, outbox, call, pass, told, faults>>
      /\ slot[w].pc = "idle" /\ JQ!Fetchable(job[k])
      /\ job' = [job EXCEPT ![k] = JQ!Fetch(job[k])]
  BY DEF FetchJob
<1>2. PICK pc \in {"ack", "settle", "build"}, final \in BOOLEAN, plan \in {"none"} \cup Ended :
        /\ pc = "ack" <=> ~IsPending(k)
        /\ final <=> JQ!Fetch(job[k]).retries >= RetryLimit
        /\ slot' = [slot EXCEPT ![w] = [pc |-> pc, on |-> {k}, plan |-> plan, final |-> final]]
  <2> DEFINE last == JQ!Fetch(job[k]).retries >= RetryLimit
  <2>1. last \in BOOLEAN
    OBVIOUS
  <2>2. PICK pc \in {"ack", "settle", "build"} :
          /\ pc = "ack" <=> ~IsPending(k)
          /\ slot' = [slot EXCEPT ![w] =
               [pc |-> pc, on |-> {k}, plan |-> IF pc = "settle" THEN "failed" ELSE "none",
                final |-> last]]
    BY DEF FetchJob
  <2>3. (IF pc = "settle" THEN "failed" ELSE "none") \in {"none"} \cup Ended
    BY DEF Ended
  <2> HIDE DEF last
  <2>4. QED
    BY <2>1, <2>2, <2>3 DEF last
<1>3. /\ JQ!Fetch(job[k]) \in JQ!Job /\ JQ!Fetch(job[k]).state = "active"
      /\ job[k].state # "none" /\ job \in [Key -> JQ!Job]
  BY <1>1, JobFacts, JobOps
<1>4. /\ job' \in [Key -> JQ!Job] /\ job'[k] = JQ!Fetch(job[k])
      /\ \A l \in Key \ {k} : job'[l] = job[l]
  BY <1>1, <1>3
<1> DEFINE s == [pc |-> pc, on |-> {k}, plan |-> plan, final |-> final]
<1>5. /\ slot' \in [Slot -> SlotState] /\ slot'[w] = s
      /\ \A v \in Slot \ {w} : slot'[v] = slot[v]
  <2>1. s \in SlotState
    BY DEF SlotState
  <2>2. QED
    BY <1>2, <2>1, SlotFacts
<1>6. row[k] # "none" /\ row[k] \in Status
  BY <1>3 DEF IInv, Tables, RowsAgree, ShapeOK
<1>7. ShapeOK' /\ InsertsExclude' /\ Evidence' /\ ToldOnce'
  BY <1>1, <1>4, <1>5 DEF IInv, Tables, ShapeOK, InsertsExclude, Evidence, ToldOnce
<1>8. RowsAgree'
  BY <1>1, <1>3, <1>4 DEF IInv, Tables, RowsAgree
<1>9. \A l \in Key : job[l].state # "none" => job'[l].state # "none"
  BY <1>3, <1>4
<1>10. PassesOK'
  <2>1. \A p \in Pass : pass[p].at \subseteq Key
    BY DEF IInv, Tables, ShapeOK, PassState
  <2>2. QED
    BY <1>1, <1>9, <2>1 DEF IInv, PassesOK
<1>11. SlotsOK'
  <2>1. \A v \in Slot : slot[v].on \subseteq Key
    BY SlotFacts
  <2>2. s.pc = pc /\ s.on = {k} /\ (pc = "ack" => row[k] \in Ended)
    BY <1>2, <1>6 DEF IsPending, Status
  <2>3. QED
    BY <1>1, <1>3, <1>4, <1>5, <1>9, <2>1, <2>2 DEF IInv, SlotsOK
<1>12. LastAttempts'
  <2>1. ASSUME NEW l \in Key, faults = 0, kind[l] = "analysis", row[l] = "pending",
               job'[l].state \in {"active", "failed"}, job'[l].retries = RetryLimit
        PROVE  \E v \in Slot : LastHandler(l, v)'
    <3>1. CASE l = k
      <4>1. final /\ pc # "ack"
        BY <1>2, <1>4, <2>1, <3>1, ConstantsAssumption DEF IsPending
      <4>2. LastHandler(l, w)'
        BY <1>5, <3>1, <4>1 DEF LastHandler
      <4>3. QED
        BY <4>2
    <3>2. CASE l # k
      <4>1. PICK v \in Slot : LastHandler(l, v)
        BY <1>4, <2>1, <3>2 DEF IInv, LastAttempts
      <4>2. v # w
        BY <1>1, <4>1 DEF LastHandler
      <4>3. LastHandler(l, v)'
        BY <1>5, <4>1, <4>2 DEF LastHandler
      <4>4. QED
        BY <4>3
    <3>3. QED
      BY <3>1, <3>2
  <2>2. \A l \in Key : /\ job'[l].state = "failed" => job'[l].retries = RetryLimit
                       /\ job'[l].state = "retry" => job'[l].retries < RetryLimit
    BY <1>3, <1>4 DEF IInv, LastAttempts
  <2>3. QED
    BY <1>1, <2>1, <2>2 DEF LastAttempts
<1>13. QED
  BY <1>7, <1>8, <1>10, <1>11, <1>12 DEF IInv, Tables

\* An ended attempt: the job completes, is retried or fails, and the handler that
\* reported, if there is one, is idle again.
LEMMA JobEnds ==
  ASSUME IInv, NEW k \in Key,
         \/ job' = [job EXCEPT ![k] = JQ!Fail(job[k])]
         \/ row[k] \in Ended /\ job' = [job EXCEPT ![k] = JQ!Complete(job[k])],
         UNCHANGED <<kind, live, expiry, row, outbox, call, pass, told, faults>>,
         \/ slot' = slot
         \/ \E w \in Slot : /\ slot' = [slot EXCEPT ![w] = IdleSlot]
                            /\ slot[w].pc \in {"ack", "nack"}
  PROVE  IInv'
<1>1. /\ job[k] \in JQ!Job /\ job \in [Key -> JQ!Job]
      /\ job[k].state = "retry" => job[k].retries < RetryLimit
      /\ job[k].state = "failed" => job[k].retries = RetryLimit
      /\ job[k].retries \in 0..RetryLimit
  BY JobFacts DEF JQ!Job
<1>2. PICK j \in JQ!Job :
        /\ job' = [job EXCEPT ![k] = j]
        /\ j.state = "none" <=> job[k].state = "none"
        /\ j.state = "completed" => row[k] \in Ended
        /\ j.state = "failed" => j.retries = RetryLimit
        /\ j.state = "retry" => j.retries < RetryLimit
        /\ row[k] = "pending" /\ j.state \in {"active", "failed"} =>
             job[k].state \in {"active", "failed"} /\ job[k].retries = RetryLimit
  <2>1. job[k].state = "completed" => row[k] \in Ended
    BY DEF IInv, Tables, RowsAgree
  <2>2. \/ job[k].state # "active" /\ job' = [job EXCEPT ![k] = job[k]]
        \/ job[k].state = "active" /\ row[k] \in Ended
             /\ job' = [job EXCEPT ![k] = JQ!Complete(job[k])]
        \/ job[k].state = "active" /\ job' = [job EXCEPT ![k] = JQ!Fail(job[k])]
    BY <1>1, JobOps
  <2>3. CASE job[k].state # "active" /\ job' = [job EXCEPT ![k] = job[k]]
    BY <1>1, <2>1, <2>3
  <2>4. CASE job[k].state = "active" /\ row[k] \in Ended
             /\ job' = [job EXCEPT ![k] = JQ!Complete(job[k])]
    <3>1. JQ!Complete(job[k]) \in JQ!Job /\ JQ!Complete(job[k]).state = "completed"
      BY <1>1, <2>4, JobOps
    <3>2. QED
      BY <2>4, <3>1
  <2>5. CASE job[k].state = "active" /\ job' = [job EXCEPT ![k] = JQ!Fail(job[k])]
    <3>1. /\ JQ!Fail(job[k]) \in JQ!Job
          /\ JQ!Fail(job[k]).state \in {"retry", "failed"}
          /\ JQ!Fail(job[k]).state = "retry" => JQ!Fail(job[k]).retries < RetryLimit
          /\ JQ!Fail(job[k]).state = "failed" =>
               JQ!Fail(job[k]).retries = RetryLimit /\ job[k].retries = RetryLimit
      BY <1>1, <2>5, JobOps, ConstantsAssumption
    <3>2. QED
      BY <2>5, <3>1
  <2>6. QED
    BY <2>2, <2>3, <2>4, <2>5
<1>3. /\ job' \in [Key -> JQ!Job] /\ job'[k] = j
      /\ \A l \in Key \ {k} : job'[l] = job[l]
      /\ \A l \in Key : job'[l].state = "none" <=> job[l].state = "none"
  BY <1>1, <1>2
<1>4. /\ slot' \in [Slot -> SlotState]
      /\ \A v \in Slot : \/ slot'[v] = slot[v]
                         \/ slot'[v] = IdleSlot /\ slot[v].pc \in {"ack", "nack"}
      /\ IdleSlot.on = {}
      /\ \A v \in Slot : slot[v].on \subseteq Key
  <2>1. slot \in [Slot -> SlotState] /\ IdleSlot \in SlotState /\ IdleSlot.on = {}
        /\ \A v \in Slot : slot[v].on \subseteq Key
    BY SlotFacts DEF IInv, Tables, ShapeOK, IdleSlot, SlotState
  <2>2. QED
    BY <2>1
<1>5. ShapeOK' /\ InsertsExclude' /\ Evidence' /\ ToldOnce'
  BY <1>3, <1>4 DEF IInv, Tables, ShapeOK, InsertsExclude, Evidence, ToldOnce
<1>6. RowsAgree'
  BY <1>2, <1>3 DEF IInv, Tables, RowsAgree
<1>7. PassesOK'
  <2>1. \A p \in Pass : pass[p].at \subseteq Key
    BY DEF IInv, Tables, ShapeOK, PassState
  <2>2. QED
    BY <1>3, <2>1 DEF IInv, PassesOK
<1>8. SlotsOK'
  BY <1>3, <1>4 DEF IInv, SlotsOK
<1>9. LastAttempts'
  <2>1. ASSUME NEW l \in Key, faults = 0, kind[l] = "analysis", row[l] = "pending",
               job'[l].state \in {"active", "failed"}, job'[l].retries = RetryLimit
        PROVE  \E v \in Slot : LastHandler(l, v)'
    <3>1. job[l].state \in {"active", "failed"} /\ job[l].retries = RetryLimit
      BY <1>2, <1>3, <2>1
    <3>2. PICK v \in Slot : LastHandler(l, v)
      BY <2>1, <3>1 DEF IInv, LastAttempts
    <3>3. slot'[v] = slot[v]
      BY <1>4, <3>2 DEF LastHandler
    <3>4. LastHandler(l, v)'
      BY <3>2, <3>3 DEF LastHandler
    <3>5. QED
      BY <3>4
  <2>2. \A l \in Key : /\ job'[l].state = "failed" => job'[l].retries = RetryLimit
                       /\ job'[l].state = "retry" => job'[l].retries < RetryLimit
    BY <1>2, <1>3 DEF IInv, LastAttempts
  <2>3. QED
    BY <2>1, <2>2 DEF LastAttempts
<1>10. QED
  BY <1>5, <1>6, <1>7, <1>8, <1>9 DEF IInv, Tables

LEMMA ReportStep ==
  ASSUME IInv, \/ \E w \in Slot : Report(w)
               \/ \E k \in Key : ExpireJob(k)
  PROVE  IInv'
<1>1. ASSUME NEW w \in Slot, Report(w) PROVE IInv'
  <2>1. PICK k \in slot[w].on :
          \/ slot[w].pc = "ack"  /\ job' = [job EXCEPT ![k] = JQ!Complete(job[k])]
          \/ slot[w].pc = "nack" /\ job' = [job EXCEPT ![k] = JQ!Fail(job[k])]
    BY <1>1 DEF Report
  <2>2. k \in Key /\ (slot[w].pc = "ack" => row[k] \in Ended)
    BY SlotFacts
  <2>3. /\ UNCHANGED <<kind, live, expiry, row, outbox, call, pass, told, faults>>
        /\ slot' = [slot EXCEPT ![w] = IdleSlot] /\ slot[w].pc \in {"ack", "nack"}
    BY <1>1 DEF Report
  <2>4. QED
    BY <2>1, <2>2, <2>3, JobEnds
<1>2. ASSUME NEW k \in Key, ExpireJob(k) PROVE IInv'
  BY <1>2, JobEnds DEF ExpireJob, JQ!Expire
<1>3. QED
  BY <1>1, <1>2

\* The row is ended by whoever finds it pending, and told about then.
LEMMA SettleStep ==
  ASSUME IInv, NEW w \in Slot,
         \/ MarkReproductionReady(w) \/ FailDeterministic(w)
         \/ ApplyTerminalReady(w) \/ ApplyTerminalFailure(w)
  PROVE  IInv'
<1>1. PICK q \in Kind, plan \in Ended, n \in 0..1 :
        /\ Settle(w, q, plan, n)
        /\ n = (IF q = "analysis" \/ plan = "failed" THEN 1 ELSE 0)
  BY DEF MarkReproductionReady, FailDeterministic, ApplyTerminalReady, ApplyTerminalFailure,
         Kind, Ended
<1>2. PICK k \in slot[w].on :
        /\ kind[k] = q
        /\ \/ /\ row[k] = "pending"
              /\ row' = [row EXCEPT ![k] = plan]
              /\ told' = [told EXCEPT ![k] =
                   [requested |-> told[k].requested, ended |-> told[k].ended + 1,
                    notified |-> told[k].notified + n]]
           \/ row[k] # "pending" /\ UNCHANGED <<row, told>>
  BY <1>1 DEF Settle, IsPending
<1>3. /\ UNCHANGED <<kind, live, expiry, outbox, job, call, pass, faults>>
      /\ Slotted(w, "ack", "none") /\ slot[w].pc = "settle"
  BY <1>1 DEF Settle
<1>4. k \in Key /\ job[k].state # "none" /\ row[k] # "none" /\ row[k] \in Status
      /\ told[k] \in Told
  BY SlotFacts DEF IInv, Tables, RowsAgree, ShapeOK
<1>5. /\ row' \in [Key -> Status] /\ row'[k] \in Ended
      /\ \A l \in Key \ {k} : row'[l] = row[l] /\ told'[l] = told[l]
      /\ row[k] = "pending" => row'[k] = plan
      /\ row[k] # "pending" => row'[k] = row[k] /\ told'[k] = told[k]
  BY <1>2, <1>4 DEF IInv, Tables, ShapeOK, Status, Ended
<1>6. row[k] = "pending" => told[k].ended = 0 /\ told[k].notified = 0
  BY <1>4 DEF IInv, Tables, ToldOnce, Ended
<1>7. row[k] = "pending" =>
        told' = [told EXCEPT ![k] = [requested |-> told[k].requested, ended |-> 1, notified |-> n]]
  BY <1>2, <1>6
<1>8. told' \in [Key -> Told]
  <2>1. [requested |-> told[k].requested, ended |-> 1, notified |-> n] \in Told
    BY <1>4 DEF Told
  <2>2. told \in [Key -> Told]
    BY DEF IInv, Tables, ShapeOK
  <2>3. QED
    BY <1>2, <1>7, <2>1, <2>2
<1>9. row[k] = "pending" => /\ told'[k].requested = told[k].requested
                            /\ told'[k].ended = 1 /\ told'[k].notified = n
  BY <1>4, <1>7 DEF IInv, Tables, ShapeOK
<1>10. ToldOnce'
  <2>1. ASSUME NEW l \in Key \ {k}
        PROVE  /\ told'[l].ended = (IF row'[l] \in Ended THEN 1 ELSE 0)
               /\ told'[l].notified =
                    (IF row'[l] \in Ended /\ (kind[l] = "analysis" \/ row'[l] = "failed") THEN 1 ELSE 0)
               /\ told'[l].requested = (IF kind[l] = "analysis" /\ row'[l] # "none" THEN 1 ELSE 0)
    BY <1>5 DEF IInv, Tables, ToldOnce
  <2>2. CASE row[k] # "pending"
    BY <1>3, <1>5, <2>1, <2>2 DEF IInv, Tables, ToldOnce
  <2>3. CASE row[k] = "pending"
    <3>1. told[k].requested = (IF kind[k] = "analysis" THEN 1 ELSE 0)
      BY <1>4 DEF IInv, Tables, ToldOnce
    <3>2. row'[k] = plan /\ kind[k] = q
      BY <1>2, <1>5, <2>3
    <3>3. QED
      BY <1>1, <1>3, <1>9, <2>1, <2>3, <3>1, <3>2 DEF ToldOnce, Ended
  <2>4. QED
    BY <2>2, <2>3
<1> DEFINE s == [pc |-> "ack", on |-> slot[w].on, final |-> slot[w].final, plan |-> "none"]
<1>11. /\ slot' \in [Slot -> SlotState] /\ slot'[w] = s
       /\ \A v \in Slot \ {w} : slot'[v] = slot[v]
  <2>1. s \in SlotState /\ slot' = [slot EXCEPT ![w] = s]
    BY <1>3, SlotFacts DEF SlotState, Slotted
  <2>2. QED
    BY <2>1, SlotFacts
<1>12. ShapeOK'
  BY <1>3, <1>5, <1>8, <1>11 DEF IInv, Tables, ShapeOK
<1>13. \A l \in Key : /\ row'[l] = "none" <=> row[l] = "none"
                      /\ row[l] \in Ended => row'[l] = row[l]
                      /\ row'[l] = "pending" => row[l] = "pending" /\ l # k
  BY <1>4, <1>5 DEF Ended
<1>14. RowsAgree' /\ Evidence' /\ InsertsExclude'
  <2>1. \A c \in Call : KeyOf[c] \in Key
    BY ConstantsAssumption
  <2>2. QED
    BY <1>3, <1>13, <2>1 DEF IInv, Tables, RowsAgree, Evidence, InsertsExclude
<1>15. PassesOK'
  <2>1. \A p \in Pass : pass[p].todo \cup pass[p].at \subseteq Key
    BY DEF IInv, Tables, ShapeOK, PassState
  <2>2. QED
    BY <1>3, <1>13, <2>1 DEF IInv, PassesOK
<1>16. SlotsOK'
  <2>1. \A v \in Slot : slot[v].on \subseteq Key /\ \A x, y \in slot[v].on : x = y
    BY SlotFacts
  <2>2. \A l \in slot[w].on : l = k
    BY <2>1
  <2>3. QED
    BY <1>3, <1>4, <1>5, <1>11, <1>13, <2>1, <2>2 DEF IInv, SlotsOK
<1>17. LastAttempts'
  <2>1. ASSUME NEW l \in Key, faults = 0, kind[l] = "analysis", row'[l] = "pending",
               job[l].state \in {"active", "failed"}, job[l].retries = RetryLimit
        PROVE  \E v \in Slot : LastHandler(l, v)'
    <3>1. row[l] = "pending" /\ l # k
      BY <1>13, <2>1
    <3>2. PICK v \in Slot : LastHandler(l, v)
      BY <2>1, <3>1 DEF IInv, LastAttempts
    <3>3. v # w
      BY <3>1, <3>2, SlotFacts DEF LastHandler
    <3>4. LastHandler(l, v)'
      BY <1>11, <3>2, <3>3 DEF LastHandler
    <3>5. QED
      BY <3>4
  <2>2. QED
    BY <1>3, <2>1 DEF IInv, LastAttempts
<1>18. QED
  BY <1>10, <1>12, <1>14, <1>15, <1>16, <1>17 DEF IInv, Tables

-----------------------------------------------------------------------------
LEMMA NextIInv == IInv /\ [Next]_vars => IInv'
<1> SUFFICES ASSUME IInv, [Next]_vars PROVE IInv'
  OBVIOUS
<1>1. CASE UNCHANGED vars
  BY <1>1 DEF IInv, Tables, ShapeOK, RowsAgree, InsertsExclude, Evidence, ToldOnce, PassesOK,
              SlotsOK, LastAttempts, LastHandler, vars
<1>2. CASE Next
  BY <1>2, ReadStep, CallInsertStep, CallCommitStep, CallEndStep, ExpiryStep, ClaimStep,
     PublishStep, MarkStep, PassEndStep, FetchStep, BuildStep, SettleStep, SlotFaultStep,
     ReportStep DEF Next
<1>3. QED
  BY <1>1, <1>2

\* Who writes the request's row.
LEMMA RowWriters ==
  ASSUME [Next]_vars
  PROVE  \/ row' = row
         \/ \E c \in Call : CallCommit(c)
         \/ \E w \in Slot : \E q, plan, n : Settle(w, q, plan, n)
<1>1. ASSUME NEW c \in Call, \/ ReadForReproduction(c) \/ ReadForAnalysis(c) \/ CallInsert(c)
                             \/ CallAbort(c) \/ CallReread(c)
      PROVE  row' = row
  BY <1>1 DEF ReadForReproduction, ReadForAnalysis, Turned, CallInsert, CallAbort, CallReread
<1>2. ASSUME NEW e \in Event, ExpirySelect(e) \/ ExpiryLock(e) \/ ExpiryDelete(e)
      PROVE  row' = row
  BY <1>2 DEF ExpirySelect, ExpiryLock, ExpiryDelete
<1>3. ASSUME NEW p \in Pass, \/ ClaimPending(p) \/ ListStale(p) \/ ClaimStale(p)
                             \/ PublishOk(p) \/ PublishFailed(p) \/ Mark(p) \/ MarkFailed(p)
                             \/ RecordFailure(p) \/ RecordRefused(p) \/ PassAbort(p)
      PROVE  row' = row
  BY <1>3 DEF ClaimPending, ListStale, ClaimStale, PublishOk, PublishFailed, Mark, MarkFailed,
              RecordFailure, RecordRefused, PassAbort
<1>4. ASSUME NEW w \in Slot, \/ \E k \in Key : FetchJob(w, k)
                             \/ GenerateTest(w) \/ AskModel(w) \/ ProviderOutage(w)
                             \/ HandlerThrow(w) \/ Report(w) \/ SlotCrash(w)
      PROVE  row' = row
  BY <1>4 DEF FetchJob, GenerateTest, AskModel, ProviderOutage, HandlerThrow, Report, SlotCrash
<1>5. ASSUME NEW w \in Slot, \/ MarkReproductionReady(w) \/ FailDeterministic(w)
                             \/ ApplyTerminalReady(w) \/ ApplyTerminalFailure(w)
      PROVE  \E q, plan, n : Settle(w, q, plan, n)
  BY <1>5 DEF MarkReproductionReady, FailDeterministic, ApplyTerminalReady, ApplyTerminalFailure
<1>6. ASSUME NEW k \in Key, ExpireJob(k) PROVE row' = row
  BY <1>6 DEF ExpireJob
<1>7. CASE Next
  BY <1>1, <1>2, <1>3, <1>4, <1>5, <1>6, <1>7 DEF Next
<1>8. QED
  BY <1>7 DEF vars

\* The inductive invariant.
LEMMA Invariance == Spec => []IInv
BY InitIInv, NextIInv, PTL DEF Spec

\* Rows, jobs and local states keep their shapes.
THEOREM TypeCorrect == Spec => []TypeOK
<1>1. IInv => TypeOK
  BY DEF IInv, Tables, ShapeOK, TypeOK
<1>2. QED
  BY <1>1, Invariance, PTL

\* An accepted request is never lost between its tables and the queue, however
\* many loops publish and mark it without a lock (reproduction-dispatcher.ts and
\* ai-analysis-dispatcher.ts).
THEOREM NothingLost == Spec => []NoLostRequest
<1>1. IInv => NoLostRequest
  <2> SUFFICES ASSUME IInv, NEW k \in Key, row[k] = "pending", outbox[k] # "pending"
               PROVE  job[k].state \in {"created", "retry", "active", "failed"}
    BY DEF NoLostRequest, IsPending
  <2>1. job[k].state \notin {"none", "completed"}
    BY DEF IInv, Tables, ShapeOK, RowsAgree, OutboxState, Ended
  <2>2. QED
    BY <2>1, JobFacts DEF JQ!Job, JQ!JobState
<1>2. QED
  BY <1>1, Invariance, PTL

\* The end of a request is told about exactly once, whoever ends it
\* (failDeterministic, applyTerminalReady and applyTerminalFailure).
THEOREM ToldExactlyOnce == Spec => []ToldOnce
<1>1. IInv => ToldOnce
  BY DEF IInv, Tables
<1>2. QED
  BY <1>1, Invariance, PTL

\* Retention never deletes the event of a reproduction that is pending or about to
\* be inserted (retention.ts:98-160).
THEOREM EvidenceKept == Spec => []PendingKeepsEvidence
<1>1. IInv => PendingKeepsEvidence
  BY DEF IInv, Tables, Evidence, InsertsExclude, PendingKeepsEvidence, IsPending, Inserting
<1>2. QED
  BY <1>1, Invariance, PTL

\* One identity is created by one call (the unique indexes behind ON CONFLICT).
THEOREM OneCreation == Spec => []CreatedOnce
<1>1. IInv => CreatedOnce
  BY DEF IInv, Tables, InsertsExclude, CreatedOnce
<1>2. QED
  BY <1>1, Invariance, PTL

\* Without crashes and database failures an analysis never stays pending behind a
\* job that has used up its retries (worker.ts:167).
THEOREM OutagesEnd == Spec => []OutageEndsAnalysis
<1>1. IInv => OutageEndsAnalysis
  BY DEF IInv, Tables, ShapeOK, LastAttempts, LastHandler, OutageEndsAnalysis, IsPending
<1>2. QED
  BY <1>1, Invariance, PTL

\* A request that is ready or failed stays so.
THEOREM FinalOutcome == Spec => OutcomeIsFinal
<1>1. ASSUME IInv, [Next]_vars
      PROVE  [\A k \in Key : row[k] \in Ended => row'[k] = row[k]]_vars
  <2>1. CASE row' = row
    BY <2>1
  <2>2. ASSUME NEW c \in Call, CallCommit(c)
        PROVE  \A k \in Key : row[k] \in Ended => row'[k] = row[k]
    <3>1. row[KeyOf[c]] = "none" /\ KeyOf[c] \in Key /\ row \in [Key -> Status]
      BY <1>1, <2>2, ConstantsAssumption DEF CallCommit, IInv, Tables, InsertsExclude, ShapeOK
    <3>2. QED
      BY <2>2, <3>1 DEF CallCommit, Ended
  <2>3. ASSUME NEW w \in Slot, NEW q, NEW plan, NEW n, Settle(w, q, plan, n)
        PROVE  \A k \in Key : row[k] \in Ended => row'[k] = row[k]
    <3>1. row \in [Key -> Status] /\ slot[w].on \subseteq Key
      BY <1>1, SlotFacts DEF IInv, Tables, ShapeOK
    <3>2. QED
      BY <2>3, <3>1 DEF Settle, IsPending, Ended
  <2>4. \/ row' = row
        \/ \E c \in Call : CallCommit(c)
        \/ \E w \in Slot : \E q, plan, n : Settle(w, q, plan, n)
    BY <1>1, RowWriters
  <2>5. QED
    BY <2>1, <2>2, <2>3, <2>4
<1>2. QED
  BY <1>1, Invariance, PTL DEF Spec, OutcomeIsFinal
=============================================================================
