------------------------ MODULE EventProcessing_proofs ------------------------
(***************************************************************************)
(* Proofs about EventProcessing, for every set of events, consumers,       *)
(* fingerprints and members: every event is counted in at most one issue   *)
(* and once, the numbers of an issue never drift from its events, its      *)
(* timeline explains the row it has, and every regression told in it was   *)
(* notified to the assignee of the moment, once.                           *)
(***************************************************************************)
EXTENDS EventProcessing, FiniteSetTheorems, WellFoundedInduction, TLAPS

\* A consumer works on an event of the project; past the lock the event is
\* still pending, past LockIssue it has a fingerprint, and it locks the issue
\* row once more only when that row is there.
InTransaction(w) ==
  tx[w].pc # "idle" =>
    /\ tx[w].event \in Event
    /\ tx[w].plan \in Plan
    /\ tx[w].pc # "symbolicated" => event[tx[w].event].state = "pending"
    /\ tx[w].pc \in {"insert", "relock", "grouped", "counted"} =>
         tx[w].plan \in Fingerprint
    /\ tx[w].pc = "relock" => issue[tx[w].plan].exists

\* What a consumer has read of the issue row it holds is still true.
ReadIsCurrent(w) ==
  tx[w].pc \in {"grouped", "counted"} =>
    /\ tx[w].created <=> ~issue[tx[w].plan].exists
    /\ tx[w].created => tx[w].status = "open"
    /\ ~tx[w].created => /\ tx[w].status = issue[tx[w].plan].status
                         /\ tx[w].assignee = issue[tx[w].plan].assignee
    /\ tx[w].pc = "counted" =>
         (tx[w].newSession <=> SessionOf[tx[w].event] \notin affected[tx[w].plan])

\* No two consumers hold the same event row or the same issue row.
LocksExclusive ==
  \A v, w \in Worker : v # w =>
    /\ ~\E e \in Event : HoldsEvent(v, e) /\ HoldsEvent(w, e)
    /\ ~\E f \in Fingerprint : HoldsIssue(v, f) /\ HoldsIssue(w, f)

\* Only a processed event points at an issue.
OnlyProcessedGrouped ==
  \A e \in Event : event[e].issue # None => event[e].state = "processed"

\* The numbers of an issue row are those of the events that point at it.
NumbersAreExact(f) ==
  LET C == CountedIn(f)
      row == issue[f]
  IN
  /\ IsFiniteSet(C)
  /\ row.occurrences = Cardinality(C)
  /\ IsFiniteSet(affected[f])
  /\ affected[f] = {SessionOf[e] : e \in C}
  /\ row.sessions = Cardinality(affected[f])
  /\ row.exists <=> C # {}
  /\ ~row.exists => row = NoIssue
  /\ row.exists => /\ \E e \in C : /\ OccurredAt[e] = row.first
                                   /\ ReleaseOf[e] = row.firstRelease
                   /\ \E e \in C : /\ OccurredAt[e] = row.last
                                   /\ ReleaseOf[e] = row.lastRelease
                   /\ \A e \in C : /\ row.first <= OccurredAt[e]
                                   /\ OccurredAt[e] <= row.last

\* resolved_at is set exactly while the status is resolved.
ResolvedIsStamped ==
  \A f \in Fingerprint : issue[f].resolved <=> issue[f].status = "resolved"

IInv ==
  /\ TypeOK
  /\ \A w \in Worker : InTransaction(w) /\ ReadIsCurrent(w)
  /\ LocksExclusive
  /\ OnlyProcessedGrouped
  /\ ResolvedIsStamped
  /\ \A f \in Fingerprint : NumbersAreExact(f)

-----------------------------------------------------------------------------
\* The row of an issue stays a row, whatever is written to it.
LEMMA RowOps ==
  ASSUME NEW row \in IssueRow, NEW e \in Event
  PROVE  /\ NoIssue \in IssueRow /\ NewIssue(e) \in IssueRow
         /\ \A new, reopen \in BOOLEAN : Occurrence(row, e, new, reopen) \in IssueRow
         /\ \A s \in Status, r \in BOOLEAN, m \in Member \cup {None} :
              Patched(row, s, r, m) \in IssueRow
<1> USE ConstantsAssumption DEF IssueRow, Status
<1>1. NoIssue \in IssueRow
  BY DEF NoIssue
<1>2. OccurredAt[e] \in Nat /\ ReleaseOf[e] \in Release
  BY DEF Release
<1>3. NewIssue(e) \in IssueRow
  BY <1>2 DEF NewIssue
<1>4. ASSUME NEW new \in BOOLEAN, NEW reopen \in BOOLEAN
      PROVE  Occurrence(row, e, new, reopen) \in IssueRow
  <2>1. /\ row.occurrences + 1 \in Nat
        /\ (IF new THEN row.sessions + 1 ELSE row.sessions) \in Nat
        /\ (IF OccurredAt[e] < row.first THEN OccurredAt[e] ELSE row.first) \in Nat
        /\ (IF OccurredAt[e] > row.last THEN OccurredAt[e] ELSE row.last) \in Nat
    BY <1>2
  <2>2. /\ (IF reopen THEN "open" ELSE row.status) \in Status
        /\ (IF reopen THEN FALSE ELSE row.resolved) \in BOOLEAN
        /\ row.assignee \in Member \cup {None}
    OBVIOUS
  <2>3. ASSUME NEW earlier \in BOOLEAN, NEW r \in Release \cup {None}
        PROVE  (IF earlier THEN ReleaseOf[e] ELSE r) \in Release \cup {None}
    BY <1>2
  <2>4. /\ (IF OccurredAt[e] < row.first THEN ReleaseOf[e] ELSE row.firstRelease)
             \in Release \cup {None}
        /\ (IF OccurredAt[e] > row.last THEN ReleaseOf[e] ELSE row.lastRelease)
             \in Release \cup {None}
    BY <1>2, <2>3
  <2>5. QED
    BY <2>1, <2>2, <2>4 DEF Occurrence
<1>5. ASSUME NEW s \in Status, NEW r \in BOOLEAN, NEW m \in Member \cup {None}
      PROVE  Patched(row, s, r, m) \in IssueRow
  BY DEF Patched
<1>6. QED
  BY <1>1, <1>3, <1>4, <1>5

\* Every local state the actions write is one.
LEMMA TxOps ==
  ASSUME NEW w \in Worker, TypeOK, InTransaction(w)
  PROVE  /\ IdleTx \in TxState
         /\ \A e \in Event, plan \in Plan :
              \A pc \in {"symbolicated", "locked", "insert", "relock"} :
                At(pc, e, plan) \in TxState
         /\ tx[w].plan \in Fingerprint /\ tx[w].pc # "idle" => Grouped(w) \in TxState
<1> USE ConstantsAssumption DEF TxState
<1>1. IdleTx \in TxState
  BY DEF IdleTx, At
<1>2. ASSUME NEW e \in Event, NEW plan \in Plan,
             NEW pc \in {"symbolicated", "locked", "insert", "relock"}
      PROVE  At(pc, e, plan) \in TxState
  BY DEF At
<1>3. ASSUME tx[w].plan \in Fingerprint, tx[w].pc # "idle"
      PROVE  Grouped(w) \in TxState
  <2>1. issue[tx[w].plan] \in IssueRow
    BY <1>3 DEF TypeOK
  <2>2. QED
    BY <1>3, <2>1 DEF Grouped, IssueRow, InTransaction, Plan
<1>4. QED
  BY <1>1, <1>2, <1>3

\* The initial state satisfies the invariant.
LEMMA InitIInv == Init => IInv
<1> SUFFICES ASSUME Init PROVE IInv
  OBVIOUS
<1> USE ConstantsAssumption
<1>1. TypeOK
  <2>1. NoIssue \in IssueRow
    BY DEF NoIssue, IssueRow, Status
  <2>2. IdleTx \in TxState
    BY DEF IdleTx, At, TxState
  <2>3. <<>> \in Seq(Entry) /\ <<>> \in Seq(Notice)
    OBVIOUS
  <2>4. event \in [Event -> EventRow]
    BY DEF Init, EventRow
  <2>5. issue \in [Fingerprint -> IssueRow] /\ tx \in [Worker -> TxState]
    BY <2>1, <2>2 DEF Init
  <2>6. QED
    BY <2>3, <2>4, <2>5 DEF Init, TypeOK
<1>2. ASSUME NEW f \in Fingerprint
      PROVE  NumbersAreExact(f)
  <2>1. CountedIn(f) = {}
    BY DEF Init, CountedIn
  <2>2. issue[f] = NoIssue /\ affected[f] = {}
    BY DEF Init
  <2>3. QED
    BY <2>1, <2>2, FS_EmptySet DEF NumbersAreExact, NoIssue
<1>3. ASSUME NEW w \in Worker
      PROVE  tx[w].pc = "idle"
  BY DEF Init, IdleTx, At
<1>4. LocksExclusive /\ OnlyProcessedGrouped /\ ResolvedIsStamped
  BY <1>3 DEF Init, LocksExclusive, OnlyProcessedGrouped, HoldsEvent, HoldsIssue,
              ResolvedIsStamped, NoIssue
<1>5. QED
  BY <1>1, <1>2, <1>3, <1>4 DEF IInv, InTransaction, ReadIsCurrent

\* A step of one consumer that writes nothing but its own local state.
LEMMA LocalStep ==
  ASSUME IInv, NEW w \in Worker, NEW t \in TxState,
         tx' = [tx EXCEPT ![w] = t],
         UNCHANGED <<event, issue, affected, timeline, notices, triaged>>,
         faults' \in 0..MaxFaults,
         InTransaction(w)', ReadIsCurrent(w)',
         \A v \in Worker \ {w} :
           /\ t.pc \notin {"idle", "symbolicated"} => ~HoldsEvent(v, t.event)
           /\ t.pc \in {"grouped", "counted"} => ~HoldsIssue(v, t.plan)
  PROVE  IInv'
<1>1. TypeOK'
  BY DEF IInv, TypeOK
<1>2. \A v \in Worker : tx'[v] = IF v = w THEN t ELSE tx[v]
  BY DEF IInv, TypeOK
<1>3. ASSUME NEW v \in Worker
      PROVE  InTransaction(v)' /\ ReadIsCurrent(v)'
  <2>1. CASE v = w
    BY <2>1
  <2>2. CASE v # w
    BY <1>2, <2>2 DEF IInv, InTransaction, ReadIsCurrent
  <2>3. QED
    BY <2>1, <2>2
<1>4. LocksExclusive'
  BY <1>2 DEF IInv, LocksExclusive, HoldsEvent, HoldsIssue
<1>5. OnlyProcessedGrouped' /\ ResolvedIsStamped'
  BY DEF IInv, OnlyProcessedGrouped, ResolvedIsStamped
<1>6. ASSUME NEW f \in Fingerprint
      PROVE  NumbersAreExact(f)'
  <2>1. CountedIn(f)' = CountedIn(f)
    BY DEF CountedIn
  <2>2. NumbersAreExact(f)
    BY DEF IInv
  <2>3. QED
    BY <2>1, <2>2 DEF NumbersAreExact
<1>7. QED
  BY <1>1, <1>3, <1>4, <1>5, <1>6 DEF IInv

\* The steps of a consumer up to its commit, and a rollback.
LEMMA LocalActions ==
  ASSUME IInv, NEW w \in Worker,
         \/ \E e \in Event : Symbolicate(w, e)
         \/ LockEvent(w) \/ LockIssue(w) \/ InsertIssueIfAbsent(w)
         \/ RelockIssue(w) \/ RecordIssueAffectedSession(w) \/ Abort(w)
  PROVE  IInv'
<1> USE ConstantsAssumption
<1>1. /\ tx[w] \in TxState /\ tx \in [Worker -> TxState]
      /\ InTransaction(w) /\ ReadIsCurrent(w)
      /\ faults \in 0..MaxFaults
  BY DEF IInv, TypeOK
<1>2. /\ IdleTx \in TxState /\ IdleTx.pc = "idle"
      /\ \A e \in Event, plan \in Plan :
           \A pc \in {"symbolicated", "locked", "insert", "relock"} :
             At(pc, e, plan) \in TxState
      /\ tx[w].plan \in Fingerprint /\ tx[w].pc # "idle" => Grouped(w) \in TxState
  BY <1>1, TxOps DEF IInv, IdleTx, At
<1>3. ASSUME NEW e \in Event, Symbolicate(w, e)
      PROVE  IInv'
  <2>1. PICK plan \in Plan : tx' = [tx EXCEPT ![w] = At("symbolicated", e, plan)]
    BY <1>3 DEF Symbolicate
  <2>2. /\ tx'[w] = At("symbolicated", e, plan)
        /\ At("symbolicated", e, plan) \in TxState
    BY <1>1, <1>2, <2>1
  <2>3. InTransaction(w)' /\ ReadIsCurrent(w)'
    BY <2>2 DEF InTransaction, ReadIsCurrent, At
  <2>4. QED
    BY <1>1, <1>3, <2>1, <2>2, <2>3, LocalStep DEF Symbolicate, At
<1>4. CASE LockEvent(w)
  <2>1. tx[w].event \in Event /\ tx[w].plan \in Plan
    BY <1>1, <1>4 DEF LockEvent, InTransaction
  <2>2. CASE event[tx[w].event].state = "pending"
    <3>1. tx' = [tx EXCEPT ![w] = At("locked", tx[w].event, tx[w].plan)]
      BY <1>4, <2>2 DEF LockEvent
    <3>2. /\ tx'[w] = At("locked", tx[w].event, tx[w].plan)
          /\ At("locked", tx[w].event, tx[w].plan) \in TxState
      BY <1>1, <1>2, <2>1, <3>1
    <3>3. InTransaction(w)' /\ ReadIsCurrent(w)'
      BY <1>4, <2>1, <2>2, <3>2 DEF LockEvent, InTransaction, ReadIsCurrent, At
    <3>4. QED
      BY <1>1, <1>4, <3>1, <3>2, <3>3, LocalStep DEF LockEvent, At
  <2>3. CASE event[tx[w].event].state # "pending"
    <3>1. tx' = [tx EXCEPT ![w] = IdleTx]
      BY <1>4, <2>3 DEF LockEvent
    <3>2. InTransaction(w)' /\ ReadIsCurrent(w)'
      BY <1>1, <1>2, <3>1 DEF InTransaction, ReadIsCurrent
    <3>3. QED
      BY <1>1, <1>2, <1>4, <3>1, <3>2, LocalStep DEF LockEvent
  <2>4. QED
    BY <2>2, <2>3
<1>5. CASE Abort(w)
  <2>1. tx' = [tx EXCEPT ![w] = IdleTx] /\ faults' \in 0..MaxFaults
    BY <1>1, <1>5 DEF Abort
  <2>2. InTransaction(w)' /\ ReadIsCurrent(w)'
    BY <1>1, <1>2, <2>1 DEF InTransaction, ReadIsCurrent
  <2>3. QED
    BY <1>2, <1>5, <2>1, <2>2, LocalStep DEF Abort
<1>6. ASSUME tx[w].plan \in Fingerprint, tx[w].pc \notin {"idle", "symbolicated"},
             issue[tx[w].plan].exists, IssueFree(tx[w].plan),
             tx' = [tx EXCEPT ![w] = Grouped(w)],
             UNCHANGED <<event, issue, affected, timeline, notices, triaged, faults>>
      PROVE  IInv'
  <2>1. /\ tx'[w] = Grouped(w) /\ Grouped(w) \in TxState
        /\ Grouped(w).pc = "grouped" /\ Grouped(w).event = tx[w].event
        /\ Grouped(w).plan = tx[w].plan /\ ~Grouped(w).created
        /\ Grouped(w).status = issue[tx[w].plan].status
        /\ Grouped(w).assignee = issue[tx[w].plan].assignee
    BY <1>1, <1>2, <1>6 DEF Grouped
  <2>2. InTransaction(w)' /\ ReadIsCurrent(w)'
    BY <1>1, <1>6, <2>1 DEF InTransaction, ReadIsCurrent
  <2>3. \A v \in Worker \ {w} : /\ ~HoldsEvent(v, Grouped(w).event)
                                /\ ~HoldsIssue(v, Grouped(w).plan)
    BY <1>1, <1>6, <2>1 DEF IInv, LocksExclusive, HoldsEvent, IssueFree, InTransaction
  <2>4. QED
    BY <1>1, <1>6, <2>1, <2>2, <2>3, LocalStep
<1>7. ASSUME NEW pc \in {"insert", "relock"},
             pc = "relock" => issue[tx[w].plan].exists,
             tx[w].plan \in Fingerprint, tx[w].pc \notin {"idle", "symbolicated"},
             tx' = [tx EXCEPT ![w] = At(pc, tx[w].event, tx[w].plan)],
             UNCHANGED <<event, issue, affected, timeline, notices, triaged, faults>>
      PROVE  IInv'
  <2>1. /\ tx'[w] = At(pc, tx[w].event, tx[w].plan)
        /\ At(pc, tx[w].event, tx[w].plan) \in TxState
    BY <1>1, <1>2, <1>7 DEF InTransaction
  <2>2. InTransaction(w)' /\ ReadIsCurrent(w)'
    BY <1>1, <1>7, <2>1 DEF InTransaction, ReadIsCurrent, At
  <2>3. \A v \in Worker \ {w} : ~HoldsEvent(v, tx[w].event)
    BY <1>1, <1>7 DEF IInv, LocksExclusive, HoldsEvent, InTransaction
  <2>4. QED
    BY <1>1, <1>7, <2>1, <2>2, <2>3, LocalStep DEF At
<1>8. CASE LockIssue(w)
  <2>1. /\ tx[w].plan \in Fingerprint /\ tx[w].pc = "locked"
        /\ UNCHANGED <<event, issue, affected, timeline, notices, triaged, faults>>
    BY <1>8 DEF LockIssue
  <2>2. CASE issue[tx[w].plan].exists
    BY <1>6, <1>8, <2>1, <2>2 DEF LockIssue
  <2>3. CASE ~issue[tx[w].plan].exists
    BY <1>7, <1>8, <2>1, <2>3 DEF LockIssue
  <2>4. QED
    BY <2>2, <2>3
<1>9. CASE RelockIssue(w)
  <2>1. tx[w].plan \in Fingerprint /\ issue[tx[w].plan].exists
    BY <1>1, <1>9 DEF RelockIssue, InTransaction
  <2>2. QED
    BY <1>6, <1>9, <2>1 DEF RelockIssue
<1>10. CASE InsertIssueIfAbsent(w)
  <2>1. /\ tx[w].plan \in Fingerprint /\ tx[w].pc = "insert"
        /\ IssueFree(tx[w].plan)
        /\ UNCHANGED <<event, issue, affected, timeline, notices, triaged, faults>>
    BY <1>1, <1>10 DEF InsertIssueIfAbsent, InTransaction
  <2>2. CASE issue[tx[w].plan].exists
    BY <1>7, <1>10, <2>1, <2>2 DEF InsertIssueIfAbsent
  <2>3. CASE ~issue[tx[w].plan].exists
    <3> DEFINE t == [pc |-> "grouped", event |-> tx[w].event, plan |-> tx[w].plan,
                     created |-> TRUE, status |-> "open", assignee |-> None,
                     newSession |-> FALSE]
    <3>1. tx' = [tx EXCEPT ![w] = t]
      BY <1>10, <2>3 DEF InsertIssueIfAbsent
    <3>2. t \in TxState
      BY <1>1, <2>1 DEF TxState, InTransaction, Status
    <3>3. tx'[w] = t
      BY <1>1, <3>1
    <3>4. InTransaction(w)' /\ ReadIsCurrent(w)'
      BY <1>1, <2>1, <2>3, <3>3 DEF InTransaction, ReadIsCurrent
    <3>5. \A v \in Worker \ {w} : ~HoldsEvent(v, t.event) /\ ~HoldsIssue(v, t.plan)
      BY <1>1, <2>1 DEF IInv, LocksExclusive, HoldsEvent, IssueFree, InTransaction
    <3> HIDE DEF t
    <3>6. QED
      BY <1>1, <2>1, <3>1, <3>2, <3>4, <3>5, LocalStep
  <2>4. QED
    BY <2>2, <2>3
<1>11. CASE RecordIssueAffectedSession(w)
  <2> DEFINE t == [pc |-> "counted", event |-> tx[w].event, plan |-> tx[w].plan,
                   created |-> tx[w].created, status |-> tx[w].status,
                   assignee |-> tx[w].assignee,
                   newSession |-> SessionOf[tx[w].event] \notin affected[tx[w].plan]]
  <2>1. /\ tx' = [tx EXCEPT ![w] = t] /\ tx[w].pc = "grouped"
        /\ UNCHANGED <<event, issue, affected, timeline, notices, triaged, faults>>
    BY <1>11 DEF RecordIssueAffectedSession
  <2>2. t \in TxState
    BY <1>1 DEF TxState
  <2>3. tx'[w] = t
    BY <1>1, <2>1
  <2>4. InTransaction(w)' /\ ReadIsCurrent(w)'
    BY <1>1, <2>1, <2>3 DEF InTransaction, ReadIsCurrent
  <2>5. \A v \in Worker \ {w} : ~HoldsEvent(v, t.event) /\ ~HoldsIssue(v, t.plan)
    BY <1>1, <2>1 DEF IInv, LocksExclusive, HoldsEvent, HoldsIssue, InTransaction
  <2> HIDE DEF t
  <2>6. QED
    BY <1>1, <2>1, <2>2, <2>4, <2>5, LocalStep
<1>12. QED
  BY <1>3, <1>4, <1>5, <1>8, <1>9, <1>10, <1>11

-----------------------------------------------------------------------------
\* Counting one more event keeps the numbers of its issue exact.
LEMMA CountOne ==
  ASSUME NEW f \in Fingerprint, NEW e \in Event, NEW reopen \in BOOLEAN,
         NumbersAreExact(f), issue[f] \in IssueRow, e \notin CountedIn(f),
         CountedIn(f)' = CountedIn(f) \cup {e},
         affected'[f] = affected[f] \cup {SessionOf[e]},
         issue'[f] = Occurrence(IF issue[f].exists THEN issue[f] ELSE NewIssue(e),
                                e, SessionOf[e] \notin affected[f], reopen)
  PROVE  NumbersAreExact(f)'
<1> DEFINE row == IF issue[f].exists THEN issue[f] ELSE NewIssue(e)
<1> USE ConstantsAssumption
<1>1. /\ IsFiniteSet(CountedIn(f)') /\ IsFiniteSet(affected'[f])
      /\ Cardinality(CountedIn(f)') = Cardinality(CountedIn(f)) + 1
      /\ Cardinality(affected'[f]) =
           IF SessionOf[e] \in affected[f] THEN Cardinality(affected[f])
           ELSE Cardinality(affected[f]) + 1
  <2>1. IsFiniteSet(CountedIn(f)) /\ IsFiniteSet(affected[f])
    BY DEF NumbersAreExact
  <2>2. /\ IsFiniteSet(CountedIn(f) \cup {e})
        /\ Cardinality(CountedIn(f) \cup {e}) = Cardinality(CountedIn(f)) + 1
    BY <2>1, FS_AddElement
  <2>3. /\ IsFiniteSet(affected[f] \cup {SessionOf[e]})
        /\ Cardinality(affected[f] \cup {SessionOf[e]}) =
             IF SessionOf[e] \in affected[f] THEN Cardinality(affected[f])
             ELSE Cardinality(affected[f]) + 1
    BY <2>1, FS_AddElement
  <2>4. QED
    BY <2>2, <2>3
<1>2. affected'[f] = {SessionOf[d] : d \in CountedIn(f)'}
  <2>1. affected[f] = {SessionOf[d] : d \in CountedIn(f)}
    BY DEF NumbersAreExact
  <2>2. QED
    BY <2>1
<1>3. /\ row.occurrences = issue[f].occurrences
      /\ row.sessions = issue[f].sessions
      /\ row.first \in Nat /\ row.last \in Nat
  BY DEF NumbersAreExact, NoIssue, NewIssue, IssueRow
<1>4. /\ issue'[f].exists
      /\ issue'[f].occurrences = issue[f].occurrences + 1
      /\ issue'[f].sessions = IF SessionOf[e] \in affected[f] THEN issue[f].sessions
                             ELSE issue[f].sessions + 1
      /\ issue'[f].first = IF OccurredAt[e] < row.first THEN OccurredAt[e] ELSE row.first
      /\ issue'[f].last = IF OccurredAt[e] > row.last THEN OccurredAt[e] ELSE row.last
      /\ issue'[f].firstRelease = IF OccurredAt[e] < row.first THEN ReleaseOf[e]
                                 ELSE row.firstRelease
      /\ issue'[f].lastRelease = IF OccurredAt[e] > row.last THEN ReleaseOf[e]
                                ELSE row.lastRelease
  BY <1>3 DEF Occurrence
<1>5. /\ \E d \in CountedIn(f) \cup {e} :
           OccurredAt[d] = row.first /\ ReleaseOf[d] = row.firstRelease
      /\ \E d \in CountedIn(f) \cup {e} :
           OccurredAt[d] = row.last /\ ReleaseOf[d] = row.lastRelease
      /\ \A d \in CountedIn(f) : row.first <= OccurredAt[d] /\ OccurredAt[d] <= row.last
  <2>1. CASE issue[f].exists
    BY <2>1 DEF NumbersAreExact
  <2>2. CASE ~issue[f].exists
    BY <2>2 DEF NumbersAreExact, NewIssue
  <2>3. QED
    BY <2>1, <2>2
<1>6. \A d \in CountedIn(f) \cup {e} : OccurredAt[d] \in Nat
  BY DEF CountedIn
<1> HIDE DEF row
<1>7. \E d \in CountedIn(f) \cup {e} :
        OccurredAt[d] = issue'[f].first /\ ReleaseOf[d] = issue'[f].firstRelease
  BY <1>4, <1>5
<1>8. \E d \in CountedIn(f) \cup {e} :
        OccurredAt[d] = issue'[f].last /\ ReleaseOf[d] = issue'[f].lastRelease
  BY <1>4, <1>5
<1>9. \A d \in CountedIn(f) \cup {e} :
        issue'[f].first <= OccurredAt[d] /\ OccurredAt[d] <= issue'[f].last
  BY <1>3, <1>4, <1>5, <1>6
<1>10. /\ issue[f].occurrences = Cardinality(CountedIn(f))
       /\ issue[f].sessions = Cardinality(affected[f])
  BY DEF NumbersAreExact
<1>11. QED
  BY <1>1, <1>2, <1>4, <1>7, <1>8, <1>9, <1>10 DEF NumbersAreExact

\* The commit of event e into issue f keeps the invariant: the other consumers
\* hold other rows, and the other issues keep their events.
LEMMA CommitGroupedStep ==
  ASSUME IInv, NEW w \in Worker, CommitGrouped(w),
         NEW e \in Event, NEW f \in Fingerprint,
         tx[w].event = e, tx[w].plan = f
  PROVE  IInv'
<1> DEFINE old == IF tx[w].created THEN NewIssue(e) ELSE issue[f]
           new == Occurrence(old, e, tx[w].newSession, ReopensAsRegression(w))
<1> USE ConstantsAssumption
<1>1. /\ e \in Event /\ f \in Fingerprint /\ tx[w].pc = "counted"
      /\ event[e].state = "pending"
      /\ tx[w].created <=> ~issue[f].exists
      /\ tx[w].created \in BOOLEAN
      /\ tx[w].newSession <=> SessionOf[e] \notin affected[f]
      /\ tx[w].newSession \in BOOLEAN
      /\ issue[f] \in IssueRow
      /\ tx[w].assignee \in Member \cup {None}
  BY DEF CommitGrouped, IInv, InTransaction, ReadIsCurrent, TypeOK, TxState
<1>2. ReopensAsRegression(w) \in BOOLEAN
  BY DEF ReopensAsRegression
<1>3. new \in IssueRow
  <2>1. old \in IssueRow
    BY <1>1, RowOps
  <2>2. QED
    BY <1>1, <1>2, <2>1, RowOps
<1>4. /\ issue' = [issue EXCEPT ![f] = new]
      /\ affected' = [affected EXCEPT ![f] = @ \cup {SessionOf[e]}]
      /\ event' = [event EXCEPT ![e] = [state |-> "processed", issue |-> f]]
      /\ tx' = [tx EXCEPT ![w] = IdleTx]
      /\ UNCHANGED <<triaged, faults>>
  BY DEF CommitGrouped
<1> HIDE DEF new, old
<1>5. TypeOK'
  <2>1. event' \in [Event -> EventRow]
    BY <1>1, <1>4 DEF IInv, TypeOK, EventRow
  <2>2. issue' \in [Fingerprint -> IssueRow]
    BY <1>3, <1>4 DEF IInv, TypeOK
  <2>3. affected' \in [Fingerprint -> SUBSET Session]
    BY <1>1, <1>4 DEF IInv, TypeOK, Session
  <2>4. tx' \in [Worker -> TxState]
    BY <1>4, TxOps DEF IInv, TypeOK
  <2>5. timeline' \in [Fingerprint -> Seq(Entry)]
    <3>1. \A t \in {"created", "regression_detected"} :
            [type |-> t, value |-> "open"] \in Entry
      BY DEF Entry, Status
    <3>2. timeline[f] \in Seq(Entry)
      BY <1>1 DEF IInv, TypeOK
    <3> DEFINE T == IF tx[w].created
                      THEN Append(timeline[f], [type |-> "created", value |-> "open"])
                    ELSE IF ReopensAsRegression(w)
                      THEN Append(timeline[f],
                                  [type |-> "regression_detected", value |-> "open"])
                    ELSE timeline[f]
    <3>3. timeline' = [timeline EXCEPT ![f] = T]
      BY DEF CommitGrouped
    <3>4. T \in Seq(Entry)
      BY <3>1, <3>2
    <3> HIDE DEF T
    <3>5. QED
      BY <3>3, <3>4 DEF IInv, TypeOK
  <2>6. notices' \in [Fingerprint -> Seq(Notice)]
    <3>1. tx[w].assignee # None =>
            [type |-> "issue_regression", user |-> tx[w].assignee] \in Notice
      BY <1>1 DEF Notice
    <3>2. notices[f] \in Seq(Notice)
      BY <1>1 DEF IInv, TypeOK
    <3> DEFINE N == IF ReopensAsRegression(w) /\ tx[w].assignee # None
                      THEN Append(notices[f], [type |-> "issue_regression",
                                               user |-> tx[w].assignee])
                      ELSE notices[f]
    <3>3. notices' = [notices EXCEPT ![f] = N]
      BY DEF CommitGrouped
    <3>4. N \in Seq(Notice)
      BY <3>1, <3>2
    <3> HIDE DEF N
    <3>5. QED
      BY <3>3, <3>4 DEF IInv, TypeOK
  <2>7. QED
    BY <1>4, <2>1, <2>2, <2>3, <2>4, <2>5, <2>6 DEF IInv, TypeOK
<1>6. /\ \A v \in Worker : tx'[v] = IF v = w THEN IdleTx ELSE tx[v]
      /\ \A d \in Event : event'[d] = IF d = e THEN [state |-> "processed", issue |-> f]
                                     ELSE event[d]
      /\ \A g \in Fingerprint : /\ issue'[g] = IF g = f THEN new ELSE issue[g]
                                /\ g # f => affected'[g] = affected[g]
      /\ affected'[f] = affected[f] \cup {SessionOf[e]}
      /\ IdleTx.pc = "idle" /\ new.exists
  BY <1>1, <1>4 DEF IInv, TypeOK, IdleTx, At, new, Occurrence
<1>7. ASSUME NEW v \in Worker
      PROVE  InTransaction(v)' /\ ReadIsCurrent(v)'
  <2>1. CASE v = w
    BY <1>6, <2>1 DEF InTransaction, ReadIsCurrent
  <2>2. CASE v # w
    <3>1. /\ tx'[v] = tx[v] /\ InTransaction(v) /\ ReadIsCurrent(v)
          /\ tx[v].pc \notin {"idle", "symbolicated"} => tx[v].event # e
          /\ tx[v].pc \in {"grouped", "counted"} => tx[v].plan # f
      BY <1>1, <1>6, <2>2 DEF IInv, LocksExclusive, HoldsEvent, HoldsIssue
    <3>2. InTransaction(v)'
      BY <1>6, <3>1 DEF InTransaction
    <3>3. ReadIsCurrent(v)'
      BY <1>6, <3>1 DEF ReadIsCurrent, InTransaction
    <3>4. QED
      BY <3>2, <3>3
  <2>3. QED
    BY <2>1, <2>2
<1>8. LocksExclusive'
  BY <1>6 DEF IInv, LocksExclusive, HoldsEvent, HoldsIssue
<1>9. OnlyProcessedGrouped'
  BY <1>1, <1>6 DEF IInv, OnlyProcessedGrouped
<1>10. event[e].issue = None
  BY <1>1 DEF IInv, OnlyProcessedGrouped
<1>11. ASSUME NEW g \in Fingerprint
       PROVE  NumbersAreExact(g)'
  <2>1. NumbersAreExact(g)
    BY DEF IInv
  <2>2. CASE g = f
    <3>1. e \notin CountedIn(f) /\ CountedIn(f)' = CountedIn(f) \cup {e}
      <4>1. CountedIn(f)' = {d \in Event : event'[d].state = "processed" /\ event'[d].issue = f}
        BY DEF CountedIn
      <4>2. \A d \in Event : event'[d].state = "processed" /\ event'[d].issue = f
              <=> d = e \/ (event[d].state = "processed" /\ event[d].issue = f)
        BY <1>6
      <4>3. QED
        BY <1>1, <4>1, <4>2 DEF CountedIn
    <3>2. issue'[f] = Occurrence(IF issue[f].exists THEN issue[f] ELSE NewIssue(e),
                                 e, SessionOf[e] \notin affected[f],
                                 ReopensAsRegression(w))
      BY <1>1, <1>6 DEF new, old
    <3>3. QED
      BY <1>1, <1>2, <1>6, <2>1, <2>2, <3>1, <3>2, CountOne
  <2>3. CASE g # f
    <3>1. CountedIn(g)' = CountedIn(g)
      <4>1. CountedIn(g)' = {d \in Event : event'[d].state = "processed" /\ event'[d].issue = g}
        BY DEF CountedIn
      <4>2. \A d \in Event : event'[d].state = "processed" /\ event'[d].issue = g
              <=> event[d].state = "processed" /\ event[d].issue = g
        BY <1>1, <1>6, <2>3
      <4>3. QED
        BY <4>1, <4>2 DEF CountedIn
    <3>2. issue'[g] = issue[g] /\ affected'[g] = affected[g]
      BY <1>6, <2>3
    <3>3. QED
      BY <2>1, <3>1, <3>2 DEF NumbersAreExact
  <2>4. QED
    BY <2>2, <2>3
<1>12. ResolvedIsStamped'
  <2>1. new.resolved <=> new.status = "resolved"
    BY <1>1 DEF new, old, Occurrence, NewIssue, IInv, ResolvedIsStamped
  <2>2. QED
    BY <1>6, <2>1 DEF IInv, ResolvedIsStamped
<1>13. QED
  BY <1>5, <1>7, <1>8, <1>9, <1>11, <1>12 DEF IInv

\* The commit of an event that is not grouped keeps the invariant.
LEMMA CommitUngroupedStep ==
  ASSUME IInv, NEW w \in Worker, CommitUngrouped(w),
         NEW e \in Event, tx[w].event = e
  PROVE  IInv'
<1> USE ConstantsAssumption
<1>1. PICK s \in {"rejected", "processed"} :
        event' = [event EXCEPT ![e] = [state |-> s, issue |-> None]]
  BY DEF CommitUngrouped
<1>2. /\ tx[w].pc = "locked" /\ event[e].state = "pending"
      /\ tx' = [tx EXCEPT ![w] = IdleTx]
      /\ UNCHANGED <<issue, affected, timeline, notices, triaged, faults>>
  BY DEF CommitUngrouped, IInv, InTransaction
<1>3. /\ \A v \in Worker : tx'[v] = IF v = w THEN IdleTx ELSE tx[v]
      /\ \A d \in Event : event'[d] = IF d = e THEN [state |-> s, issue |-> None]
                                     ELSE event[d]
      /\ IdleTx.pc = "idle"
  BY <1>1, <1>2 DEF IInv, TypeOK, IdleTx, At
<1>4. TypeOK'
  BY <1>1, <1>2, TxOps DEF IInv, TypeOK, EventRow
<1>5. ASSUME NEW v \in Worker
      PROVE  InTransaction(v)' /\ ReadIsCurrent(v)'
  <2>1. CASE v = w
    BY <1>3, <2>1 DEF InTransaction, ReadIsCurrent
  <2>2. CASE v # w
    <3>1. /\ tx'[v] = tx[v] /\ InTransaction(v) /\ ReadIsCurrent(v)
          /\ tx[v].pc \notin {"idle", "symbolicated"} => tx[v].event # e
      BY <1>2, <1>3, <2>2 DEF IInv, LocksExclusive, HoldsEvent
    <3>2. QED
      BY <1>2, <1>3, <3>1 DEF InTransaction, ReadIsCurrent
  <2>3. QED
    BY <2>1, <2>2
<1>6. LocksExclusive'
  BY <1>3 DEF IInv, LocksExclusive, HoldsEvent, HoldsIssue
<1>7. OnlyProcessedGrouped' /\ ResolvedIsStamped'
  BY <1>2, <1>3 DEF IInv, OnlyProcessedGrouped, ResolvedIsStamped
<1>8. ASSUME NEW f \in Fingerprint
      PROVE  NumbersAreExact(f)'
  <2>1. CountedIn(f)' = CountedIn(f)
    <3>1. \A d \in Event : event'[d].state = "processed" /\ event'[d].issue = f
            <=> event[d].state = "processed" /\ event[d].issue = f
      BY <1>2, <1>3 DEF Plan
    <3>2. QED
      BY <3>1 DEF CountedIn
  <2>2. NumbersAreExact(f)
    BY DEF IInv
  <2>3. QED
    BY <1>2, <2>1, <2>2 DEF NumbersAreExact
<1>9. QED
  BY <1>4, <1>5, <1>6, <1>7, <1>8 DEF IInv

\* A triage request writes a status or an assignee to a row nobody holds.
LEMMA TriageStep ==
  ASSUME IInv, NEW f \in Fingerprint, NEW s \in Status, NEW r \in BOOLEAN,
         NEW m \in Member \cup {None}, NEW entry \in Entry,
         NEW N \in Seq(Notice),
         r <=> s = "resolved",
         triaged < MaxTriage, issue[f].exists, IssueFree(f),
         issue' = [issue EXCEPT ![f] = Patched(issue[f], s, r, m)],
         timeline' = [timeline EXCEPT ![f] = Append(timeline[f], entry)],
         notices' = [notices EXCEPT ![f] = N],
         triaged' = triaged + 1,
         UNCHANGED <<event, affected, tx, faults>>
  PROVE  IInv'
<1> USE ConstantsAssumption
<1>1. issue[f] \in IssueRow /\ timeline[f] \in Seq(Entry)
  BY DEF IInv, TypeOK
<1>2. TypeOK'
  <2>1. CASE Event = {}
    <3>1. ~issue[f].exists
      BY <2>1 DEF IInv, NumbersAreExact, CountedIn
    <3>2. QED
      BY <3>1
  <2>2. CASE Event # {}
    <3>1. Patched(issue[f], s, r, m) \in IssueRow
      BY <1>1, <2>2, RowOps
    <3>2. Append(timeline[f], entry) \in Seq(Entry)
      BY <1>1
    <3>3. QED
      BY <3>1, <3>2 DEF IInv, TypeOK
  <2>3. QED
    BY <2>1, <2>2
<1>3. \A g \in Fingerprint : issue'[g] = IF g = f THEN Patched(issue[f], s, r, m)
                                       ELSE issue[g]
  BY DEF IInv, TypeOK
<1>4. \A g \in Fingerprint : issue'[g].exists <=> issue[g].exists
  BY <1>3 DEF Patched
<1>5. ASSUME NEW v \in Worker
      PROVE  InTransaction(v)' /\ ReadIsCurrent(v)'
  <2>1. InTransaction(v) /\ ReadIsCurrent(v) /\ ~HoldsIssue(v, f)
    BY DEF IInv, IssueFree
  <2>2. InTransaction(v)'
    BY <1>4, <2>1 DEF InTransaction
  <2>3. ReadIsCurrent(v)'
    BY <1>3, <2>1 DEF ReadIsCurrent, HoldsIssue, InTransaction
  <2>4. QED
    BY <2>2, <2>3
<1>6. LocksExclusive' /\ OnlyProcessedGrouped'
  BY DEF IInv, LocksExclusive, HoldsEvent, HoldsIssue, OnlyProcessedGrouped
<1>9. ResolvedIsStamped'
  BY <1>3 DEF IInv, ResolvedIsStamped, Patched
<1>7. ASSUME NEW g \in Fingerprint
      PROVE  NumbersAreExact(g)'
  <2>1. CountedIn(g)' = CountedIn(g)
    BY DEF CountedIn
  <2>2. NumbersAreExact(g)
    BY DEF IInv
  <2>3. /\ issue'[g].exists <=> issue[g].exists
        /\ issue'[g].firstRelease = issue[g].firstRelease
        /\ issue'[g].lastRelease = issue[g].lastRelease
        /\ g # f => issue'[g] = issue[g]
    BY <1>3 DEF Patched
  <2>4. /\ issue'[g].occurrences = issue[g].occurrences
        /\ issue'[g].sessions = issue[g].sessions
        /\ issue'[g].first = issue[g].first /\ issue'[g].last = issue[g].last
    BY <1>3 DEF Patched
  <2>5. QED
    BY <2>1, <2>2, <2>3, <2>4 DEF NumbersAreExact
<1>10. QED
  BY <1>2, <1>5, <1>6, <1>7, <1>9 DEF IInv

\* Every step keeps the invariant: one case per action.
LEMMA NextIInv == IInv /\ [Next]_vars => IInv'
<1> SUFFICES ASSUME IInv, [Next]_vars PROVE IInv'
  OBVIOUS
<1> USE ConstantsAssumption
<1>1. ASSUME NEW w \in Worker, CommitUngrouped(w)
      PROVE  IInv'
  <2>1. tx[w].event \in Event
    BY <1>1 DEF IInv, InTransaction, CommitUngrouped
  <2>2. QED
    BY <1>1, <2>1, CommitUngroupedStep
<1>2. ASSUME NEW w \in Worker, CommitGrouped(w)
      PROVE  IInv'
  <2>1. tx[w].event \in Event /\ tx[w].plan \in Fingerprint
    BY <1>2 DEF IInv, InTransaction, CommitGrouped
  <2>2. QED
    BY <1>2, <2>1, CommitGroupedStep
<1>3. ASSUME NEW f \in Fingerprint
      PROVE  /\ issue[f].status \in Status /\ issue[f].resolved \in BOOLEAN
             /\ issue[f].assignee \in Member \cup {None}
             /\ issue[f].resolved <=> issue[f].status = "resolved"
             /\ notices \in [Fingerprint -> Seq(Notice)] /\ notices[f] \in Seq(Notice)
             /\ issue \in [Fingerprint -> IssueRow]
  BY DEF IInv, TypeOK, IssueRow, ResolvedIsStamped
<1>4. ASSUME NEW f \in Fingerprint, NEW s \in Status, UpdateIssueStatus(f, s)
      PROVE  IInv'
  <2>1. /\ [type |-> "status_changed", value |-> s] \in Entry
        /\ (s = "resolved") \in BOOLEAN
    BY DEF Entry
  <2>2. notices' = [notices EXCEPT ![f] = notices[f]]
    BY <1>3, <1>4 DEF UpdateIssueStatus
  <2> DEFINE entry == [type |-> "status_changed", value |-> s]
             r == s = "resolved"
  <2>3. /\ issue' = [issue EXCEPT ![f] = Patched(issue[f], s, r, issue[f].assignee)]
        /\ timeline' = [timeline EXCEPT ![f] = Append(timeline[f], entry)]
        /\ triaged < MaxTriage /\ issue[f].exists /\ IssueFree(f)
        /\ triaged' = triaged + 1
        /\ UNCHANGED <<event, affected, tx, faults>>
    BY <1>4 DEF UpdateIssueStatus
  <2>4. entry \in Entry /\ r \in BOOLEAN /\ (r <=> s = "resolved")
    BY <2>1
  <2> HIDE DEF entry, r
  <2>5. QED
    BY <1>3, <2>2, <2>3, <2>4, TriageStep
<1>5. ASSUME NEW f \in Fingerprint, NEW actor \in Member, NEW user \in Member \cup {None},
             UpdateIssueAssignee(f, actor, user)
      PROVE  IInv'
  <2> DEFINE N == IF user \notin {None, actor}
                    THEN Append(notices[f], [type |-> "issue_assigned", user |-> user])
                    ELSE notices[f]
             entry == [type |-> IF user = None THEN "unassigned" ELSE "assigned",
                       value |-> user]
  <2>1. entry \in Entry
    BY DEF Entry
  <2>2. N \in Seq(Notice)
    <3>1. user # None => [type |-> "issue_assigned", user |-> user] \in Notice
      BY DEF Notice
    <3>2. QED
      BY <1>3, <3>1
  <2>3. /\ issue' = [issue EXCEPT ![f] =
              Patched(issue[f], issue[f].status, issue[f].resolved, user)]
        /\ timeline' = [timeline EXCEPT ![f] = Append(timeline[f], entry)]
        /\ notices' = [notices EXCEPT ![f] = N]
        /\ triaged < MaxTriage /\ issue[f].exists /\ IssueFree(f)
        /\ triaged' = triaged + 1
        /\ UNCHANGED <<event, affected, tx, faults>>
    BY <1>5 DEF UpdateIssueAssignee
  <2> HIDE DEF N, entry
  <2>4. QED
    BY <1>3, <2>1, <2>2, <2>3, TriageStep
<1>6. CASE UNCHANGED vars
  <2>1. \A f \in Fingerprint : CountedIn(f)' = CountedIn(f)
    BY <1>6 DEF vars, CountedIn
  <2>2. ASSUME NEW f \in Fingerprint
        PROVE  NumbersAreExact(f)'
    BY <1>6, <2>1 DEF IInv, vars, NumbersAreExact
  <2>3. QED
    BY <1>6, <2>2 DEF IInv, vars, TypeOK, InTransaction, ReadIsCurrent,
          LocksExclusive, HoldsEvent, HoldsIssue, OnlyProcessedGrouped,
          ResolvedIsStamped
<1>7. QED
  BY <1>1, <1>2, <1>4, <1>5, <1>6, LocalActions DEF Next, Consume

\* The strengthened invariant holds in every reachable state.
THEOREM Invariance == Spec => []IInv
<1>1. QED
  BY InitIInv, NextIInv, PTL DEF Spec

\* Every row and every local state stays well-formed, whatever the consumers
\* and the triage requests interleave.
THEOREM TypeCorrect == Spec => []TypeOK
<1>1. IInv => TypeOK
  BY DEF IInv
<1>2. QED
  BY <1>1, Invariance, PTL

\* first_release and last_release never part from the events that define
\* first_seen_at and last_seen_at.
THEOREM Releases == Spec => []ReleasesFollowTimes
<1>1. IInv => ReleasesFollowTimes
  BY DEF IInv, ReleasesFollowTimes, NumbersAreExact
<1>2. QED
  BY <1>1, Invariance, PTL

\* An occurrence is never buried in a resolved issue, whoever resolves it
\* while the event is on its way.
THEOREM Reopening == Spec => OccurrenceReopens
<1> DEFINE Reopens == \A f \in Fingerprint :
             issue'[f].occurrences # issue[f].occurrences
               => issue'[f].status # "resolved" /\ ~issue'[f].resolved
<1>1. IInv /\ [Next]_vars => Reopens
  <2> SUFFICES ASSUME IInv, [Next]_vars, NEW f \in Fingerprint,
                      issue'[f].occurrences # issue[f].occurrences
               PROVE  issue'[f].status # "resolved" /\ ~issue'[f].resolved
    OBVIOUS
  <2>1. issue \in [Fingerprint -> IssueRow]
    BY DEF IInv, TypeOK
  <2>2. ASSUME NEW w \in Worker, CommitGrouped(w)
        PROVE  issue'[f].status # "resolved" /\ ~issue'[f].resolved
    <3>1. tx[w].plan = f
      BY <2>1, <2>2 DEF CommitGrouped
    <3>2. issue'[f] = Occurrence(IF tx[w].created THEN NewIssue(tx[w].event) ELSE issue[f],
                                 tx[w].event, tx[w].newSession, ReopensAsRegression(w))
      BY <2>1, <2>2, <3>1 DEF CommitGrouped
    <3>3. /\ tx[w].created \in BOOLEAN
          /\ tx[w].created => tx[w].status = "open"
          /\ ~tx[w].created => tx[w].status = issue[f].status
      BY <2>2, <3>1 DEF IInv, ReadIsCurrent, TypeOK, TxState, CommitGrouped
    <3>4. issue[f].resolved <=> issue[f].status = "resolved"
      BY DEF IInv, ResolvedIsStamped
    <3>5. QED
      BY <3>2, <3>3, <3>4 DEF Occurrence, NewIssue, ReopensAsRegression
  <2>3. ASSUME NEW g \in Fingerprint, NEW s \in Status, UpdateIssueStatus(g, s)
        PROVE  FALSE
    BY <2>1, <2>3 DEF UpdateIssueStatus, Patched
  <2>4. ASSUME NEW g \in Fingerprint, NEW a \in Member, NEW u \in Member \cup {None},
               UpdateIssueAssignee(g, a, u)
        PROVE  FALSE
    BY <2>1, <2>4 DEF UpdateIssueAssignee, Patched
  <2>5. issue' # issue
    OBVIOUS
  <2>6. QED
    BY <2>2, <2>3, <2>4, <2>5 DEF Next, Consume, vars, Symbolicate, LockEvent,
       CommitUngrouped, LockIssue, InsertIssueIfAbsent, RelockIssue,
       RecordIssueAffectedSession, Abort
<1>2. QED
  BY <1>1, Invariance, PTL DEF Spec, OccurrenceReopens

-----------------------------------------------------------------------------
\* The summary of a set of events whose first and last times are known.
LEMMA SummaryOf ==
  ASSUME NEW C \in SUBSET Event, NEW a \in Nat, NEW b \in Nat,
         \E e \in C : OccurredAt[e] = a,
         \E e \in C : OccurredAt[e] = b,
         \A e \in C : a <= OccurredAt[e] /\ OccurredAt[e] <= b
  PROVE  Acc!Summary(C) =
           [occurrences |-> Cardinality(C),
            sessions    |-> Cardinality({SessionOf[e] : e \in C}),
            first |-> a, last |-> b]
<1> DEFINE T == {OccurredAt[e] : e \in C}
<1>1. T \subseteq Nat /\ a \in T /\ b \in T /\ \A t \in T : a <= t /\ t <= b
  BY ConstantsAssumption
<1> HIDE DEF T
<1>2. Acc!Earliest(T) = a
  <2>1. \A t \in T : (\A u \in T : t <= u) <=> t = a
    BY <1>1
  <2>2. QED
    BY <1>1, <2>1 DEF Acc!Earliest
<1>3. Acc!Latest(T) = b
  <2>1. \A t \in T : (\A u \in T : t >= u) <=> t = b
    BY <1>1
  <2>2. QED
    BY <1>1, <2>1 DEF Acc!Latest
<1>4. \A S : Acc!Cardinality(S) = Cardinality(S)
  BY DEF Acc!Cardinality, Cardinality
<1>5. QED
  BY <1>2, <1>3, <1>4 DEF Acc!Summary, T

\* A state in which nothing is counted maps to the initial abstract state.
LEMMA InitRefines == Init => Acc!Init
<1> SUFFICES ASSUME Init PROVE Acc!Init
  OBVIOUS
<1>1. \A f \in Fingerprint : CountedIn(f) = {} /\ Numbers(f) = Acc!Nothing
  BY DEF Init, CountedIn, Numbers, NoIssue, Acc!Nothing
<1>2. Ungrouped = {}
  BY DEF Init, Ungrouped
<1>3. QED
  BY <1>1, <1>2 DEF Acc!Init

\* Every step counts one event that had not ended in one issue, closes one such
\* event, or changes no event row and no number.
LEMMA NextRefines ==
  IInv /\ IInv' /\ [Next]_vars => [Acc!Next]_(Acc!vars)
<1> SUFFICES ASSUME IInv, IInv', [Next]_vars
             PROVE  [Acc!Next]_(Acc!vars)
  OBVIOUS
<1> USE ConstantsAssumption
<1>1. ASSUME UNCHANGED event, \A f \in Fingerprint : Numbers(f)' = Numbers(f)
      PROVE  UNCHANGED Acc!vars
  <2>1. Ungrouped' = Ungrouped /\ \A f \in Fingerprint : CountedIn(f)' = CountedIn(f)
    BY <1>1 DEF Ungrouped, CountedIn
  <2>2. QED
    BY <1>1, <2>1 DEF Acc!vars
<1>2. ASSUME UNCHANGED <<event, issue>>
      PROVE  UNCHANGED Acc!vars
  <2>1. \A f \in Fingerprint : Numbers(f)' = Numbers(f)
    BY <1>2 DEF Numbers
  <2>2. QED
    BY <1>1, <1>2, <2>1
<1>3. ASSUME NEW e \in Event, event[e].state = "pending"
      PROVE  ~Acc!Ended(e)
  BY <1>3 DEF Acc!Ended, Ungrouped, CountedIn
<1>4. ASSUME NEW w \in Worker, CommitUngrouped(w),
             NEW e \in Event, tx[w].event = e
      PROVE  Acc!Close(e)
  <2>1. event[e].state = "pending" /\ UNCHANGED issue
    BY <1>4 DEF CommitUngrouped, IInv, InTransaction
  <2>2. PICK s \in {"rejected", "processed"} :
          \A d \in Event : event'[d] = IF d = e THEN [state |-> s, issue |-> None]
                                     ELSE event[d]
    BY <1>4 DEF CommitUngrouped, IInv, TypeOK
  <2>3. Ungrouped' = Ungrouped \cup {e}
    <3>1. \A d \in Event : event'[d].state # "pending" /\ event'[d].issue = None
            <=> d = e \/ (event[d].state # "pending" /\ event[d].issue = None)
      BY <2>2
    <3>2. QED
      BY <3>1 DEF Ungrouped
  <2>4. ASSUME NEW f \in Fingerprint
        PROVE  CountedIn(f)' = CountedIn(f) /\ Numbers(f)' = Numbers(f)
    <3>1. \A d \in Event : event'[d].state = "processed" /\ event'[d].issue = f
            <=> event[d].state = "processed" /\ event[d].issue = f
      BY <2>1, <2>2 DEF Plan
    <3>2. QED
      BY <2>1, <3>1 DEF CountedIn, Numbers
  <2>5. QED
    BY <1>3, <2>1, <2>3, <2>4 DEF Acc!Close
<1>5. ASSUME NEW w \in Worker, CommitGrouped(w),
             NEW e \in Event, NEW f \in Fingerprint,
             tx[w].event = e, tx[w].plan = f
      PROVE  Acc!Count(e, f)
  <2>1. event[e].state = "pending"
    BY <1>5 DEF CommitGrouped, IInv, InTransaction
  <2>2. /\ \A d \in Event : event'[d] = IF d = e THEN [state |-> "processed", issue |-> f]
                                       ELSE event[d]
        /\ \A g \in Fingerprint : g # f => issue'[g] = issue[g]
    BY <1>5 DEF CommitGrouped, IInv, TypeOK
  <2>3. Ungrouped' = Ungrouped
    <3>1. \A d \in Event : event'[d].state # "pending" /\ event'[d].issue = None
            <=> event[d].state # "pending" /\ event[d].issue = None
      BY <2>1, <2>2 DEF Plan
    <3>2. QED
      BY <3>1 DEF Ungrouped
  <2>4. ASSUME NEW g \in Fingerprint
        PROVE  CountedIn(g)' = IF g = f THEN CountedIn(g) \cup {e} ELSE CountedIn(g)
    <3>1. event[e].issue = None
      BY <2>1 DEF IInv, OnlyProcessedGrouped
    <3>2. \A d \in Event : event'[d].state = "processed" /\ event'[d].issue = g
            <=> (d = e /\ g = f) \/ (event[d].state = "processed" /\ event[d].issue = g)
      BY <2>1, <2>2
    <3>3. CountedIn(g)' = {d \in Event : (d = e /\ g = f) \/
                             (event[d].state = "processed" /\ event[d].issue = g)}
      BY <3>2 DEF CountedIn
    <3>4. QED
      BY <3>3 DEF CountedIn
  <2>5. Numbers(f)' = Acc!Summary(CountedIn(f) \cup {e})
    <3>1. Numbers(f)' = Acc!Summary(CountedIn(f)')
      <4>1. /\ NumbersAreExact(f)' /\ issue'[f] \in IssueRow
            /\ CountedIn(f)' \subseteq Event /\ e \in CountedIn(f)'
        BY <2>4 DEF IInv, TypeOK, CountedIn
      <4>2. QED
        BY <4>1, SummaryOf DEF NumbersAreExact, Numbers, IssueRow
    <3>2. QED
      BY <2>4, <3>1
  <2>6. \A g \in Fingerprint : g # f => Numbers(g)' = Numbers(g)
    BY <2>2 DEF Numbers
  <2>7. QED
    BY <1>3, <2>1, <2>3, <2>4, <2>5, <2>6 DEF Acc!Count
<1>6. ASSUME NEW f \in Fingerprint, NEW s, NEW r, NEW m, UNCHANGED event,
             issue' = [issue EXCEPT ![f] = Patched(issue[f], s, r, m)]
      PROVE  UNCHANGED Acc!vars
  <2>1. \A g \in Fingerprint : Numbers(g)' = Numbers(g)
    BY <1>6 DEF Numbers, Patched, IInv, TypeOK
  <2>2. QED
    BY <1>1, <1>6, <2>1
<1>7. ASSUME NEW w \in Worker, CommitUngrouped(w)
      PROVE  Acc!Next
  <2>1. tx[w].event \in Event
    BY <1>7 DEF CommitUngrouped, IInv, InTransaction
  <2>2. QED
    BY <1>4, <1>7, <2>1 DEF Acc!Next
<1>8. ASSUME NEW w \in Worker, CommitGrouped(w)
      PROVE  Acc!Next
  <2>1. tx[w].event \in Event /\ tx[w].plan \in Fingerprint
    BY <1>8 DEF CommitGrouped, IInv, InTransaction
  <2>2. QED
    BY <1>5, <1>8, <2>1 DEF Acc!Next
<1>9. ASSUME NEW f \in Fingerprint, NEW s \in Status, UpdateIssueStatus(f, s)
      PROVE  UNCHANGED Acc!vars
  BY <1>6, <1>9 DEF UpdateIssueStatus
<1>10. ASSUME NEW f \in Fingerprint, NEW a \in Member, NEW u \in Member \cup {None},
              UpdateIssueAssignee(f, a, u)
       PROVE  UNCHANGED Acc!vars
  BY <1>6, <1>10 DEF UpdateIssueAssignee
<1>11. QED
  BY <1>2, <1>7, <1>8, <1>9, <1>10 DEF Next, Consume, vars, Symbolicate, LockEvent,
     LockIssue, InsertIssueIfAbsent, RelockIssue, RecordIssueAffectedSession, Abort

\* Concurrent, repeated and rolled back processing implements the accounting:
\* each event is counted in one issue and once, or closed, and the numbers of
\* every issue are the summary of its events at all times.
THEOREM Refinement == Spec => RefinesAccounting
<1>1. QED
  BY InitRefines, NextRefines, Invariance, PTL DEF Spec, RefinesAccounting, Acc!Spec


-----------------------------------------------------------------------------
\* What is written beside the numbers of an issue: its timeline and the notices

StatusTypes   == {"created", "regression_detected", "status_changed"}
AssigneeTypes == {"assigned", "unassigned"}

\* The positions up to n whose entry has one of the types.
Positions(T, n, types) == {i \in 1..n : T[i].type \in types}

\* One timeline and the row it explains, as in TimelineExplainsIssue.
Explains(T, row) ==
  /\ row.exists <=> T # <<>>
  /\ \A i \in DOMAIN T : T[i].type = "created" <=> i = 1
  /\ \A i \in DOMAIN T : T[i].type = "regression_detected" =>
       StatusAfter(T, i - 1) = "resolved"
  /\ \A i \in DOMAIN T : T[i].type = "status_changed" =>
       StatusAfter(T, i - 1) # T[i].value
  /\ \A i \in DOMAIN T : T[i].type \in AssigneeTypes =>
       AssigneeAfter(T, i - 1) # T[i].value
  /\ row.exists =>
       /\ row.status = StatusAfter(T, Len(T))
       /\ row.assignee = AssigneeAfter(T, Len(T))
       /\ row.resolved <=> row.status = "resolved"

\* The notices to a member about regressions, and the regressions of which the
\* member was to be told.
ToldOf(N, m) ==
  {i \in DOMAIN N : N[i] = [type |-> "issue_regression", user |-> m]}
ToTell(T, m) ==
  {i \in DOMAIN T : T[i].type = "regression_detected" /\ AssigneeAfter(T, i) = m}

AllTold(N, T) ==
  \A m \in Member : Cardinality(ToldOf(N, m)) = Cardinality(ToTell(T, m))

HistoryInv ==
  \A f \in Fingerprint : Explains(timeline[f], issue[f]) /\ AllTold(notices[f], timeline[f])

-----------------------------------------------------------------------------
\* Positions of a sequence have a last one: of the sets of the positions after
\* each of them, one has no other of these sets as a proper subset.
LEMMA LastExists ==
  ASSUME NEW n \in Nat, NEW I \in SUBSET (1..n), I # {}
  PROVE  \E i \in I : \A j \in I : j <= i
<1> DEFINE S == 1..n
           After(i) == {j \in S : i < j}
           D == {After(i) : i \in I}
           R == StrictSubsetOrdering(S)
<1>1. IsFiniteSet(S)
  BY FS_Interval
<1>2. IsWellFoundedOn(R, SUBSET S)
  BY <1>1, FS_StrictSubsetOrderingWellFounded, FS_FiniteSubsetsOfFinite
<1>3. D \subseteq SUBSET S /\ D # {}
  OBVIOUS
<1>4. PICK d \in D : \A e \in D : ~(<<e, d>> \in R)
  <2> HIDE DEF D, R, S
  <2>1. QED
    BY <1>2, <1>3, WFMin
<1>5. PICK i \in I : d = After(i)
  BY <1>4
<1>6. ASSUME NEW j \in I, i < j
      PROVE  FALSE
  <2>1. After(j) \subseteq After(i) /\ j \in After(i) /\ j \notin After(j)
    BY <1>6
  <2>2. <<After(j), After(i)>> \in R
    <3>1. After(j) # After(i) /\ After(j) \in SUBSET S /\ After(i) \in SUBSET S
      BY <2>1
    <3> HIDE DEF After, S
    <3>2. QED
      BY <2>1, <3>1 DEF StrictSubsetOrdering
  <2>3. QED
    BY <1>4, <1>5, <2>2
<1>7. \A j \in I : j <= i
  BY <1>6
<1>8. QED
  BY <1>7

\* What an appended entry leaves of the value told by the entries before it.
LEMMA LatestOfAppend ==
  ASSUME NEW T \in Seq(Entry), NEW x \in Entry, NEW types
  PROVE  /\ \A n \in 0..Len(T) :
              LatestValue(Append(T, x), n, types) = LatestValue(T, n, types)
         /\ LatestValue(Append(T, x), Len(T) + 1, types) =
              IF x.type \in types THEN x.value ELSE LatestValue(T, Len(T), types)
<1> DEFINE A == Append(T, x)
           L == Len(T)
           Last(I) == CHOOSE i \in I : \A j \in I : j <= i
           ValueIn(s, I) == IF I = {} THEN None ELSE s[Last(I)].value
<1>1. /\ L \in Nat /\ A[L + 1] = x
      /\ \A i \in 1..L : A[i] = T[i]
  OBVIOUS
<1>2. \A s, k : LatestValue(s, k, types) = ValueIn(s, Positions(s, k, types))
  BY DEF LatestValue, Positions
<1> HIDE DEF A, L
<1>3. ASSUME NEW n \in 0..L, NEW k,
             Positions(A, k, types) = Positions(T, n, types)
      PROVE  LatestValue(A, k, types) = LatestValue(T, n, types)
  <2> DEFINE I == Positions(T, n, types)
  <2>1. n \in Nat /\ I \in SUBSET (1..n)
    BY <1>1 DEF Positions
  <2>2. /\ LatestValue(A, k, types) = ValueIn(A, I)
        /\ LatestValue(T, n, types) = ValueIn(T, I)
    <3> HIDE DEF ValueIn
    <3>1. QED
      BY <1>2, <1>3
  <2> HIDE DEF I
  <2>3. I # {} => Last(I) \in I
    BY <2>1, LastExists
  <2> HIDE DEF Last
  <2>4. I # {} => A[Last(I)] = T[Last(I)]
    <3>1. I \subseteq 1..L
      BY <1>1, <2>1
    <3>2. QED
      BY <1>1, <2>3, <3>1
  <2>5. QED
    BY <2>2, <2>4
<1>4. ASSUME NEW n \in 0..L
      PROVE  LatestValue(A, n, types) = LatestValue(T, n, types)
  <2>1. \A i \in 1..n : A[i] = T[i]
    BY <1>1
  <2>2. Positions(A, n, types) = Positions(T, n, types)
    BY <2>1 DEF Positions
  <2>3. QED
    BY <1>3, <2>2
<1>5. CASE x.type \in types
  <2> DEFINE I == Positions(A, L + 1, types)
  <2>1. /\ L + 1 \in I
        /\ \A i \in I : (\A j \in I : j <= i) <=> i = L + 1
    BY <1>1, <1>5 DEF Positions
  <2>2. LatestValue(A, L + 1, types) = ValueIn(A, I)
    <3> HIDE DEF ValueIn
    <3>1. QED
      BY <1>2
  <2> HIDE DEF I
  <2>3. Last(I) = L + 1
    BY <2>1
  <2> HIDE DEF Last
  <2>4. LatestValue(A, L + 1, types) = x.value
    BY <1>1, <2>1, <2>2, <2>3
  <2>5. QED
    BY <1>4, <1>5, <2>4 DEF A, L
<1>6. CASE x.type \notin types
  <2>1. L + 1 \in Nat /\ 1..(L + 1) = (1..L) \cup {L + 1}
    BY <1>1
  <2>2. Positions(A, L + 1, types) = Positions(T, L, types)
    BY <1>1, <1>6, <2>1 DEF Positions
  <2>3. LatestValue(A, L + 1, types) = LatestValue(T, L, types)
    BY <1>1, <1>3, <2>2
  <2>4. QED
    BY <1>4, <1>6, <2>3 DEF A, L
<1>7. QED
  BY <1>5, <1>6

-----------------------------------------------------------------------------
\* What an appended entry makes of the status and the assignee it leaves.
LEMMA AfterAppend ==
  ASSUME NEW T \in Seq(Entry), NEW x \in Entry
  PROVE  /\ \A n \in 0..Len(T) :
              /\ StatusAfter(Append(T, x), n) = StatusAfter(T, n)
              /\ AssigneeAfter(Append(T, x), n) = AssigneeAfter(T, n)
         /\ StatusAfter(Append(T, x), Len(T) + 1) =
              IF x.type \in StatusTypes THEN x.value ELSE StatusAfter(T, Len(T))
         /\ AssigneeAfter(Append(T, x), Len(T) + 1) =
              IF x.type \in AssigneeTypes THEN x.value ELSE AssigneeAfter(T, Len(T))
<1>1. ASSUME NEW types
      PROVE  /\ \A n \in 0..Len(T) :
                  LatestValue(Append(T, x), n, types) = LatestValue(T, n, types)
             /\ LatestValue(Append(T, x), Len(T) + 1, types) =
                  IF x.type \in types THEN x.value ELSE LatestValue(T, Len(T), types)
  BY LatestOfAppend
<1>2. \A s, n : /\ StatusAfter(s, n) = LatestValue(s, n, StatusTypes)
                /\ AssigneeAfter(s, n) = LatestValue(s, n, AssigneeTypes)
  BY DEF StatusAfter, AssigneeAfter, StatusTypes, AssigneeTypes
<1>3. QED
  BY <1>1, <1>2

\* Nothing has been told of an issue that has no entry.
LEMMA NothingYet ==
  ASSUME NEW T, T = <<>>
  PROVE  StatusAfter(T, Len(T)) = None /\ AssigneeAfter(T, Len(T)) = None
<1>1. \A types : {i \in 1..Len(T) : T[i].type \in types} = {}
  OBVIOUS
<1>2. \A types : LatestValue(T, Len(T), types) = None
  BY <1>1 DEF LatestValue
<1>3. QED
  BY <1>2 DEF StatusAfter, AssigneeAfter

\* An entry that says what changes in the row keeps the row explained.
LEMMA AppendExplains ==
  ASSUME NEW T \in Seq(Entry), NEW x \in Entry, NEW row, NEW next,
         Explains(T, row),
         ~row.exists => row.assignee = None,
         next.exists,
         x.type = "created" <=> ~row.exists,
         x.type = "regression_detected" => row.status = "resolved",
         x.type = "status_changed" => row.status # x.value,
         x.type \in AssigneeTypes => row.assignee # x.value,
         next.status = IF x.type \in StatusTypes THEN x.value ELSE row.status,
         next.assignee = IF x.type \in AssigneeTypes THEN x.value ELSE row.assignee,
         next.resolved <=> next.status = "resolved"
  PROVE  Explains(Append(T, x), next)
<1> DEFINE A == Append(T, x)
           L == Len(T)
<1>1. /\ L \in Nat /\ Len(A) = L + 1 /\ A[L + 1] = x /\ A # <<>>
      /\ DOMAIN A = 1..(L + 1) /\ DOMAIN T = 1..L
      /\ \A i \in 1..L : A[i] = T[i]
      /\ T = <<>> <=> L = 0
  OBVIOUS
<1>2. /\ \A n \in 0..L : /\ StatusAfter(A, n) = StatusAfter(T, n)
                         /\ AssigneeAfter(A, n) = AssigneeAfter(T, n)
      /\ StatusAfter(A, L + 1) =
           IF x.type \in StatusTypes THEN x.value ELSE StatusAfter(T, L)
      /\ AssigneeAfter(A, L + 1) =
           IF x.type \in AssigneeTypes THEN x.value ELSE AssigneeAfter(T, L)
  BY AfterAppend
<1>3. /\ row.exists <=> L # 0
      /\ row.exists => row.status = StatusAfter(T, L) /\ row.assignee = AssigneeAfter(T, L)
  BY <1>1 DEF Explains
<1>4. L = 0 => AssigneeAfter(T, L) = None
  BY <1>1, NothingYet
<1> HIDE DEF A, L
<1>5. ASSUME NEW i \in DOMAIN A
      PROVE  /\ A[i].type = "created" <=> i = 1
             /\ A[i].type = "regression_detected" => StatusAfter(A, i - 1) = "resolved"
             /\ A[i].type = "status_changed" => StatusAfter(A, i - 1) # A[i].value
             /\ A[i].type \in AssigneeTypes => AssigneeAfter(A, i - 1) # A[i].value
  <2>1. CASE i = L + 1
    <3>1. /\ A[i] = x /\ i - 1 = L
          /\ StatusAfter(A, i - 1) = StatusAfter(T, L)
          /\ AssigneeAfter(A, i - 1) = AssigneeAfter(T, L)
      BY <1>1, <1>2, <2>1
    <3>2. CASE L = 0
      <4>1. ~row.exists /\ x.type = "created" /\ i = 1
        BY <1>3, <2>1, <3>2
      <4>2. QED
        BY <3>1, <4>1 DEF AssigneeTypes
    <3>3. CASE L # 0
      <4>1. /\ row.exists /\ x.type # "created" /\ i # 1
            /\ row.status = StatusAfter(T, L) /\ row.assignee = AssigneeAfter(T, L)
        BY <1>1, <1>3, <2>1, <3>3
      <4>2. QED
        BY <3>1, <4>1
    <3>4. QED
      BY <3>2, <3>3
  <2>2. CASE i # L + 1
    <3>1. i \in DOMAIN T /\ A[i] = T[i] /\ i - 1 \in 0..L
      BY <1>1, <2>2
    <3>2. /\ StatusAfter(A, i - 1) = StatusAfter(T, i - 1)
          /\ AssigneeAfter(A, i - 1) = AssigneeAfter(T, i - 1)
      BY <1>2, <3>1
    <3>3. QED
      BY <3>1, <3>2 DEF Explains
  <2>3. QED
    BY <2>1, <2>2
<1>6. next.status = StatusAfter(A, Len(A)) /\ next.assignee = AssigneeAfter(A, Len(A))
  <2>1. CASE L = 0
    <3>1. x.type = "created" /\ row.assignee = None
      BY <1>3, <2>1
    <3>2. QED
      BY <1>1, <1>2, <1>4, <2>1, <3>1 DEF StatusTypes, AssigneeTypes
  <2>2. CASE L # 0
    BY <1>1, <1>2, <1>3, <2>2
  <2>3. QED
    BY <2>1, <2>2
<1>7. Explains(A, next)
  BY <1>1, <1>5, <1>6 DEF Explains
<1>8. QED
  BY <1>7 DEF A

\* A member is to be told of one regression more by an entry that tells of one
\* while the member is the assignee, and of no other entry.
LEMMA ToTellAppend ==
  ASSUME NEW T \in Seq(Entry), NEW x \in Entry, NEW m
  PROVE  Cardinality(ToTell(Append(T, x), m)) =
           IF x.type = "regression_detected" /\ AssigneeAfter(T, Len(T)) = m
             THEN Cardinality(ToTell(T, m)) + 1 ELSE Cardinality(ToTell(T, m))
<1> DEFINE A == Append(T, x)
           L == Len(T)
<1>1. /\ L \in Nat /\ A[L + 1] = x
      /\ DOMAIN A = 1..(L + 1) /\ DOMAIN T = 1..L
      /\ \A i \in 1..L : A[i] = T[i]
  OBVIOUS
<1>2. /\ \A n \in 1..L : AssigneeAfter(A, n) = AssigneeAfter(T, n)
      /\ x.type = "regression_detected" =>
           AssigneeAfter(A, L + 1) = AssigneeAfter(T, L)
  BY AfterAppend DEF AssigneeTypes
<1> HIDE DEF A, L
<1>3. ToTell(T, m) \subseteq 1..L /\ IsFiniteSet(ToTell(T, m)) /\ L + 1 \notin ToTell(T, m)
  <2>1. ToTell(T, m) \subseteq 1..L
    BY <1>1 DEF ToTell
  <2>2. IsFiniteSet(1..L)
    BY <1>1, FS_Interval
  <2>3. IsFiniteSet(ToTell(T, m))
    BY <2>1, <2>2, FS_Subset
  <2>4. QED
    BY <1>1, <2>1, <2>3
<1>4. ASSUME NEW i
      PROVE  i \in ToTell(A, m) <=>
               \/ i \in ToTell(T, m)
               \/ /\ i = L + 1 /\ x.type = "regression_detected"
                  /\ AssigneeAfter(T, L) = m
  <2>1. CASE i \in 1..L
    BY <1>1, <1>2, <2>1 DEF ToTell
  <2>2. CASE i = L + 1
    BY <1>1, <1>2, <1>3, <2>2 DEF ToTell
  <2>3. CASE i \notin 1..(L + 1)
    BY <1>1, <2>3 DEF ToTell
  <2>4. QED
    BY <1>1, <2>1, <2>2, <2>3
<1>5. CASE x.type = "regression_detected" /\ AssigneeAfter(T, L) = m
  <2>1. ToTell(A, m) = ToTell(T, m) \cup {L + 1}
    BY <1>4, <1>5
  <2>2. Cardinality(ToTell(A, m)) = Cardinality(ToTell(T, m)) + 1
    BY <1>3, <2>1, FS_AddElement
  <2>3. QED
    BY <1>5, <2>2 DEF A, L
<1>6. CASE ~(x.type = "regression_detected" /\ AssigneeAfter(T, L) = m)
  <2>1. ToTell(A, m) = ToTell(T, m)
    BY <1>4, <1>6
  <2>2. QED
    BY <1>6, <2>1 DEF A, L
<1>7. QED
  BY <1>5, <1>6

\* A member has been told of one regression more by a notice that says so.
LEMMA ToldOfAppend ==
  ASSUME NEW N \in Seq(Notice), NEW x \in Notice, NEW m
  PROVE  Cardinality(ToldOf(Append(N, x), m)) =
           IF x = [type |-> "issue_regression", user |-> m]
             THEN Cardinality(ToldOf(N, m)) + 1 ELSE Cardinality(ToldOf(N, m))
<1> DEFINE A == Append(N, x)
           L == Len(N)
           told == [type |-> "issue_regression", user |-> m]
<1>1. /\ L \in Nat /\ A[L + 1] = x
      /\ DOMAIN A = 1..(L + 1) /\ DOMAIN N = 1..L
      /\ \A i \in 1..L : A[i] = N[i]
  OBVIOUS
<1>2. ToldOf(N, m) = {i \in DOMAIN N : N[i] = told} /\ ToldOf(A, m) = {i \in DOMAIN A : A[i] = told}
  BY DEF ToldOf
<1> HIDE DEF A, L, told
<1>3. ToldOf(N, m) \subseteq 1..L /\ IsFiniteSet(ToldOf(N, m)) /\ L + 1 \notin ToldOf(N, m)
  <2>1. ToldOf(N, m) \subseteq 1..L
    BY <1>1, <1>2
  <2>2. IsFiniteSet(1..L)
    BY <1>1, FS_Interval
  <2>3. IsFiniteSet(ToldOf(N, m))
    BY <2>1, <2>2, FS_Subset
  <2>4. QED
    BY <1>1, <2>1, <2>3
<1>4. CASE x = told
  <2>1. ToldOf(A, m) = ToldOf(N, m) \cup {L + 1}
    BY <1>1, <1>2, <1>4
  <2>2. Cardinality(ToldOf(A, m)) = Cardinality(ToldOf(N, m)) + 1
    BY <1>3, <2>1, FS_AddElement
  <2>3. QED
    BY <1>4, <2>2 DEF A, told
<1>5. CASE x # told
  <2>1. ToldOf(A, m) = ToldOf(N, m)
    BY <1>1, <1>2, <1>5
  <2>2. QED
    BY <1>5, <2>1 DEF A, told
<1>6. QED
  BY <1>4, <1>5

-----------------------------------------------------------------------------
LEMMA InitHistory == Init => HistoryInv
<1> SUFFICES ASSUME Init, NEW f \in Fingerprint
             PROVE  Explains(timeline[f], issue[f]) /\ AllTold(notices[f], timeline[f])
  BY DEF HistoryInv
<1>1. timeline[f] = <<>> /\ notices[f] = <<>> /\ issue[f] = NoIssue
  BY DEF Init
<1>2. Explains(timeline[f], issue[f])
  BY <1>1 DEF Explains, NoIssue
<1>3. ASSUME NEW m \in Member
      PROVE  ToldOf(notices[f], m) = {} /\ ToTell(timeline[f], m) = {}
  BY <1>1 DEF ToldOf, ToTell
<1>4. AllTold(notices[f], timeline[f])
  BY <1>3 DEF AllTold
<1>5. QED
  BY <1>2, <1>4

\* A step that touches one issue, and writes an entry and perhaps a notice.
LEMMA EntryStep ==
  ASSUME IInv, HistoryInv, NEW f \in Fingerprint, NEW x \in Entry, NEW next,
         issue' = [issue EXCEPT ![f] = next],
         timeline' = [timeline EXCEPT ![f] = Append(timeline[f], x)],
         Explains(Append(timeline[f], x), next),
         AllTold(notices'[f], Append(timeline[f], x)),
         \A g \in Fingerprint \ {f} : notices'[g] = notices[g]
  PROVE  HistoryInv'
<1>1. \A g \in Fingerprint :
        /\ issue'[g] = IF g = f THEN next ELSE issue[g]
        /\ timeline'[g] = IF g = f THEN Append(timeline[f], x) ELSE timeline[g]
  BY DEF IInv, TypeOK
<1>2. ASSUME NEW g \in Fingerprint
      PROVE  Explains(timeline'[g], issue'[g]) /\ AllTold(notices'[g], timeline'[g])
  <2>1. CASE g = f
    BY <1>1, <2>1
  <2>2. CASE g # f
    BY <1>1, <2>2 DEF HistoryInv
  <2>3. QED
    BY <2>1, <2>2
<1>3. QED
  BY <1>2 DEF HistoryInv

\* An entry that is no regression, with a notice that is none either or with no
\* notice, leaves every regression told.
LEMMA OtherEntryTold ==
  ASSUME NEW T \in Seq(Entry), NEW N \in Seq(Notice), AllTold(N, T),
         NEW x \in Entry, x.type # "regression_detected",
         NEW next,
         \/ next = N
         \/ \E y \in Notice : y.type = "issue_assigned" /\ next = Append(N, y)
  PROVE  AllTold(next, Append(T, x))
<1> SUFFICES ASSUME NEW m \in Member
             PROVE  Cardinality(ToldOf(next, m)) = Cardinality(ToTell(Append(T, x), m))
  BY DEF AllTold
<1>1. Cardinality(ToTell(Append(T, x), m)) = Cardinality(ToTell(T, m))
  BY ToTellAppend
<1>2. Cardinality(ToldOf(N, m)) = Cardinality(ToTell(T, m))
  BY DEF AllTold
<1>3. ASSUME NEW y \in Notice, y.type = "issue_assigned", next = Append(N, y)
      PROVE  Cardinality(ToldOf(next, m)) = Cardinality(ToldOf(N, m))
  <2>1. y # [type |-> "issue_regression", user |-> m]
    BY <1>3
  <2>2. QED
    BY <1>3, <2>1, ToldOfAppend
<1>4. QED
  BY <1>1, <1>2, <1>3

\* A regression of which exactly the assignee it finds, if any, is notified.
LEMMA RegressionTold ==
  ASSUME NEW T \in Seq(Entry), NEW N \in Seq(Notice), AllTold(N, T),
         NEW x \in Entry, x.type = "regression_detected",
         NEW a \in Member \cup {None}, a = AssigneeAfter(T, Len(T)),
         NEW next,
         next = IF a # None
                  THEN Append(N, [type |-> "issue_regression", user |-> a]) ELSE N
  PROVE  AllTold(next, Append(T, x))
<1> SUFFICES ASSUME NEW m \in Member
             PROVE  Cardinality(ToldOf(next, m)) = Cardinality(ToTell(Append(T, x), m))
  BY DEF AllTold
<1>1. Cardinality(ToTell(Append(T, x), m)) =
        IF a = m THEN Cardinality(ToTell(T, m)) + 1 ELSE Cardinality(ToTell(T, m))
  BY ToTellAppend
<1>2. Cardinality(ToldOf(N, m)) = Cardinality(ToTell(T, m))
  BY DEF AllTold
<1>3. m # None
  BY ConstantsAssumption
<1>4. CASE a = None
  BY <1>1, <1>2, <1>3, <1>4
<1>5. CASE a # None
  <2> DEFINE y == [type |-> "issue_regression", user |-> a]
  <2>1. y \in Notice /\ (y = [type |-> "issue_regression", user |-> m] <=> a = m)
    BY <1>5 DEF Notice
  <2>2. next = Append(N, y)
    BY <1>5
  <2> HIDE DEF y
  <2>3. Cardinality(ToldOf(next, m)) =
          IF a = m THEN Cardinality(ToldOf(N, m)) + 1 ELSE Cardinality(ToldOf(N, m))
    BY <2>1, <2>2, ToldOfAppend
  <2>4. QED
    BY <1>1, <1>2, <2>3
<1>6. QED
  BY <1>4, <1>5

\* A consumer's commit: the first occurrence writes "created", one that finds a
\* resolved issue a regression, and any other leaves the timeline alone.
LEMMA CommitGroupedHistory ==
  ASSUME IInv, HistoryInv, NEW w \in Worker, CommitGrouped(w)
  PROVE  HistoryInv'
<1> DEFINE e == tx[w].event
           f == tx[w].plan
           base == IF tx[w].created THEN NewIssue(e) ELSE issue[f]
           next == Occurrence(base, e, tx[w].newSession, ReopensAsRegression(w))
<1>1. /\ e \in Event /\ f \in Fingerprint
      /\ tx[w].created \in BOOLEAN
      /\ tx[w].assignee \in Member \cup {None}
  BY DEF IInv, TypeOK, TxState, InTransaction, CommitGrouped
<1>2. /\ tx[w].created <=> ~issue[f].exists
      /\ tx[w].created => tx[w].status = "open"
      /\ ~tx[w].created => tx[w].status = issue[f].status /\ tx[w].assignee = issue[f].assignee
  BY DEF IInv, ReadIsCurrent, CommitGrouped
<1>3. /\ issue' = [issue EXCEPT ![f] = next]
      /\ issue \in [Fingerprint -> IssueRow]
      /\ timeline[f] \in Seq(Entry) /\ notices[f] \in Seq(Notice)
      /\ timeline \in [Fingerprint -> Seq(Entry)] /\ notices \in [Fingerprint -> Seq(Notice)]
  BY <1>1 DEF IInv, TypeOK, CommitGrouped
<1>4. Explains(timeline[f], issue[f]) /\ AllTold(notices[f], timeline[f])
  BY <1>1 DEF HistoryInv
<1>5. /\ issue[f].resolved <=> issue[f].status = "resolved"
      /\ ~issue[f].exists => issue[f].assignee = None /\ issue[f].status = "open"
  BY <1>1 DEF IInv, ResolvedIsStamped, NumbersAreExact, NoIssue
<1>6. /\ next.exists
      /\ next.status = IF ReopensAsRegression(w) THEN "open" ELSE base.status
      /\ next.resolved = IF ReopensAsRegression(w) THEN FALSE ELSE base.resolved
      /\ next.assignee = base.assignee
  BY DEF Occurrence
<1>7. /\ base.status = issue[f].status /\ base.assignee = issue[f].assignee
      /\ base.resolved <=> base.status = "resolved"
  BY <1>1, <1>2, <1>5 DEF NewIssue
<1>8. ReopensAsRegression(w) <=> issue[f].exists /\ issue[f].status = "resolved"
  BY <1>1, <1>2 DEF ReopensAsRegression
<1> HIDE DEF base, next
<1>9. CASE ~issue[f].exists
  <2> DEFINE x == [type |-> "created", value |-> "open"]
  <2>1. x \in Entry /\ x.type = "created" /\ x.value = "open"
    BY DEF Entry, Status
  <2>2. /\ timeline' = [timeline EXCEPT ![f] = Append(timeline[f], x)]
        /\ notices' = notices
    BY <1>2, <1>3, <1>8, <1>9 DEF CommitGrouped
  <2> HIDE DEF x
  <2>3. Explains(Append(timeline[f], x), next)
    BY <1>3, <1>4, <1>5, <1>6, <1>7, <1>8, <1>9, <2>1, AppendExplains
       DEF StatusTypes, AssigneeTypes
  <2>4. AllTold(notices'[f], Append(timeline[f], x))
    BY <1>3, <1>4, <2>1, <2>2, OtherEntryTold
  <2>5. QED
    BY <1>1, <1>3, <2>1, <2>2, <2>3, <2>4, EntryStep
<1>10. CASE issue[f].exists /\ issue[f].status = "resolved"
  <2> DEFINE x == [type |-> "regression_detected", value |-> "open"]
             a == tx[w].assignee
  <2>1. x \in Entry /\ x.type = "regression_detected" /\ x.value = "open"
    BY DEF Entry, Status
  <2>2. timeline' = [timeline EXCEPT ![f] = Append(timeline[f], x)]
    BY <1>2, <1>8, <1>10 DEF CommitGrouped
  <2>3. notices' = [notices EXCEPT ![f] =
          IF a # None THEN Append(notices[f], [type |-> "issue_regression", user |-> a])
                      ELSE notices[f]]
    BY <1>8, <1>10 DEF CommitGrouped
  <2>4. a = AssigneeAfter(timeline[f], Len(timeline[f]))
    BY <1>2, <1>4, <1>10 DEF Explains
  <2> HIDE DEF x
  <2>5. Explains(Append(timeline[f], x), next)
    BY <1>3, <1>4, <1>5, <1>6, <1>7, <1>8, <1>10, <2>1, AppendExplains
       DEF StatusTypes, AssigneeTypes
  <2>6. AllTold(notices'[f], Append(timeline[f], x))
    <3>1. notices'[f] =
            IF a # None THEN Append(notices[f], [type |-> "issue_regression", user |-> a])
                        ELSE notices[f]
      BY <1>1, <1>3, <2>3
    <3> HIDE DEF a
    <3>2. QED
      BY <1>1, <1>3, <1>4, <2>1, <2>4, <3>1, RegressionTold DEF a
  <2>7. \A g \in Fingerprint \ {f} : notices'[g] = notices[g]
    BY <1>3, <2>3
  <2>8. QED
    BY <1>1, <1>3, <2>1, <2>2, <2>5, <2>6, <2>7, EntryStep
<1>11. CASE issue[f].exists /\ issue[f].status # "resolved"
  <2>1. timeline' = timeline /\ notices' = notices
    BY <1>2, <1>3, <1>8, <1>11 DEF CommitGrouped
  <2>2. /\ next.exists /\ next.status = issue[f].status
        /\ next.assignee = issue[f].assignee
        /\ next.resolved <=> next.status = "resolved"
    BY <1>6, <1>7, <1>8, <1>11
  <2>3. Explains(timeline[f], next)
    BY <1>4, <1>11, <2>2 DEF Explains
  <2>4. \A g \in Fingerprint : issue'[g] = IF g = f THEN next ELSE issue[g]
    BY <1>1, <1>3
  <2>5. QED
    BY <1>1, <2>1, <2>3, <2>4 DEF HistoryInv
<1>12. QED
  BY <1>9, <1>10, <1>11

\* A change of status or of assignee writes the entry that says so.
LEMMA TriageHistory ==
  ASSUME IInv, HistoryInv, NEW f \in Fingerprint,
         \/ \E s \in Status : UpdateIssueStatus(f, s)
         \/ \E a \in Member, u \in Member \cup {None} : UpdateIssueAssignee(f, a, u)
  PROVE  HistoryInv'
<1>1. /\ Explains(timeline[f], issue[f]) /\ AllTold(notices[f], timeline[f])
      /\ issue \in [Fingerprint -> IssueRow]
      /\ timeline[f] \in Seq(Entry) /\ notices[f] \in Seq(Notice)
      /\ notices \in [Fingerprint -> Seq(Notice)]
      /\ issue[f].resolved <=> issue[f].status = "resolved"
  BY DEF HistoryInv, IInv, TypeOK, ResolvedIsStamped
<1>2. ASSUME NEW s \in Status, UpdateIssueStatus(f, s)
      PROVE  HistoryInv'
  <2> DEFINE x == [type |-> "status_changed", value |-> s]
             next == Patched(issue[f], s, s = "resolved", issue[f].assignee)
  <2>1. x \in Entry /\ x.type = "status_changed" /\ x.value = s
    BY DEF Entry
  <2>2. /\ next.exists /\ next.status = s /\ next.assignee = issue[f].assignee
        /\ next.resolved <=> next.status = "resolved"
    BY DEF Patched
  <2>3. /\ issue[f].exists /\ issue[f].status # s
        /\ issue' = [issue EXCEPT ![f] = next]
        /\ timeline' = [timeline EXCEPT ![f] = Append(timeline[f], x)]
        /\ notices' = notices
    BY <1>2 DEF UpdateIssueStatus
  <2> HIDE DEF x, next
  <2>4. Explains(Append(timeline[f], x), next)
    BY <1>1, <2>1, <2>2, <2>3, AppendExplains DEF StatusTypes, AssigneeTypes
  <2>5. AllTold(notices'[f], Append(timeline[f], x))
    BY <1>1, <2>1, <2>3, OtherEntryTold
  <2>6. QED
    BY <2>1, <2>3, <2>4, <2>5, EntryStep
<1>3. ASSUME NEW a \in Member, NEW u \in Member \cup {None}, UpdateIssueAssignee(f, a, u)
      PROVE  HistoryInv'
  <2> DEFINE x == [type |-> IF u = None THEN "unassigned" ELSE "assigned", value |-> u]
             next == Patched(issue[f], issue[f].status, issue[f].resolved, u)
             y == [type |-> "issue_assigned", user |-> u]
  <2>1. x \in Entry /\ x.type \in AssigneeTypes /\ x.value = u
    BY DEF Entry, AssigneeTypes
  <2>2. /\ next.exists /\ next.status = issue[f].status /\ next.assignee = u
        /\ next.resolved <=> next.status = "resolved"
    BY <1>1 DEF Patched
  <2>3. /\ issue[f].exists /\ issue[f].assignee # u
        /\ issue' = [issue EXCEPT ![f] = next]
        /\ timeline' = [timeline EXCEPT ![f] = Append(timeline[f], x)]
        /\ notices' = [notices EXCEPT ![f] =
             IF u \notin {None, a} THEN Append(notices[f], y) ELSE notices[f]]
    BY <1>3 DEF UpdateIssueAssignee
  <2>4. y.type = "issue_assigned" /\ (u # None => y \in Notice)
    BY DEF Notice
  <2> HIDE DEF x, next, y
  <2>5. /\ notices'[f] = IF u \notin {None, a} THEN Append(notices[f], y) ELSE notices[f]
        /\ \A g \in Fingerprint \ {f} : notices'[g] = notices[g]
    BY <1>1, <2>3
  <2>6. x.type \notin StatusTypes /\ x.type \notin {"created", "regression_detected", "status_changed"}
    BY <2>1 DEF StatusTypes, AssigneeTypes
  <2>7. Explains(Append(timeline[f], x), next)
    BY <1>1, <2>1, <2>2, <2>3, <2>6, AppendExplains
  <2>8. AllTold(notices'[f], Append(timeline[f], x))
    BY <1>1, <2>1, <2>4, <2>5, <2>6, OtherEntryTold
  <2>9. QED
    BY <2>1, <2>3, <2>5, <2>7, <2>8, EntryStep
<1>4. QED
  BY <1>2, <1>3

LEMMA NextHistory == IInv /\ HistoryInv /\ [Next]_vars => HistoryInv'
<1> SUFFICES ASSUME IInv, HistoryInv, [Next]_vars PROVE HistoryInv'
  OBVIOUS
<1>1. CASE UNCHANGED <<issue, timeline, notices>>
  BY <1>1 DEF HistoryInv
<1>2. ASSUME NEW w \in Worker, CommitGrouped(w)
      PROVE  HistoryInv'
  BY <1>2, CommitGroupedHistory
<1>3. ASSUME NEW f \in Fingerprint,
             \/ \E s \in Status : UpdateIssueStatus(f, s)
             \/ \E a \in Member, u \in Member \cup {None} : UpdateIssueAssignee(f, a, u)
      PROVE  HistoryInv'
  BY <1>3, TriageHistory
<1>4. QED
  BY <1>1, <1>2, <1>3 DEF Next, Consume, vars, Symbolicate, LockEvent, CommitUngrouped,
     LockIssue, InsertIssueIfAbsent, RelockIssue, RecordIssueAffectedSession, Abort

\* The history of every issue explains it in every reachable state.
THEOREM HistoryInvariance == Spec => [](IInv /\ HistoryInv)
<1>1. Init => IInv /\ HistoryInv
  BY InitIInv, InitHistory
<1>2. IInv /\ HistoryInv /\ [Next]_vars => (IInv /\ HistoryInv)'
  BY NextIInv, NextHistory
<1>3. QED
  BY <1>1, <1>2, PTL DEF Spec

\* The timeline is the history of the row, whatever consumers and triage
\* requests race: no transition is lost, doubled or told that never was.
THEOREM History == Spec => []TimelineExplainsIssue
<1>1. HistoryInv => TimelineExplainsIssue
  BY DEF HistoryInv, Explains, TimelineExplainsIssue, AssigneeTypes
<1>2. QED
  BY <1>1, HistoryInvariance, PTL

\* Each regression is told once to whoever was the assignee, and to nobody
\* else, although assignment is another transaction.
THEOREM RegressionNotices == Spec => []RegressionsAreNotified
<1>1. HistoryInv => RegressionsAreNotified
  BY DEF HistoryInv, AllTold, ToldOf, ToTell, RegressionsAreNotified
<1>2. QED
  BY <1>1, HistoryInvariance, PTL

=============================================================================
