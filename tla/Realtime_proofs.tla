--------------------------- MODULE Realtime_proofs ---------------------------
(***************************************************************************)
(* Proofs about Realtime, for any queries on screen and any types of       *)
(* updates, any bound of the queue and any number of changes and faults.   *)
(***************************************************************************)
EXTENDS Realtime, SequenceTheorems, TLAPS

\* Updates as a stream carries them
Payloads == {u \in Updates : u.id => u.type \in AiAnalysisTypes}
OnStream == Payloads \cup {Ready(TRUE), Ready(FALSE)}

ShapeOK ==
  /\ changes \in 0..MaxChanges /\ base \in 0..MaxChanges
  /\ named \in [Open -> 0..MaxChanges] /\ \A q \in Open : named[q] <= changes
  /\ leaked \in Nat /\ faults \in 0..MaxFaults
  /\ listening \in BOOLEAN /\ unbroken \in BOOLEAN /\ coalesced \in BOOLEAN
  /\ handler \in {"none", "waiting", "open"}
  /\ client \in {"off", "open", "backoff"}
  /\ status \in {"connecting", "connected", "degraded", "reconnecting"}
  /\ asked \subseteq Open /\ failed \subseteq Open /\ joined \subseteq Open
  /\ data \in [Open -> SUBSET (0..MaxChanges)]
  /\ answer \in [Open -> SUBSET (0..MaxChanges)]

SequencesOK ==
  /\ channel \in Seq(Updates) /\ queue \in Seq(Updates) /\ wire \in Seq(OnStream)
  /\ Len(queue) <= MaxPending

\* A connection that is unbroken goes all the way.
ConnectedOK ==
  /\ handler # "none" => client = "open"
  /\ unbroken => listening /\ handler = "open"

\* A fetch in flight has read the last change, or there will be another one.
Announced ==
  unbroken /\ ~coalesced =>
    \A q \in Open : named[q] > base =>
      \/ OnItsWay(q) \/ q \in joined
      \/ Recent(q, answer[q])
      \/ answer[q] = {} /\ (Recent(q, data[q]) \/ q \in failed)

IInv == ShapeOK /\ SequencesOK /\ ConnectedOK /\ Announced

-----------------------------------------------------------------------------
\* Updates on their way.

LEMMA UpdateShape ==
  ASSUME NEW i \in Issue, NEW t \in UpdateType
  PROVE  Update(i, t) \in Updates /\ Update(i, t).type # "ready"
<1>1. t \in ProjectUpdateType
  BY ConstantsAssumption
<1>2. "ready" \notin ProjectUpdateType
  BY DEF ProjectUpdateType, ReproductionTypes, AiAnalysisTypes
<1>3. QED
  BY <1>1, <1>2 DEF Update, Updates

LEMMA PayloadShape ==
  ASSUME NEW u \in Updates
  PROVE  /\ toStreamPayload(u) \in Payloads
         /\ u.type # "ready" /\ toStreamPayload(u).type # "ready"
<1>1. "ready" \notin ProjectUpdateType
  BY DEF ProjectUpdateType, ReproductionTypes, AiAnalysisTypes
<1>2. QED
  BY <1>1 DEF toStreamPayload, Updates, Payloads

LEMMA PayloadAgain == ASSUME NEW u \in Payloads PROVE toStreamPayload(u) = u
BY DEF toStreamPayload, Payloads, Updates

LEMMA InvalidatedOpen == ASSUME NEW u PROVE Invalidated(u) \subseteq Open
BY DEF Invalidated

\* What an update names does not depend on whether it is on the stream already.
LEMMA NamesPayload ==
  ASSUME NEW u \in Updates, NEW q, Names(u, q)
  PROVE  Names(toStreamPayload(u), q)
<1>1. toStreamPayload(toStreamPayload(u)) = toStreamPayload(u)
  BY PayloadShape, PayloadAgain
<1>2. QED
  BY <1>1, PayloadShape DEF Names

LEMMA AnnouncesAppend ==
  ASSUME NEW S, NEW s \in Seq(S), NEW q, NEW x \in S, Announces(s, q) \/ Names(x, q)
  PROVE  Announces(Append(s, x), q)
<1>1. Len(Append(s, x)) = Len(s) + 1 /\ Len(s) \in Nat
  OBVIOUS
<1>2. \A n \in 1..Len(s) : Append(s, x)[n] = s[n]
  OBVIOUS
<1>3. Append(s, x)[Len(s) + 1] = x
  OBVIOUS
<1>4. QED
  BY <1>1, <1>2, <1>3 DEF Announces

LEMMA AnnouncesTail ==
  ASSUME NEW S, NEW s \in Seq(S), s # <<>>, NEW q, Announces(s, q), ~Names(Head(s), q)
  PROVE  Announces(Tail(s), q)
<1>1. PICK n \in 1..Len(s) : Names(s[n], q)
  BY DEF Announces
<1>2. n # 1 /\ Len(s) \in Nat
  BY <1>1
<1>3. n - 1 \in 1..Len(Tail(s)) /\ Tail(s)[n - 1] = s[n]
  BY <1>1, <1>2
<1>4. QED
  BY <1>1, <1>3 DEF Announces

LEMMA SeqSubset == ASSUME NEW S, NEW T, S \subseteq T PROVE Seq(S) \subseteq Seq(T)
BY SeqDef

LEMMA FlushedShape ==
  ASSUME NEW t \in Seq(Updates)
  PROVE  /\ [n \in 1..Len(t) |-> toStreamPayload(t[n])] \in Seq(OnStream)
         /\ Len([n \in 1..Len(t) |-> toStreamPayload(t[n])]) = Len(t)
<1> DEFINE p == [n \in 1..Len(t) |-> toStreamPayload(t[n])]
<1>1. Len(t) \in Nat /\ \A n \in 1..Len(t) : t[n] \in Updates
  OBVIOUS
<1>2. \A n \in 1..Len(t) : toStreamPayload(t[n]) \in OnStream
  BY <1>1, PayloadShape DEF OnStream
<1>3. p \in [1..Len(t) -> OnStream]
  BY <1>2
<1>4. p \in Seq(OnStream)
  BY <1>1, <1>3, SeqDef
<1>5. DOMAIN p = 1..Len(t)
  OBVIOUS
<1>6. Len(p) = Len(t)
  BY <1>1, <1>4, <1>5, LenProperties
<1>7. QED
  BY <1>4, <1>6

\* The queue written behind what is on the stream.
LEMMA AnnouncesFlushed ==
  ASSUME NEW s \in Seq(OnStream), NEW t \in Seq(Updates), NEW q,
         Announces(s, q) \/ Announces(t, q)
  PROVE  Announces(s \o [n \in 1..Len(t) |-> toStreamPayload(t[n])], q)
<1> DEFINE p == [n \in 1..Len(t) |-> toStreamPayload(t[n])]
<1>1. p \in Seq(OnStream) /\ Len(p) = Len(t) /\ Len(t) \in Nat
  BY FlushedShape
<1>2. \A n \in 1..Len(t) : p[n] = toStreamPayload(t[n])
  OBVIOUS
<1> HIDE DEF p
<1>3. Len(s \o p) = Len(s) + Len(p) /\ Len(s) \in Nat
  BY <1>1
<1>4. CASE Announces(s, q)
  <2>1. PICK n \in 1..Len(s) : Names(s[n], q)
    BY <1>4 DEF Announces
  <2>2. n \in 1..Len(s \o p) /\ (s \o p)[n] = s[n]
    BY <1>1, <1>3, <2>1
  <2>3. QED
    BY <2>1, <2>2 DEF Announces, p
<1>5. CASE Announces(t, q)
  <2>1. PICK n \in 1..Len(t) : Names(t[n], q)
    BY <1>5 DEF Announces
  <2>2. Len(s) + n \in 1..Len(s \o p) /\ (s \o p)[Len(s) + n] = p[n]
    BY <1>1, <1>3, <2>1
  <2>3. t[n] \in Updates
    BY <2>1
  <2>4. Names(p[n], q)
    BY <1>2, <2>1, <2>3, NamesPayload
  <2>5. QED
    BY <2>2, <2>4 DEF Announces, p
<1>6. QED
  BY <1>4, <1>5

LEMMA InitIInv == Init => IInv
<1> SUFFICES ASSUME Init PROVE IInv
  OBVIOUS
<1>1. ShapeOK
  <2>1. changes \in 0..MaxChanges /\ base \in 0..MaxChanges /\ leaked \in Nat /\ faults \in 0..MaxFaults
    BY ConstantsAssumption DEF Init
  <2>2. /\ named \in [Open -> 0..MaxChanges] /\ \A q \in Open : named[q] <= changes
        /\ data \in [Open -> SUBSET (0..MaxChanges)]
        /\ answer \in [Open -> SUBSET (0..MaxChanges)]
    BY ConstantsAssumption DEF Init
  <2>3. QED
    BY <2>1, <2>2 DEF Init, ShapeOK
<1>2. SequencesOK
  BY ConstantsAssumption DEF Init, SequencesOK
<1>3. ConnectedOK /\ Announced
  BY DEF Init, ConnectedOK, Announced
<1>4. QED
  BY <1>1, <1>2, <1>3 DEF IInv

-----------------------------------------------------------------------------
\* The database and the broker.

LEMMA FaultOK == ASSUME IInv, Fault \/ UNCHANGED faults PROVE faults' \in 0..MaxFaults
BY ConstantsAssumption DEF IInv, ShapeOK, Fault

\* A step that only moves announcements along.
LEMMA Announcing ==
  ASSUME IInv, UNCHANGED <<named, data, answer, failed, joined, base>>,
         unbroken' => unbroken, ~coalesced' => ~coalesced,
         unbroken' /\ ~coalesced' => \A q \in Open : OnItsWay(q) => OnItsWay(q)'
  PROVE  Announced'
BY DEF IInv, Announced, Recent

LEMMA ChangeStep ==
  ASSUME IInv, NEW i \in Issue, NEW t \in UpdateType, Change(i, t)
  PROVE  IInv'
<1> USE DEF IInv, broker, browser, fetches, ghosts
<1> DEFINE u == Update(i, t)
           hit == Invalidated(toStreamPayload(u))
<1>0. u \in Updates /\ u.type # "ready"
  BY UpdateShape
<1>1. /\ UNCHANGED <<listening, handler, queue, leaked, wire, client, status, data, asked, answer,
                     failed, joined, base, unbroken, coalesced, faults>>
      /\ channel' = IF listening THEN Append(channel, u) ELSE channel
      /\ changes' = changes + 1
      /\ named' = [q \in Open |-> IF q \in hit THEN changes + 1 ELSE named[q]]
  BY DEF Change
<1>2. \A q \in Open : q \in hit => Names(u, q)
  BY <1>0 DEF Names
<1> HIDE DEF u, hit
<1>3. changes + 1 \in 0..MaxChanges /\ changes \in Nat
  BY ConstantsAssumption DEF Change, ShapeOK
<1>4. named' \in [Open -> 0..MaxChanges] /\ \A q \in Open : named'[q] <= changes'
  BY <1>1, <1>3 DEF ShapeOK
<1>5. ShapeOK'
  BY <1>1, <1>3, <1>4 DEF ShapeOK
<1>6. SequencesOK'
  BY <1>0, <1>1 DEF SequencesOK
<1>7. ConnectedOK'
  BY <1>1 DEF ConnectedOK
<1>8. Announced'
  <2> SUFFICES ASSUME unbroken, ~coalesced, NEW q \in Open, named'[q] > base
               PROVE  \/ OnItsWay(q)' \/ q \in joined
                      \/ Recent(q, answer[q])'
                      \/ answer[q] = {} /\ (Recent(q, data[q])' \/ q \in failed)
    BY <1>1 DEF Announced
  <2>1. channel' = Append(channel, u) /\ channel \in Seq(Updates)
    BY <1>1 DEF ConnectedOK, SequencesOK
  <2>2. CASE q \in hit
    BY <1>0, <1>2, <2>1, <2>2, AnnouncesAppend DEF OnItsWay
  <2>3. CASE q \notin hit
    <3>1. named'[q] = named[q]
      BY <1>1, <2>3
    <3>2. OnItsWay(q) => OnItsWay(q)'
      BY <1>0, <1>1, <2>1, AnnouncesAppend DEF OnItsWay
    <3>3. QED
      BY <1>1, <3>1, <3>2 DEF Announced, Recent
  <2>4. QED
    BY <2>2, <2>3
<1>9. QED
  BY <1>5, <1>6, <1>7, <1>8

LEMMA ConnectionStep ==
  ASSUME IInv, ensureConnected \/ dropClient \/ connect \/ onerror
  PROVE  IInv'
<1> USE DEF IInv, database, fetches, ghosts, browser
<1>1. ~unbroken'
  BY DEF ensureConnected, dropClient, connect, onerror, ConnectedOK, ShapeOK
<1>2. faults' \in 0..MaxFaults
  <2>1. Fault \/ UNCHANGED faults
    BY DEF ensureConnected, dropClient, connect, onerror
  <2>2. QED
    BY <2>1, FaultOK
<1>3. leaked' \in Nat
  <2>1. leaked' = leaked \/ leaked' = leaked + 1
    BY DEF ensureConnected, dropClient, connect, onerror
  <2>2. QED
    BY <2>1 DEF ShapeOK
<1>4. /\ unbroken' \in BOOLEAN /\ listening' \in BOOLEAN
      /\ handler' \in {"none", "waiting", "open"}
      /\ client' \in {"off", "open", "backoff"}
      /\ status' \in {"connecting", "connected", "degraded", "reconnecting"}
      /\ handler' # "none" => client' = "open"
  BY DEF ensureConnected, dropClient, connect, onerror, ShapeOK, ConnectedOK
<1>5. UNCHANGED <<changes, named, data, asked, answer, failed, joined, base, coalesced>>
  BY DEF ensureConnected, dropClient, connect, onerror
<1>6. ShapeOK'
  BY <1>2, <1>3, <1>4, <1>5 DEF ShapeOK
<1>7. SequencesOK'
  <2>1. (UNCHANGED channel \/ channel' = <<>>) /\ (UNCHANGED queue \/ queue' = <<>>)
        /\ (UNCHANGED wire \/ wire' = <<>>)
    BY DEF ensureConnected, dropClient, connect, onerror
  <2>2. channel' \in Seq(Updates)
    <3>1. CASE UNCHANGED channel
      BY <3>1 DEF SequencesOK
    <3>2. CASE channel' = <<>>
      BY <3>2
    <3>3. QED
      BY <2>1, <3>1, <3>2
  <2>3. queue' \in Seq(Updates) /\ Len(queue') <= MaxPending
    <3>1. CASE UNCHANGED queue
      BY <3>1 DEF SequencesOK
    <3>2. CASE queue' = <<>>
      BY <3>2, ConstantsAssumption
    <3>3. QED
      BY <2>1, <3>1, <3>2
  <2>4. wire' \in Seq(OnStream)
    <3>1. CASE UNCHANGED wire
      BY <3>1 DEF SequencesOK
    <3>2. CASE wire' = <<>>
      BY <3>2
    <3>3. QED
      BY <2>1, <3>1, <3>2
  <2>5. QED
    BY <2>2, <2>3, <2>4 DEF SequencesOK
<1>8. QED
  BY <1>1, <1>4, <1>6, <1>7 DEF ConnectedOK, Announced

LEMMA NotificationStep == ASSUME IInv, handleNotification PROVE IInv'
<1> USE DEF IInv, database, browser, fetches
<1>1. /\ UNCHANGED <<changes, named, listening, handler, leaked, wire, client, status, data, asked,
                     answer, failed, joined, base, unbroken, faults>>
      /\ channel # <<>> /\ channel' = Tail(channel)
  BY DEF handleNotification
<1>2. channel \in Seq(Updates) /\ Head(channel) \in Updates /\ channel' \in Seq(Updates)
  BY <1>1 DEF SequencesOK
<1>3. queue \in Seq(Updates) /\ Len(queue) <= MaxPending
  BY DEF SequencesOK
<1>4. CASE handler # "open" /\ UNCHANGED <<queue, coalesced>>
  <2>1. ~unbroken
    BY <1>4 DEF ConnectedOK
  <2>2. QED
    BY <1>1, <1>2, <1>4, <2>1 DEF ShapeOK, SequencesOK, ConnectedOK, Announced
<1>5. CASE /\ Len(queue) < MaxPending
           /\ queue' = Append(queue, Head(channel))
           /\ UNCHANGED coalesced
  <2>1. queue' \in Seq(Updates) /\ Len(queue') <= MaxPending
    BY <1>2, <1>3, <1>5, ConstantsAssumption
  <2>2. \A q \in Open : OnItsWay(q) => OnItsWay(q)'
    BY <1>1, <1>2, <1>3, <1>5, AnnouncesTail, AnnouncesAppend DEF OnItsWay
  <2>3. Announced'
    BY <1>1, <1>5, <2>2, Announcing
  <2>4. QED
    BY <1>1, <1>2, <1>5, <2>1, <2>3 DEF ShapeOK, SequencesOK, ConnectedOK
<1>6. CASE queue' = <<Head(channel)>> /\ coalesced' = TRUE
  <2>1. queue' \in Seq(Updates) /\ Len(queue') <= MaxPending
    BY <1>2, <1>6, ConstantsAssumption
  <2>2. coalesced' \in BOOLEAN /\ coalesced'
    BY <1>6
  <2>3. QED
    BY <1>1, <1>2, <2>1, <2>2 DEF ShapeOK, SequencesOK, ConnectedOK, Announced
<1>7. QED
  BY <1>4, <1>5, <1>6 DEF handleNotification

LEMMA FlushStep == ASSUME IInv, scheduleFlush PROVE IInv'
<1> USE DEF IInv, database, browser, fetches, ghosts
<1> DEFINE p == [n \in 1..Len(queue) |-> toStreamPayload(queue[n])]
<1>1. /\ UNCHANGED <<changes, named, listening, channel, handler, leaked, client, status, data,
                     asked, answer, failed, joined, base, unbroken, coalesced, faults>>
      /\ wire' = wire \o p /\ queue' = <<>>
  BY DEF scheduleFlush
<1>2. wire \in Seq(OnStream) /\ queue \in Seq(Updates) /\ p \in Seq(OnStream)
  BY FlushedShape DEF SequencesOK
<1>3. wire' \in Seq(OnStream) /\ queue' \in Seq(Updates) /\ Len(queue') <= MaxPending
  <2> HIDE DEF p
  <2>1. QED
    BY <1>1, <1>2, ConstantsAssumption
<1>4. \A q \in Open : OnItsWay(q) => OnItsWay(q)'
  BY <1>1, <1>2, AnnouncesFlushed DEF OnItsWay
<1>5. Announced'
  BY <1>1, <1>4, Announcing
<1>6. QED
  BY <1>1, <1>3, <1>5 DEF ShapeOK, SequencesOK, ConnectedOK

\* What has changed before the ready frame is not promised.
LEMMA SubscribeStep == ASSUME IInv, Subscribe PROVE IInv'
<1> USE DEF IInv, database, browser, fetches
<1>1. /\ UNCHANGED <<changes, named, listening, channel, queue, leaked, client, status, data,
                     asked, answer, failed, joined, faults>>
      /\ handler = "waiting" /\ handler' = "open" /\ base' = changes /\ unbroken' = listening
      /\ coalesced' = FALSE
  BY DEF Subscribe
<1>2. wire' \in Seq(OnStream)
  <2>1. Ready(listening) \in OnStream
    BY DEF OnStream, ShapeOK
  <2>2. QED
    BY <2>1 DEF Subscribe
<1>3. ConnectedOK'
  BY <1>1 DEF ConnectedOK
<1>4. ShapeOK'
  BY <1>1 DEF ShapeOK
<1>5. Announced'
  <2>1. \A q \in Open : ~(named'[q] > base')
    BY <1>1 DEF ShapeOK
  <2>2. QED
    BY <2>1 DEF Announced
<1>6. QED
  BY <1>1, <1>2, <1>3, <1>4, <1>5 DEF SequencesOK

-----------------------------------------------------------------------------
\* The dashboard.

LEMMA FrameStep == ASSUME IInv, ReadyFrame PROVE IInv'
<1> USE DEF IInv, database, broker, fetches, ghosts
<1>1. /\ UNCHANGED <<changes, named, listening, channel, handler, queue, leaked, client, data,
                     asked, answer, failed, joined, base, unbroken, coalesced, faults>>
      /\ wire # <<>> /\ wire' = Tail(wire) /\ Head(wire).type = "ready"
      /\ status' \in {"connected", "degraded"}
  BY DEF ReadyFrame
<1>2. wire \in Seq(OnStream) /\ wire' \in Seq(OnStream)
  BY <1>1 DEF SequencesOK
<1>3. \A q \in Open : OnItsWay(q) => OnItsWay(q)'
  <2>1. \A q \in Open : ~Names(Head(wire), q)
    BY <1>1 DEF Names
  <2>2. QED
    BY <1>1, <1>2, <2>1, AnnouncesTail DEF OnItsWay
<1>4. Announced'
  BY <1>1, <1>3, Announcing
<1>5. QED
  BY <1>1, <1>2, <1>4 DEF ShapeOK, SequencesOK, ConnectedOK

LEMMA InvalidateStep == ASSUME IInv, invalidateForUpdate PROVE IInv'
<1> USE DEF IInv, database, broker, browser, ghosts
<1> DEFINE hit == Invalidated(Head(wire))
           joins == {q \in hit : data[q] = {} /\ answer[q] # {}}
           fetched == hit \ joins
<1>1. /\ UNCHANGED <<changes, named, listening, channel, handler, queue, leaked, client, status,
                     data, failed, base, unbroken, coalesced, faults>>
      /\ wire # <<>> /\ wire' = Tail(wire) /\ Head(wire).type # "ready"
      /\ asked' = asked \cup fetched
      /\ answer' = [q \in Open |-> IF q \in fetched THEN {} ELSE answer[q]]
      /\ joined' = (joined \ fetched) \cup joins
  BY DEF invalidateForUpdate
<1>2. hit \subseteq Open
  BY InvalidatedOpen
<1>3. wire \in Seq(OnStream) /\ wire' \in Seq(OnStream) /\ Head(wire) \in OnStream
  BY <1>1 DEF SequencesOK
<1>4. \A q \in Open : Names(Head(wire), q) => q \in hit
  <2>1. Head(wire) \in Payloads
    BY <1>1, <1>3 DEF OnStream, Ready
  <2>2. QED
    BY <2>1, PayloadAgain DEF Names
<1> HIDE DEF hit
\* Who is named is asked for, or has joined; nobody else notices.
<1>5. \A q \in hit : q \in asked' \/ q \in joined'
  BY <1>1
<1>6. \A q \in Open \ hit : /\ OnItsWay(q) => OnItsWay(q)'
                            /\ answer'[q] = answer[q]
                            /\ q \in joined => q \in joined'
  <2>1. ASSUME NEW q \in Open \ hit, Announces(wire, q) PROVE Announces(wire', q)
    BY <1>1, <1>3, <1>4, <2>1, AnnouncesTail
  <2>2. QED
    BY <1>1, <2>1 DEF OnItsWay
<1>7. Announced'
  <2> SUFFICES ASSUME unbroken, ~coalesced, NEW q \in Open, named[q] > base
               PROVE  \/ OnItsWay(q)' \/ q \in joined'
                      \/ Recent(q, answer[q])'
                      \/ answer'[q] = {} /\ (Recent(q, data[q])' \/ q \in failed)
    BY <1>1 DEF Announced
  <2>1. CASE q \in hit
    BY <1>5, <2>1 DEF OnItsWay
  <2>2. CASE q \notin hit
    BY <1>1, <1>6, <2>2 DEF Announced, Recent
  <2>3. QED
    BY <2>1, <2>2
<1>8. ShapeOK'
  <2>1. answer' \in [Open -> SUBSET (0..MaxChanges)]
    BY <1>1 DEF ShapeOK
  <2>2. asked' \subseteq Open /\ joined' \subseteq Open
    BY <1>1, <1>2 DEF ShapeOK
  <2>3. QED
    BY <1>1, <2>1, <2>2 DEF ShapeOK
<1>9. QED
  BY <1>1, <1>3, <1>7, <1>8 DEF SequencesOK, ConnectedOK

LEMMA FetchStep ==
  ASSUME IInv, NEW q \in Open, Read(q) \/ Show(q) \/ FetchFails(q)
  PROVE  IInv'
<1> USE DEF IInv, database, broker, browser, ghosts
<1>1. UNCHANGED <<changes, named, listening, channel, handler, queue, leaked, wire, client, status,
                  joined, base, unbroken, coalesced>>
  BY DEF Read, Show, FetchFails
<1>2. faults' \in 0..MaxFaults
  <2>1. Fault \/ UNCHANGED faults
    BY DEF Read, Show, FetchFails
  <2>2. QED
    BY <2>1, FaultOK
<1>3. /\ answer' \in [Open -> SUBSET (0..MaxChanges)]
      /\ data' \in [Open -> SUBSET (0..MaxChanges)]
      /\ \A r \in Open \ {q} : answer'[r] = answer[r] /\ data'[r] = data[r]
                             /\ (r \in asked' <=> r \in asked) /\ (r \in failed' <=> r \in failed)
      /\ asked' \subseteq Open /\ failed' \subseteq Open
  BY DEF Read, Show, FetchFails, ShapeOK
<1>4. ShapeOK'
  BY <1>1, <1>2, <1>3 DEF ShapeOK
<1>5. ASSUME unbroken, ~coalesced, named[q] > base
      PROVE  \/ OnItsWay(q)' \/ q \in joined
             \/ Recent(q, answer[q])'
             \/ answer'[q] = {} /\ (Recent(q, data[q])' \/ q \in failed')
  <2>1. CASE Read(q)
    <3>1. answer'[q] = {changes} /\ changes >= named[q] /\ named' = named
      BY <1>1, <2>1 DEF Read, ShapeOK
    <3>2. QED
      BY <3>1 DEF Recent
  <2>2. CASE Show(q)
    <3>1. data'[q] = answer[q] /\ answer'[q] = {} /\ answer[q] # {}
      BY <2>2 DEF Show, ShapeOK
    <3>2. OnItsWay(q) \/ q \in joined \/ Recent(q, answer[q])
      BY <1>5, <3>1 DEF Announced
    <3>3. OnItsWay(q) => OnItsWay(q)'
      BY <1>1, <2>2 DEF OnItsWay, Show
    <3>4. QED
      BY <1>1, <3>1, <3>2, <3>3 DEF Recent
  <2>3. CASE FetchFails(q)
    BY <2>3 DEF FetchFails, ShapeOK
  <2>4. QED
    BY <2>1, <2>2, <2>3
<1>6. ASSUME unbroken, ~coalesced, NEW r \in Open \ {q}, named[r] > base
      PROVE  \/ OnItsWay(r)' \/ r \in joined
             \/ Recent(r, answer[r])'
             \/ answer'[r] = {} /\ (Recent(r, data[r])' \/ r \in failed')
  <2>1. OnItsWay(r) => OnItsWay(r)'
    BY <1>1, <1>3 DEF OnItsWay
  <2>2. QED
    BY <1>1, <1>3, <1>6, <2>1 DEF Announced, Recent
<1>7. Announced'
  BY <1>1, <1>5, <1>6 DEF Announced
<1>8. QED
  BY <1>1, <1>4, <1>7 DEF SequencesOK, ConnectedOK

-----------------------------------------------------------------------------
LEMMA NextIInv == IInv /\ [Next]_vars => IInv'
<1> SUFFICES ASSUME IInv, [Next]_vars PROVE IInv'
  OBVIOUS
<1>1. CASE Next
  BY <1>1, ChangeStep, ConnectionStep, NotificationStep, FlushStep, SubscribeStep, FrameStep,
     InvalidateStep, FetchStep DEF Next
<1>2. CASE UNCHANGED vars
  BY <1>2 DEF vars, IInv, ShapeOK, SequencesOK, ConnectedOK, Announced, OnItsWay,
              Recent
<1>3. QED
  BY <1>1, <1>2

LEMMA Invariance == Spec => []IInv
<1>1. QED
  BY InitIInv, NextIInv, PTL DEF Spec

\* Every part of the chain has its shape, and the subscriber's queue its bound,
\* whatever the rate of changes (broker.ts:199-207).
THEOREM TypeCorrect == Spec => []TypeOK
<1>1. Payloads \subseteq Updates
  BY DEF Payloads
<1>2. ASSUME IInv PROVE TypeOK
  <2>1. Seq(OnStream) \subseteq Seq(Frames)
    BY <1>1, SeqSubset DEF OnStream, Frames
  <2>2. QED
    BY <1>2, <2>1 DEF IInv, ShapeOK, SequencesOK, TypeOK
<1>3. QED
  BY <1>2, Invariance, PTL

\* Without a lost connection or an overflow, no change after the ready frame is
\* lost on its way to a query its update names, but to one whose fetch failed or
\* that was on its first fetch (realtime.ts:172-182, use-realtime.ts:104-114).
THEOREM NoChangeLost == Spec => []ChangesAreOnTheirWay
<1>1. IInv => ChangesAreOnTheirWay
  BY DEF IInv, Announced, ChangesAreOnTheirWay
<1>2. QED
  BY <1>1, Invariance, PTL
=============================================================================
