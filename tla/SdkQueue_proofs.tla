--------------------------- MODULE SdkQueue_proofs ---------------------------
(***************************************************************************)
(* Proofs about SdkQueue, for every queue size, batch size and number of   *)
(* attempts: the types, the bound on memory, the order of what is sent,    *)
(* the bound on sends, and that nothing is left stranded.                  *)
(***************************************************************************)
EXTENDS SdkQueue, SequenceTheorems, WellFoundedInduction, TLAPS

-----------------------------------------------------------------------------
\* Loops

\* Every set of numbers has a least one.
LEMMA LeastNumber ==
  ASSUME NEW I \in SUBSET Nat, I # {}
  PROVE  \E i \in I : \A j \in I : i <= j
<1>1. PICK i \in I : \A j \in I : ~(<<j, i>> \in OpToRel(<, Nat))
  BY NatLessThanWellFounded, WFMin
<1>2. \A j \in I : ~(j < i)
  BY <1>1 DEF OpToRel
<1>3. QED
  BY <1>2

\* A set that holds 0 and with each number the next one, up to n.
LEMMA CountUp ==
  ASSUME NEW n \in Nat, NEW G, 0 \in G,
         \A k \in 1..n : k - 1 \in G => k \in G
  PROVE  \A k \in 0..n : k \in G
<1> DEFINE Bad == {k \in 0..n : k \notin G}
<1>1. SUFFICES ASSUME Bad # {} PROVE FALSE
  OBVIOUS
<1>2. PICK k \in Bad : \A j \in Bad : k <= j
  <2>1. Bad \in SUBSET Nat
    OBVIOUS
  <2> HIDE DEF Bad
  <2>2. QED
    BY <1>1, <2>1, LeastNumber
<1>3. k \in 1..n /\ k - 1 \in 0..n /\ k - 1 \notin Bad
  BY <1>2
<1>4. QED
  BY <1>2, <1>3

\* f is what the values of a loop are after 0, 1, ..., n turns, when turn k takes
\* the value x to turn[k][x].
Loops(f, n, first, turn) ==
  f[0] = first /\ \A k \in 1..n : f[k] = turn[k][f[k - 1]]

Turning(n, S, turn) == \A k \in 1..n, x \in S : turn[k][x] \in S

LEMMA Turns ==
  ASSUME NEW n \in Nat, NEW S, NEW first \in S, NEW turn, Turning(n, S, turn)
  PROVE  \E f \in [0..n -> S] : Loops(f, n, first, turn)
<1> DEFINE G == {m \in 0..n : \E f \in [0..n -> S] : Loops(f, m, first, turn)}
<1>1. 0 \in G
  <2>1. Loops([k \in 0..n |-> first], 0, first, turn)
    BY DEF Loops
  <2>2. [k \in 0..n |-> first] \in [0..n -> S]
    OBVIOUS
  <2>3. QED
    BY <2>1, <2>2
<1>2. ASSUME NEW m \in 1..n, m - 1 \in G
      PROVE  m \in G
  <2>1. PICK f \in [0..n -> S] : Loops(f, m - 1, first, turn)
    BY <1>2
  <2> DEFINE g == [f EXCEPT ![m] = turn[m][f[m - 1]]]
  <2>2. turn[m][f[m - 1]] \in S
    BY DEF Turning
  <2>3. g \in [0..n -> S] /\ \A k \in 0..n : g[k] = IF k = m THEN turn[m][f[m - 1]] ELSE f[k]
    BY <2>2
  <2>4. Loops(g, m, first, turn)
    <3>1. g[0] = first
      BY <2>1, <2>3 DEF Loops
    <3>2. ASSUME NEW k \in 1..m PROVE g[k] = turn[k][g[k - 1]]
      <4> HIDE DEF g
      <4>1. CASE k = m
        <5>1. g[k - 1] = f[k - 1]
          <6>1. k - 1 \in 0..n /\ k - 1 # m
            BY <4>1
          <6>2. QED
            BY <2>3, <6>1
        <5>2. m \in 0..n
          OBVIOUS
        <5>3. QED
          BY <2>3, <4>1, <5>1, <5>2
      <4>2. CASE k # m
        <5>1. g[k - 1] = f[k - 1] /\ g[k] = f[k] /\ k \in 1..(m - 1)
          BY <2>3, <4>2
        <5>2. QED
          BY <2>1, <5>1 DEF Loops
      <4>3. QED
        BY <4>1, <4>2
    <3>3. QED
      BY <3>1, <3>2 DEF Loops
  <2>5. m \in 0..n
    OBVIOUS
  <2> HIDE DEF g
  <2>6. QED
    BY <2>3, <2>4, <2>5
<1>3. \A k \in 1..n : k - 1 \in G => k \in G
  BY <1>2
<1>4. n \in G
  <2>1. n \in 0..n
    OBVIOUS
  <2> HIDE DEF G
  <2>2. QED
    BY <1>1, <1>3, <2>1, CountUp
<1>5. QED
  BY <1>4

-----------------------------------------------------------------------------
\* What becomes of a failed batch

\* One turn of the loop that puts a batch back.
Unshift(item, q) == IF Survives(item) THEN <<Failed(item)>> \o q ELSE q

USE ConstantsAssumption DEF ConstantsAssumption

LEMMA UnshiftType ==
  ASSUME NEW item \in Item, NEW q \in Seq(Item)
  PROVE  /\ Unshift(item, q) \in Seq(Item)
         /\ Survives(item) =>
              /\ Failed(item) \in Item
              /\ Len(Unshift(item, q)) = Len(q) + 1
              /\ Unshift(item, q)[1] = Failed(item)
              /\ \A i \in 2..(Len(q) + 1) : Unshift(item, q)[i] = q[i - 1]
<1>1. Survives(item) => Failed(item) \in Item
  BY DEF Survives, Failed, Item
<1>2. CASE Survives(item)
  <2> DEFINE x == Failed(item)
  <2>1. x \in Item /\ Unshift(item, q) = <<x>> \o q
    BY <1>1, <1>2 DEF Unshift
  <2> HIDE DEF x
  <2>2. QED
    BY <2>1, <1>2, ConcatProperties DEF x
<1>3. CASE ~Survives(item)
  BY <1>3 DEF Unshift
<1>4. QED
  BY <1>2, <1>3

\* Requeued is the queue after as many turns as the batch has events.
LEMMA RequeuedLoop ==
  ASSUME queue \in Seq(Item), NEW items \in Seq(Item)
  PROVE  \E back :
           /\ back[0] = queue
           /\ \A k \in 1..Len(items) :
                back[k] = Unshift(items[Len(items) - k + 1], back[k - 1])
           /\ Requeued(items) = back[Len(items)]
<1> DEFINE n == Len(items)
           S == Seq(Item)
           Body(g) == [k \in 0..n |->
             IF k = 0 THEN queue
             ELSE IF Survives(items[n - k + 1])
                    THEN <<Failed(items[n - k + 1])>> \o g[k - 1] ELSE g[k - 1]]
           turn == [k \in 1..n |-> [q \in S |-> Unshift(items[n - k + 1], q)]]
           back == CHOOSE g : g = Body(g)
<1>1. n \in Nat /\ \A k \in 1..n : items[n - k + 1] \in Item
  OBVIOUS
<1>2. \A k \in 1..n, q \in S : turn[k][q] = Unshift(items[n - k + 1], q) /\ turn[k][q] \in S
  BY <1>1, UnshiftType
<1>3. PICK f \in [0..n -> S] : Loops(f, n, queue, turn)
  <2>1. Turning(n, S, turn)
    BY <1>2 DEF Turning
  <2>2. queue \in S
    OBVIOUS
  <2> HIDE DEF n, S, turn
  <2>3. QED
    BY <1>1, <2>1, <2>2, Turns
<1>4. \A k \in 1..n : f[k] = Unshift(items[n - k + 1], f[k - 1])
  <2> SUFFICES ASSUME NEW k \in 1..n PROVE f[k] = Unshift(items[n - k + 1], f[k - 1])
    OBVIOUS
  <2>1. k - 1 \in 0..n
    BY <1>1
  <2> HIDE DEF S
  <2>2. f[k - 1] \in S
    BY <1>3, <2>1
  <2>3. QED
    BY <1>2, <1>3, <2>2 DEF Loops
<1>5. f = Body(f)
  <2>1. ASSUME NEW k \in 0..n PROVE f[k] = Body(f)[k]
    <3>1. CASE k = 0
      BY <1>3, <3>1 DEF Loops
    <3>2. CASE k # 0
      <4>1. k \in 1..n
        BY <1>1, <3>2
      <4>2. f[k] = Unshift(items[n - k + 1], f[k - 1])
        BY <1>4, <4>1
      <4> HIDE DEF n
      <4>3. QED
        BY <3>2, <4>2 DEF Unshift
    <3>3. QED
      BY <3>1, <3>2
  <2>2. QED
    BY <1>3, <2>1
<1>6. back = Body(back)
  <2> HIDE DEF Body
  <2>1. QED
    BY <1>5
<1>7. Requeued(items) = back[n]
  BY DEF Requeued
<1> HIDE DEF back
<1>8. back[0] = queue
  <2>1. 0 \in 0..n
    BY <1>1
  <2> HIDE DEF n
  <2>2. Body(back)[0] = queue
    BY <2>1
  <2> HIDE DEF Body
  <2>3. QED
    BY <1>6, <2>2
<1>9. ASSUME NEW k \in 1..n
      PROVE  back[k] = Unshift(items[n - k + 1], back[k - 1])
  <2>1. k \in 0..n /\ k # 0
    BY <1>1
  <2> HIDE DEF n
  <2>2. Body(back)[k] = Unshift(items[n - k + 1], back[k - 1])
    BY <2>1 DEF Unshift
  <2> HIDE DEF Body
  <2>3. QED
    BY <1>6, <2>2
<1>10. QED
  BY <1>7, <1>8, <1>9

-----------------------------------------------------------------------------
\* Lines of events

Sorted(s) == \A i, j \in DOMAIN s : i < j => s[i].id < s[j].id
Ahead(s, t) == \A i \in DOMAIN s, j \in DOMAIN t : s[i].id < t[j].id
UpTo(s, n) == \A i \in DOMAIN s : s[i].id <= n

\* What the failed flushes of an event may have sent.
Paid(s) == \A i \in DOMAIN s : s[i].sends <= MaxAttempts * s[i].attempts

\* What those and the flush that is failing may have sent.
PaidWith(s, n) == \A i \in DOMAIN s : s[i].sends <= MaxAttempts * s[i].attempts + n

\* One more flush pays for MaxAttempts sends.
LEMMA OneMoreFlush ==
  ASSUME NEW sends \in Nat, NEW attempts \in Nat, NEW n \in 0..MaxAttempts,
         sends <= MaxAttempts * attempts + n
  PROVE  sends <= MaxAttempts * (attempts + 1)
<1>1. MaxAttempts * (attempts + 1) = MaxAttempts * attempts + MaxAttempts
  OBVIOUS
<1>2. MaxAttempts * attempts \in Nat
  OBVIOUS
<1>3. QED
  BY <1>1, <1>2

\* A queue that is sorted and comes after the batch stays so when the batch is
\* put back, and an event that was flushed once more is paid for once more.
LEMMA RequeuedLine ==
  ASSUME queue \in Seq(Item), NEW items \in Seq(Item), NEW n \in Nat,
         Sorted(queue), Sorted(items), Ahead(items, queue),
         UpTo(queue, n), UpTo(items, n),
         Paid(queue), PaidWith(items, MaxAttempts)
  PROVE  /\ Requeued(items) \in Seq(Item)
         /\ Len(Requeued(items)) <= Len(queue) + Len(items)
         /\ Sorted(Requeued(items)) /\ UpTo(Requeued(items), n) /\ Paid(Requeued(items))
<1> DEFINE m == Len(items)
           Fine(k, q) ==
             /\ q \in Seq(Item) /\ Len(q) <= Len(queue) + k
             /\ Sorted(q) /\ UpTo(q, n) /\ Paid(q)
             /\ \A i \in 1..(m - k), j \in DOMAIN q : items[i].id < q[j].id
<1>1. PICK back :
        /\ back[0] = queue
        /\ \A k \in 1..m : back[k] = Unshift(items[m - k + 1], back[k - 1])
        /\ Requeued(items) = back[m]
  BY RequeuedLoop
<1>2. Fine(0, back[0])
  BY <1>1 DEF Ahead
<1>3. ASSUME NEW k \in 1..m, Fine(k - 1, back[k - 1])
      PROVE  Fine(k, back[k])
  <2> DEFINE x == items[m - k + 1]
             q == back[k - 1]
             u == Unshift(x, q)
  <2>1. m \in Nat /\ m - k + 1 \in 1..m /\ m - (k - 1) = m - k + 1
    OBVIOUS
  <2>2. /\ x \in Item /\ x.id <= n
        /\ x.sends <= MaxAttempts * x.attempts + MaxAttempts
    BY <2>1 DEF UpTo, PaidWith
  <2>3. /\ q \in Seq(Item) /\ Len(q) <= Len(queue) + (k - 1)
        /\ Sorted(q) /\ UpTo(q, n) /\ Paid(q)
        /\ \A j \in DOMAIN q : x.id < q[j].id
    BY <1>3, <2>1
  <2>4. ASSUME NEW i \in 1..(m - k) PROVE items[i].id < x.id
    <3>1. i \in DOMAIN items /\ m - k + 1 \in DOMAIN items /\ i < m - k + 1
      BY <2>1
    <3>2. QED
      BY <3>1 DEF Sorted
  <2>5. \A i \in 1..(m - k), j \in DOMAIN q : items[i].id < q[j].id
    BY <1>3, <2>1
  <2>6. back[k] = u
    BY <1>1
  <2>7. CASE ~Survives(x)
    <3>1. u = q
      BY <2>7 DEF Unshift
    <3> HIDE DEF x, q, u
    <3>2. QED
      BY <2>1, <2>3, <2>5, <2>6, <3>1
  <2>8. CASE Survives(x)
    <3> DEFINE y == Failed(x)
    <3>1. /\ u \in Seq(Item) /\ y \in Item /\ Len(u) = Len(q) + 1 /\ u[1] = y
          /\ \A i \in 2..(Len(q) + 1) : u[i] = q[i - 1]
      <4> HIDE DEF x, q
      <4>1. QED
        BY <2>2, <2>3, <2>8, UnshiftType
    <3>2. /\ y.id = x.id
          /\ y.sends <= MaxAttempts * y.attempts
      <4>1. y.id = x.id /\ y.sends = x.sends /\ y.attempts = x.attempts + 1
        BY DEF Failed
      <4> HIDE DEF x, y
      <4>2. x.sends \in Nat /\ x.attempts \in Nat
        BY <2>2 DEF Item
      <4>3. QED
        BY <2>2, <4>1, <4>2, OneMoreFlush
    <3>3. Len(q) \in Nat /\ DOMAIN q = 1..Len(q) /\ DOMAIN u = 1..(Len(q) + 1)
      <4> HIDE DEF q, u
      <4>1. QED
        BY <2>3, <3>1
    <3> HIDE DEF x, y, q, u
    <3>4. ASSUME NEW i \in DOMAIN u
          PROVE  \/ i = 1 /\ u[i] = y
                 \/ i \in 2..(Len(q) + 1) /\ i - 1 \in DOMAIN q /\ u[i] = q[i - 1]
      <4>1. CASE i = 1
        BY <3>1, <4>1
      <4>2. CASE i # 1
        <5>1. i \in 2..(Len(q) + 1) /\ i - 1 \in 1..Len(q)
          BY <3>3, <4>2
        <5>2. QED
          BY <3>1, <3>3, <5>1
      <4>3. QED
        BY <4>1, <4>2
    <3>5. Sorted(u)
      <4> SUFFICES ASSUME NEW i \in DOMAIN u, NEW j \in DOMAIN u, i < j
                   PROVE  u[i].id < u[j].id
        BY DEF Sorted
      <4>1. j - 1 \in DOMAIN q /\ u[j] = q[j - 1]
        BY <3>3, <3>4
      <4>2. CASE i = 1
        BY <2>3, <3>1, <3>2, <4>1, <4>2
      <4>3. CASE i # 1
        <5>1. i - 1 \in DOMAIN q /\ u[i] = q[i - 1] /\ i - 1 < j - 1
          BY <3>3, <3>4, <4>3
        <5>2. QED
          BY <2>3, <4>1, <5>1 DEF Sorted
      <4>4. QED
        BY <4>2, <4>3
    <3>6. UpTo(u, n) /\ Paid(u)
      BY <2>2, <2>3, <3>2, <3>4 DEF UpTo, Paid
    <3>7. \A i \in 1..(m - k), j \in DOMAIN u : items[i].id < u[j].id
      BY <2>4, <2>5, <3>2, <3>4
    <3>8. QED
      BY <2>1, <2>3, <2>6, <3>1, <3>5, <3>6, <3>7
  <2>9. QED
    BY <2>7, <2>8
<1>4. Fine(m, back[m])
  <2> DEFINE G == {k \in 0..m : Fine(k, back[k])}
  <2> HIDE DEF Fine
  <2>1. m \in Nat /\ 0 \in G
    BY <1>2
  <2>2. \A k \in 1..m : k - 1 \in G => k \in G
    BY <1>3
  <2>3. m \in 0..m
    BY <2>1
  <2>4. \A k \in 0..m : k \in G
    <3> HIDE DEF G, m
    <3>1. QED
      BY <2>1, <2>2, CountUp
  <2>5. QED
    BY <2>3, <2>4
<1>5. QED
  BY <1>1, <1>4

-----------------------------------------------------------------------------
\* The invariant

\* The batch in flight goes before the queue, and both hold known events in the
\* order of their ids.
LineOK ==
  /\ queue \in Seq(Item) /\ batch \in Seq(Item) /\ captured \in 0..MaxEvents
  /\ Sorted(queue) /\ Sorted(batch) /\ Ahead(batch, queue)
  /\ UpTo(queue, captured) /\ UpTo(batch, captured)

\* A batch is never larger than the queue was allowed to make it.
SizesOK ==
  /\ Len(batch) <= MaxBatchSize
  /\ Len(queue) + Len(batch) <= MaxQueueSize + MaxBatchSize

\* A flush waits for its next attempt only when it has one left.
SendsOK ==
  /\ attempt \in 0..(MaxAttempts - 1)
  /\ io \in Io /\ (io = "none" <=> batch = <<>>)
  /\ io = "backoff" => attempt < MaxAttempts - 1
  /\ Paid(queue) /\ PaidWith(batch, attempt + 1)

IInv ==
  /\ timer \in BOOLEAN /\ closed \in BOOLEAN /\ shutdown \in Shutdown
  /\ LineOK /\ SizesOK /\ SendsOK
  /\ NothingStranded

\* transport.send changes nothing but the number of sends.
LEMMA SentItems ==
  ASSUME NEW items \in Seq(Item)
  PROVE  /\ Sent(items) \in Seq(Item) /\ Len(Sent(items)) = Len(items)
         /\ DOMAIN Sent(items) = DOMAIN items
         /\ \A i \in DOMAIN items :
              /\ Sent(items)[i].id = items[i].id
              /\ Sent(items)[i].attempts = items[i].attempts
              /\ Sent(items)[i].sends <= items[i].sends + 1
<1> DEFINE one == IF shutdown = "closed" THEN 0 ELSE 1
           sent(i) == [id |-> items[i].id, critical |-> items[i].critical,
                       attempts |-> items[i].attempts, sends |-> items[i].sends + one]
<1>1. one \in 0..1
  OBVIOUS
<1>2. Sent(items) = [i \in DOMAIN items |-> sent(i)]
  BY DEF Sent
<1> HIDE DEF one
<1>3. DOMAIN items = 1..Len(items) /\ Len(items) \in Nat
  OBVIOUS
<1>4. ASSUME NEW i \in DOMAIN items
      PROVE  /\ sent(i) \in Item /\ sent(i).id = items[i].id
             /\ sent(i).attempts = items[i].attempts /\ sent(i).sends <= items[i].sends + 1
  <2>1. items[i] \in Item
    BY <1>3
  <2>2. QED
    BY <1>1, <2>1 DEF Item
<1> HIDE DEF sent
<1>5. Sent(items) \in Seq(Item) /\ Len(Sent(items)) = Len(items)
  BY <1>2, <1>3, <1>4
<1>6. QED
  BY <1>2, <1>3, <1>4, <1>5

LEMMA SentLine ==
  ASSUME NEW items \in Seq(Item), NEW q, NEW n, NEW k \in Nat
  PROVE  /\ Sorted(items) => Sorted(Sent(items))
         /\ Ahead(items, q) => Ahead(Sent(items), q)
         /\ UpTo(items, n) => UpTo(Sent(items), n)
         /\ PaidWith(items, k) => PaidWith(Sent(items), k + 1)
<1>1. Sorted(items) => Sorted(Sent(items))
  BY SentItems DEF Sorted
<1>2. Ahead(items, q) => Ahead(Sent(items), q)
  BY SentItems DEF Ahead
<1>3. UpTo(items, n) => UpTo(Sent(items), n)
  BY SentItems DEF UpTo
<1>4. ASSUME PaidWith(items, k) PROVE PaidWith(Sent(items), k + 1)
  <2> SUFFICES ASSUME NEW i \in DOMAIN items
               PROVE  Sent(items)[i].sends <= MaxAttempts * Sent(items)[i].attempts + (k + 1)
    BY SentItems DEF PaidWith
  <2> DEFINE s == Sent(items)[i]
             x == items[i]
  <2>1. /\ s.attempts = x.attempts /\ s.sends <= x.sends + 1
        /\ s \in Item /\ x \in Item
    BY SentItems
  <2>2. x.sends <= MaxAttempts * x.attempts + k
    BY <1>4 DEF PaidWith
  <2> HIDE DEF s, x
  <2>3. s.sends \in Nat /\ x.sends \in Nat /\ MaxAttempts * x.attempts \in Nat
    <3>1. /\ s.sends \in Nat /\ x.sends \in Nat
          /\ x.attempts \in 0..(MaxAttempts - 1)
      BY <2>1 DEF Item
    <3>2. x.attempts \in Nat /\ MaxAttempts \in Nat
      BY <3>1, ConstantsAssumption
    <3>3. MaxAttempts * x.attempts \in Nat
      BY <3>2
    <3>4. QED
      BY <3>1, <3>3
  <2>4. s.sends <= MaxAttempts * s.attempts + (k + 1)
    BY <2>1, <2>2, <2>3
  <2>5. QED
    BY <2>4 DEF s
<1>5. QED
  BY <1>1, <1>2, <1>3, <1>4

\* A line that is cut in two.
LEMMA CutLine ==
  ASSUME NEW q \in Seq(Item), NEW n \in 0..Len(q), NEW top, Sorted(q), UpTo(q, top), Paid(q)
  PROVE  LET a == SubSeq(q, 1, n)
             b == SubSeq(q, n + 1, Len(q))
         IN  /\ a \in Seq(Item) /\ b \in Seq(Item)
             /\ Len(a) = n /\ Len(b) = Len(q) - n
             /\ Sorted(a) /\ Sorted(b) /\ Ahead(a, b)
             /\ UpTo(a, top) /\ UpTo(b, top) /\ Paid(a) /\ Paid(b)
<1> DEFINE a == SubSeq(q, 1, n)
           b == SubSeq(q, n + 1, Len(q))
<1>1. /\ Len(q) \in Nat /\ DOMAIN q = 1..Len(q) /\ n \in Nat
      /\ \A i \in DOMAIN q : q[i] \in Item
  OBVIOUS
<1>2. /\ a \in Seq(Item) /\ Len(a) = n /\ \A i \in 1..n : a[i] = q[i]
      /\ b \in Seq(Item) /\ Len(b) = Len(q) - n
      /\ \A i \in 1..(Len(q) - n) : b[i] = q[n + i]
  <2>1. \A i \in 1..n : q[i] \in Item
    BY <1>1
  <2>2. a \in Seq(Item) /\ Len(a) = n /\ \A i \in 1..n : a[i] = q[i]
    BY <1>1, <2>1
  <2>3. \A i \in (n + 1)..Len(q) : q[i] \in Item
    BY <1>1
  <2>4. b \in Seq(Item) /\ Len(b) = Len(q) - n /\ \A i \in 1..(Len(q) - n) : b[i] = q[n + i]
    <3>1. n + 1 \in Int /\ Len(q) \in Int /\ n <= Len(q)
      BY <1>1
    <3>2. /\ b \in Seq(Item)
          /\ Len(b) = IF n + 1 <= Len(q) THEN Len(q) - (n + 1) + 1 ELSE 0
          /\ \A i \in 1..(Len(q) - (n + 1) + 1) : b[i] = q[(n + 1) + i - 1]
      BY <2>3, <3>1, SubSeqProperties
    <3> HIDE DEF b
    <3>3. Len(b) = Len(q) - n
      <4>1. \A x, y \in Nat :
              x <= y => (IF x + 1 <= y THEN y - (x + 1) + 1 ELSE 0) = y - x
        OBVIOUS
      <4>2. Len(q) \in Nat /\ n \in Nat
        BY <1>1
      <4>3. QED
        BY <3>1, <3>2, <4>1, <4>2
    <3>4. ASSUME NEW i \in 1..(Len(q) - n) PROVE b[i] = q[n + i]
      <4>1. i \in 1..(Len(q) - (n + 1) + 1) /\ (n + 1) + i - 1 = n + i
        BY <1>1
      <4>2. QED
        BY <3>2, <4>1
    <3>5. QED
      BY <3>2, <3>3, <3>4
  <2>5. QED
    BY <2>2, <2>4
<1> HIDE DEF a, b
<1>3. /\ \A i \in DOMAIN a : i \in DOMAIN q /\ i <= n /\ a[i] = q[i]
      /\ \A i \in DOMAIN b : n + i \in DOMAIN q /\ b[i] = q[n + i]
      /\ DOMAIN a \subseteq Nat \ {0} /\ DOMAIN b \subseteq Nat \ {0}
  BY <1>1, <1>2
<1>4. Sorted(a) /\ Sorted(b) /\ Ahead(a, b)
  <2>1. Sorted(a)
    BY <1>3 DEF Sorted
  <2>2. ASSUME NEW i \in DOMAIN b, NEW j \in DOMAIN b, i < j
        PROVE  b[i].id < b[j].id
    <3>1. n + i < n + j
      BY <1>1, <1>3, <2>2
    <3>2. QED
      BY <1>3, <3>1 DEF Sorted
  <2>3. ASSUME NEW i \in DOMAIN a, NEW j \in DOMAIN b
        PROVE  a[i].id < b[j].id
    <3>1. i < n + j
      BY <1>1, <1>3
    <3>2. QED
      BY <1>3, <3>1 DEF Sorted
  <2>4. QED
    BY <2>1, <2>2, <2>3 DEF Sorted, Ahead
<1>5. UpTo(a, top) /\ UpTo(b, top) /\ Paid(a) /\ Paid(b)
  BY <1>3 DEF UpTo, Paid
<1>6. QED
  BY <1>2, <1>4, <1>5 DEF a, b

-----------------------------------------------------------------------------
\* The steps of a flush

\* What waits and may be flushed.
Flushable(q, n) ==
  /\ q \in Seq(Item) /\ Sorted(q) /\ Ahead(batch, q) /\ UpTo(q, n) /\ Paid(q)
  /\ Len(q) + Len(batch) <= MaxQueueSize + MaxBatchSize

\* flush() keeps the line: it cuts the queue in two, or does nothing with it.
LEMMA FlushKeeps ==
  ASSUME LineOK, SizesOK, SendsOK, NEW n \in 0..MaxEvents, NEW q, NEW tick \in BOOLEAN,
         Flushable(q, n), captured <= n, Flush(q, tick), captured' = n
  PROVE  /\ LineOK' /\ SizesOK' /\ SendsOK'
         /\ timer' \in BOOLEAN /\ (queue' # <<>> => io' # "none" \/ timer')
<1>1. CASE io = "none" /\ q # <<>>
  <2> DEFINE k == IF Len(q) < MaxBatchSize THEN Len(q) ELSE MaxBatchSize
             a == SubSeq(q, 1, k)
             b == SubSeq(q, k + 1, Len(q))
  <2>1. /\ batch' = Sent(a) /\ queue' = b /\ io' = Sending /\ attempt' = 0
        /\ timer' = tick
    BY <1>1 DEF Flush
  <2>2. /\ q \in Seq(Item) /\ Sorted(q) /\ UpTo(q, n) /\ Paid(q) /\ batch = <<>>
        /\ Len(q) <= MaxQueueSize + MaxBatchSize
    BY <1>1 DEF Flushable, SendsOK
  <2>3. /\ Len(q) \in Nat \ {0} /\ k \in 0..Len(q) /\ k \in 1..MaxBatchSize
    BY <1>1, <2>2
  <2> HIDE DEF k
  <2>4. /\ a \in Seq(Item) /\ b \in Seq(Item) /\ Len(a) = k /\ Len(b) = Len(q) - k
        /\ Sorted(a) /\ Sorted(b) /\ Ahead(a, b)
        /\ UpTo(a, n) /\ UpTo(b, n) /\ Paid(a) /\ Paid(b)
    BY <2>2, <2>3, CutLine
  <2> HIDE DEF a, b
  <2>5. PaidWith(a, 0)
    <3>1. ASSUME NEW i \in DOMAIN a PROVE MaxAttempts * a[i].attempts \in Nat
      <4>1. a[i] \in Item
        BY <2>4
      <4>2. a[i].attempts \in Nat
        BY <4>1 DEF Item
      <4>3. QED
        BY <4>2
    <3>2. ASSUME NEW i \in DOMAIN a
          PROVE  a[i].sends <= MaxAttempts * a[i].attempts + 0
      BY <2>4, <3>1 DEF Paid
    <3>3. QED
      BY <3>2 DEF PaidWith
  <2>6. /\ Sent(a) \in Seq(Item) /\ Len(Sent(a)) = k
        /\ Sorted(Sent(a)) /\ Ahead(Sent(a), b) /\ UpTo(Sent(a), n)
        /\ PaidWith(Sent(a), 0 + 1)
    BY <2>4, <2>5, SentItems, SentLine
  <2>7. LineOK'
    BY <2>1, <2>4, <2>6 DEF LineOK, Sorted, Ahead, UpTo
  <2>8. SizesOK'
    BY <2>1, <2>2, <2>3, <2>4, <2>6 DEF SizesOK
  <2>9. batch' # <<>> /\ io' \in {"fetch", "dead"}
    BY <2>1, <2>3, <2>6 DEF Sending
  <2>10. Paid(queue)' /\ PaidWith(batch, attempt + 1)'
    BY <2>1, <2>4, <2>6 DEF Paid, PaidWith
  <2>11. SendsOK'
    BY <2>1, <2>9, <2>10 DEF SendsOK, Io
  <2>12. QED
    BY <2>1, <2>7, <2>8, <2>9, <2>11
<1>2. CASE ~(io = "none" /\ q # <<>>)
  <2>1. queue' = q /\ timer' = tick /\ UNCHANGED <<batch, io, attempt>>
    BY <1>2 DEF Flush
  <2>2. UpTo(batch, n)
    <3>1. ASSUME NEW i \in DOMAIN batch PROVE batch[i].id <= n
      <4>1. batch[i] \in Item /\ batch[i].id <= captured /\ captured \in Nat
        BY DEF LineOK, UpTo
      <4>2. QED
        BY <4>1 DEF Item
    <3>2. QED
      BY <3>1 DEF UpTo
  <2>3. LineOK'
    BY <2>1, <2>2 DEF LineOK, Flushable, Sorted, Ahead, UpTo
  <2>4. SizesOK'
    BY <2>1 DEF SizesOK, Flushable
  <2>5. Paid(queue)' /\ PaidWith(batch, attempt + 1)'
    BY <2>1 DEF SendsOK, Flushable, Paid, PaidWith
  <2>6. SendsOK'
    BY <2>1, <2>5 DEF SendsOK
  <2>7. QED
    BY <1>2, <2>1, <2>3, <2>4, <2>6
<1>3. QED
  BY <1>1, <1>2

\* The queue as it is may be flushed.
LEMMA QueueFlushable ==
  ASSUME LineOK, SizesOK, SendsOK
  PROVE  Flushable(queue, captured)
BY DEF LineOK, SizesOK, SendsOK, Flushable

\* flush() in a state and at a point of the code that leave it the queue.
LEMMA FlushQueue ==
  ASSUME IInv, NEW tick \in BOOLEAN, Flush(queue, tick), captured' = captured
  PROVE  /\ LineOK' /\ SizesOK' /\ SendsOK'
         /\ timer' \in BOOLEAN /\ NothingStranded'
<1>1. Flushable(queue, captured) /\ captured \in 0..MaxEvents /\ captured <= captured
  BY QueueFlushable DEF IInv, LineOK
<1>2. QED
  BY <1>1, FlushKeeps DEF IInv, NothingStranded

\* When a batch is gone and what waits is in order, nothing is in flight.
LEMMA FlushEnds ==
  ASSUME IInv, queue' \in Seq(Item), Sorted(queue'), UpTo(queue', captured), Paid(queue'),
         batch' = <<>>, io' = "none", attempt' = 0,
         Len(queue') <= MaxQueueSize + MaxBatchSize,
         timer' = FlushTimer(queue'), captured' = captured
  PROVE  /\ LineOK' /\ SizesOK' /\ SendsOK'
         /\ timer' \in BOOLEAN /\ NothingStranded'
<1>1. LineOK'
  BY DEF IInv, LineOK, Sorted, Ahead, UpTo
<1>2. SizesOK'
  <2>1. Len(queue') \in Nat /\ Len(batch') = 0
    OBVIOUS
  <2>2. QED
    BY <2>1 DEF SizesOK
<1>3. SendsOK'
  BY DEF SendsOK, Io, Paid, PaidWith
<1>4. QED
  BY <1>1, <1>2, <1>3 DEF IInv, FlushTimer, NothingStranded

-----------------------------------------------------------------------------
\* Making room

\* A sequence without one of its elements.
LEMMA Without ==
  ASSUME NEW q \in Seq(Item), NEW k \in DOMAIN q
  PROVE  /\ RemoveAt(q, k) \in Seq(Item) /\ Len(RemoveAt(q, k)) = Len(q) - 1
         /\ \A i \in DOMAIN RemoveAt(q, k) :
              /\ i < k => i \in DOMAIN q /\ RemoveAt(q, k)[i] = q[i]
              /\ i >= k => i + 1 \in DOMAIN q /\ RemoveAt(q, k)[i] = q[i + 1]
<1> DEFINE a == SubSeq(q, 1, k - 1)
           b == SubSeq(q, k + 1, Len(q))
<1>1. /\ Len(q) \in Nat \ {0} /\ DOMAIN q = 1..Len(q) /\ k \in 1..Len(q)
      /\ \A i \in DOMAIN q : q[i] \in Item
  OBVIOUS
<1>2. /\ a \in Seq(Item) /\ Len(a) = k - 1 /\ \A i \in 1..(k - 1) : a[i] = q[i]
  <2>1. \A i \in 1..(k - 1) : q[i] \in Item
    BY <1>1
  <2>2. QED
    BY <1>1, <2>1
<1>3. /\ b \in Seq(Item) /\ Len(b) = Len(q) - k
      /\ \A i \in 1..(Len(q) - k) : b[i] = q[k + i]
  <2>1. /\ \A i \in (k + 1)..Len(q) : q[i] \in Item
        /\ k + 1 \in Int /\ Len(q) \in Int /\ k <= Len(q)
    BY <1>1
  <2>2. /\ b \in Seq(Item)
        /\ Len(b) = IF k + 1 <= Len(q) THEN Len(q) - (k + 1) + 1 ELSE 0
        /\ \A i \in 1..(Len(q) - (k + 1) + 1) : b[i] = q[(k + 1) + i - 1]
    BY <2>1, SubSeqProperties
  <2> HIDE DEF b
  <2>3. Len(b) = Len(q) - k
    <3>1. \A x, y \in Nat :
            x <= y => (IF x + 1 <= y THEN y - (x + 1) + 1 ELSE 0) = y - x
      OBVIOUS
    <3>2. Len(q) \in Nat /\ k \in Nat
      BY <1>1
    <3>3. QED
      BY <2>1, <2>2, <3>1, <3>2
  <2>4. ASSUME NEW i \in 1..(Len(q) - k) PROVE b[i] = q[k + i]
    <3>1. i \in 1..(Len(q) - (k + 1) + 1) /\ (k + 1) + i - 1 = k + i
      BY <1>1
    <3>2. QED
      BY <2>2, <3>1
  <2>5. QED
    BY <2>2, <2>3, <2>4
<1>4. RemoveAt(q, k) = a \o b
  BY DEF RemoveAt
<1> HIDE DEF a, b
<1>5. /\ a \o b \in Seq(Item) /\ Len(a \o b) = Len(q) - 1
      /\ \A i \in 1..(Len(q) - 1) : (a \o b)[i] = IF i <= k - 1 THEN a[i] ELSE b[i - (k - 1)]
  <2> DEFINE c == a \o b
  <2>1. Len(a) + Len(b) = Len(q) - 1
    BY <1>1, <1>2, <1>3
  <2>2. /\ c \in Seq(Item) /\ Len(c) = Len(a) + Len(b)
        /\ \A i \in 1..(Len(a) + Len(b)) : c[i] = IF i <= Len(a) THEN a[i] ELSE b[i - Len(a)]
    BY <1>2, <1>3, ConcatProperties
  <2> HIDE DEF c
  <2>3. /\ c \in Seq(Item) /\ Len(c) = Len(q) - 1
        /\ \A i \in 1..(Len(q) - 1) : c[i] = IF i <= k - 1 THEN a[i] ELSE b[i - (k - 1)]
    <3>1. Len(a) = k - 1
      BY <1>2
    <3>2. QED
      BY <2>1, <2>2, <3>1
  <2>4. QED
    BY <2>3 DEF c
<1>6. ASSUME NEW i \in DOMAIN (a \o b)
      PROVE  /\ i < k => i \in DOMAIN q /\ (a \o b)[i] = q[i]
             /\ i >= k => i + 1 \in DOMAIN q /\ (a \o b)[i] = q[i + 1]
  <2>1. i \in 1..(Len(q) - 1)
    BY <1>5
  <2>2. CASE i < k
    <3>1. i \in 1..(k - 1) /\ i \in DOMAIN q /\ ~(i >= k)
      BY <1>1, <2>1, <2>2
    <3>2. QED
      BY <1>2, <1>5, <2>1, <3>1
  <2>3. CASE ~(i < k)
    <3>1. /\ ~(i <= k - 1) /\ i + 1 \in DOMAIN q
          /\ i - (k - 1) \in 1..(Len(q) - k) /\ k + (i - (k - 1)) = i + 1
      BY <1>1, <2>1, <2>3
    <3>2. QED
      BY <1>3, <1>5, <2>1, <2>3, <3>1
  <2>4. QED
    BY <2>2, <2>3
<1>7. QED
  BY <1>4, <1>5, <1>6

\* Roomy is the queue or the queue without one event, which then was full.
LEMMA RoomyIsWithout ==
  ASSUME queue \in Seq(Item), Roomy # queue
  PROVE  Full /\ \E k \in DOMAIN queue : Roomy = RemoveAt(queue, k)
<1>1. Full /\ \E i \in 1..Len(queue) : IsMinor(queue[i])
  BY DEF Roomy, RemoveFirstMatch
<1> DEFINE I == {i \in 1..Len(queue) : IsMinor(queue[i])}
<1>2. Roomy = RemoveAt(queue, CHOOSE i \in I : \A j \in I : i <= j)
  BY <1>1 DEF Roomy, RemoveFirstMatch, SelectInSeq, Min
<1>3. I \in SUBSET Nat /\ I # {}
  BY <1>1
<1>4. (CHOOSE i \in I : \A j \in I : i <= j) \in I
  <2> HIDE DEF I
  <2>1. QED
    BY <1>3, LeastNumber
<1>5. I \subseteq DOMAIN queue
  OBVIOUS
<1>6. QED
  BY <1>1, <1>2, <1>4, <1>5

LEMMA RoomyLine ==
  ASSUME LineOK, SizesOK, SendsOK
  PROVE  /\ Flushable(Roomy, captured) /\ Len(Roomy) <= Len(queue)
         /\ Roomy # queue => Len(Roomy) + 1 = Len(queue)
<1>1. CASE Roomy = queue
  BY <1>1, QueueFlushable DEF LineOK
<1>2. CASE Roomy # queue
  <2>1. PICK k \in DOMAIN queue : Roomy = RemoveAt(queue, k)
    BY <1>2, RoomyIsWithout DEF LineOK
  <2>2. queue \in Seq(Item) /\ Len(queue) \in Nat /\ DOMAIN queue = 1..Len(queue)
    BY DEF LineOK
  <2> DEFINE r == Roomy
             from(i) == IF i < k THEN i ELSE i + 1
  <2>3. /\ r \in Seq(Item) /\ Len(r) = Len(queue) - 1 /\ DOMAIN r = 1..(Len(queue) - 1)
    <3> HIDE DEF r
    <3>1. r = RemoveAt(queue, k)
      BY <2>1 DEF r
    <3>2. r \in Seq(Item) /\ Len(r) = Len(queue) - 1
      BY <2>2, <3>1, Without
    <3>3. DOMAIN r = 1..Len(r)
      BY <3>2
    <3>4. QED
      BY <3>2, <3>3
  <2>4. \A i \in DOMAIN r : from(i) \in DOMAIN queue /\ r[i] = queue[from(i)]
    <3> HIDE DEF r
    <3>1. \A i \in DOMAIN r : i \in Nat /\ k \in Nat
      BY <2>2, <2>3
    <3>2. /\ \A i \in DOMAIN r : i < k => i \in DOMAIN queue /\ r[i] = queue[i]
          /\ \A i \in DOMAIN r : i >= k => i + 1 \in DOMAIN queue /\ r[i] = queue[i + 1]
      BY <2>1, <2>2, Without DEF r
    <3>3. QED
      BY <3>1, <3>2
  <2>5. \A i, j \in DOMAIN r : i < j => from(i) < from(j)
    BY <2>2, <2>3
  <2> HIDE DEF r, from
  <2>6. Sorted(r) /\ Ahead(batch, r) /\ UpTo(r, captured) /\ Paid(r)
    BY <2>4, <2>5 DEF LineOK, SendsOK, Sorted, Ahead, UpTo, Paid
  <2>7. Len(r) + Len(batch) <= MaxQueueSize + MaxBatchSize
    BY <2>2, <2>3 DEF LineOK, SizesOK
  <2>8. QED
    BY <2>2, <2>3, <2>6, <2>7 DEF Flushable, r
<1>3. QED
  BY <1>1, <1>2

\* The latest event goes last.
LEMMA Enqueued ==
  ASSUME IInv, NEW critical \in BOOLEAN, captured < MaxEvents, ~Full \/ Roomy # queue
  PROVE  LET event == [id |-> captured + 1, critical |-> critical, attempts |-> 0, sends |-> 0]
         IN  Flushable(Append(Roomy, event), captured + 1)
<1> DEFINE event == [id |-> captured + 1, critical |-> critical, attempts |-> 0, sends |-> 0]
           r == Roomy
           q == Append(r, event)
<1>1. /\ r \in Seq(Item) /\ Sorted(r) /\ Ahead(batch, r) /\ UpTo(r, captured) /\ Paid(r)
      /\ Len(r) + Len(batch) <= MaxQueueSize + MaxBatchSize
      /\ Len(r) <= Len(queue) /\ (r # queue => Len(r) + 1 = Len(queue))
  BY RoomyLine DEF IInv, Flushable
<1>2. /\ captured \in Nat /\ batch \in Seq(Item) /\ queue \in Seq(Item) /\ UpTo(batch, captured)
  BY DEF IInv, LineOK
<1>3. event \in Item /\ event.id = captured + 1 /\ event.sends = 0 /\ event.attempts = 0
  BY <1>2 DEF IInv, LineOK, Item
<1> HIDE DEF event, r
<1>4. /\ q \in Seq(Item) /\ Len(q) = Len(r) + 1 /\ Len(r) \in Nat
      /\ DOMAIN q = 1..(Len(r) + 1) /\ DOMAIN r = 1..Len(r)
      /\ \A i \in DOMAIN r : q[i] = r[i]
      /\ q[Len(r) + 1] = event
  BY <1>1, <1>3
<1> HIDE DEF q
<1>5. \A i \in DOMAIN q : (i \in DOMAIN r /\ q[i] = r[i]) \/ (i = Len(r) + 1 /\ q[i] = event)
  <2> SUFFICES ASSUME NEW i \in DOMAIN q
               PROVE  (i \in DOMAIN r /\ q[i] = r[i]) \/ (i = Len(r) + 1 /\ q[i] = event)
    OBVIOUS
  <2>1. CASE i = Len(r) + 1
    BY <1>4, <2>1
  <2>2. CASE i # Len(r) + 1
    <3>1. Len(r) \in Nat /\ i \in 1..(Len(r) + 1) /\ DOMAIN r = 1..Len(r)
      BY <1>4
    <3>2. i \in DOMAIN r
      BY <2>2, <3>1
    <3>3. q[i] = r[i]
      BY <1>4, <3>2
    <3>4. QED
      BY <3>2, <3>3
  <2>3. QED
    BY <2>1, <2>2
<1>6. \A i \in DOMAIN r : r[i].id < captured + 1
  <2> SUFFICES ASSUME NEW i \in DOMAIN r PROVE r[i].id < captured + 1
    OBVIOUS
  <2>1. r[i] \in Item /\ r[i].id <= captured
    BY <1>1 DEF UpTo
  <2>2. QED
    BY <1>2, <2>1 DEF Item
<1>7. \A i \in DOMAIN batch : batch[i].id < captured + 1
  <2> SUFFICES ASSUME NEW i \in DOMAIN batch PROVE batch[i].id < captured + 1
    OBVIOUS
  <2>1. batch[i] \in Item /\ batch[i].id <= captured
    BY <1>2 DEF UpTo
  <2>2. QED
    BY <1>2, <2>1 DEF Item
<1>8. Sorted(q)
  <2> SUFFICES ASSUME NEW i \in DOMAIN q, NEW j \in DOMAIN q, i < j
               PROVE  q[i].id < q[j].id
    BY DEF Sorted
  <2>1. i \in DOMAIN r /\ q[i] = r[i]
    BY <1>4, <1>5
  <2>2. QED
    BY <1>1, <1>3, <1>5, <1>6, <2>1 DEF Sorted
<1>9. Ahead(batch, q)
  BY <1>1, <1>3, <1>5, <1>7 DEF Ahead
<1>10. UpTo(q, captured + 1)
  <2> SUFFICES ASSUME NEW i \in DOMAIN q PROVE q[i].id <= captured + 1
    BY DEF UpTo
  <2>1. q[i] \in Item
    BY <1>4
  <2>2. q[i].id < captured + 1 \/ q[i].id = captured + 1
    BY <1>3, <1>5, <1>6
  <2>3. QED
    BY <1>2, <2>1, <2>2 DEF Item
<1>11. Paid(q)
  BY <1>1, <1>3, <1>5 DEF Paid
<1>12. Len(q) + Len(batch) <= MaxQueueSize + MaxBatchSize
  <2>1. Len(queue) \in Nat /\ Len(batch) \in Nat /\ Len(batch) <= MaxBatchSize
        /\ Len(queue) + Len(batch) <= MaxQueueSize + MaxBatchSize
    BY <1>2 DEF IInv, SizesOK
  <2>2. CASE r # queue
    BY <1>1, <1>4, <2>1, <2>2
  <2>3. CASE r = queue
    <3>1. Len(queue) < MaxQueueSize
      BY <2>1, <2>3 DEF Full, r
    <3>2. QED
      BY <1>4, <2>1, <2>3, <3>1
  <2>4. QED
    BY <2>2, <2>3
<1>13. QED
  BY <1>4, <1>8, <1>9, <1>10, <1>11, <1>12 DEF Flushable, q, r, event

-----------------------------------------------------------------------------
\* The steps of the specification

LEMMA InitIInv == Init => IInv
<1> SUFFICES ASSUME Init PROVE IInv
  OBVIOUS
<1>1. queue = <<>> /\ batch = <<>> /\ attempt = 0 /\ io = "none" /\ captured = 0
  BY DEF Init
<1>2. <<>> \in Seq(Item) /\ Len(<<>>) = 0 /\ DOMAIN <<>> = {}
  OBVIOUS
<1>3. LineOK
  BY <1>1, <1>2 DEF LineOK, Sorted, Ahead, UpTo
<1>4. SizesOK
  BY <1>1, <1>2 DEF SizesOK
<1>5. SendsOK
  BY <1>1, <1>2 DEF SendsOK, Io, Paid, PaidWith
<1>6. QED
  BY <1>1, <1>3, <1>4, <1>5 DEF Init, IInv, NothingStranded, Shutdown

LEMMA EnqueueStep ==
  ASSUME IInv, NEW critical \in BOOLEAN, Enqueue(critical)
  PROVE  IInv'
<1> DEFINE event == [id |-> captured + 1, critical |-> critical, attempts |-> 0, sends |-> 0]
           q == Append(Roomy, event)
<1>1. /\ captured' = captured + 1 /\ captured < MaxEvents
      /\ UNCHANGED <<closed, shutdown>>
      /\ \/ UNCHANGED <<queue, timer, batch, io, attempt>>
         \/ /\ ~Full \/ Roomy # queue
            /\ IF critical THEN Flush(q, timer)
               ELSE queue' = q /\ timer' = TRUE /\ UNCHANGED <<batch, io, attempt>>
  BY DEF Enqueue
<1>2. /\ timer \in BOOLEAN /\ closed \in BOOLEAN /\ shutdown \in Shutdown
      /\ LineOK /\ SizesOK /\ SendsOK /\ NothingStranded
  BY DEF IInv
<1>3. captured + 1 \in 0..MaxEvents /\ captured <= captured + 1 /\ captured \in Nat
  BY <1>1, <1>2 DEF LineOK
<1>4. UpTo(batch, captured + 1) /\ UpTo(queue, captured + 1)
  <2>1. ASSUME NEW item \in Item, item.id <= captured PROVE item.id <= captured + 1
    BY <1>3, <2>1 DEF Item
  <2>2. ASSUME NEW s \in Seq(Item), UpTo(s, captured) PROVE UpTo(s, captured + 1)
    <3>1. \A i \in DOMAIN s : s[i] \in Item
      OBVIOUS
    <3>2. QED
      BY <2>1, <2>2, <3>1 DEF UpTo
  <2>3. QED
    BY <1>2, <2>2 DEF LineOK
<1>5. CASE UNCHANGED <<queue, timer, batch, io, attempt>>
  <2>1. LineOK'
    BY <1>1, <1>2, <1>3, <1>4, <1>5 DEF LineOK, Sorted, Ahead, UpTo
  <2>2. SizesOK' /\ SendsOK' /\ NothingStranded'
    BY <1>2, <1>5 DEF SizesOK, SendsOK, NothingStranded, Paid, PaidWith
  <2>3. QED
    BY <1>1, <1>2, <1>5, <2>1, <2>2 DEF IInv
<1>6. CASE ~Full \/ Roomy # queue
  <2>1. Flushable(q, captured + 1)
    BY <1>1, <1>6, Enqueued
  <2> HIDE DEF q
  <2>2. CASE critical /\ Flush(q, timer)
    <3>1. LineOK' /\ SizesOK' /\ SendsOK' /\ timer' \in BOOLEAN /\ NothingStranded'
      BY <1>1, <1>2, <1>3, <2>1, <2>2, FlushKeeps DEF NothingStranded
    <3>2. QED
      BY <1>1, <1>2, <3>1 DEF IInv
  <2>3. CASE queue' = q /\ timer' = TRUE /\ UNCHANGED <<batch, io, attempt>>
    <3>1. LineOK'
      BY <1>1, <1>2, <1>3, <1>4, <2>1, <2>3 DEF LineOK, Flushable, Sorted, Ahead, UpTo
    <3>2. SizesOK' /\ SendsOK' /\ NothingStranded'
      BY <1>2, <2>1, <2>3
      DEF Flushable, SizesOK, SendsOK, NothingStranded, Paid, PaidWith
    <3>3. QED
      BY <1>1, <1>2, <2>3, <3>1, <3>2 DEF IInv
  <2>4. CASE UNCHANGED <<queue, timer, batch, io, attempt>>
    BY <1>5, <2>4
  <2>5. QED
    BY <1>1, <2>2, <2>3, <2>4
<1>7. QED
  BY <1>1, <1>5, <1>6

\* A step that flushes the queue, or does nothing to it, while shutdown moves on.
LEMMA FlushStep ==
  ASSUME IInv, NEW tick \in BOOLEAN, Flush(queue, tick),
         captured' = captured, closed' \in BOOLEAN, shutdown' \in Shutdown
  PROVE  IInv'
BY FlushQueue DEF IInv

LEMMA MoveStep ==
  ASSUME IInv, UNCHANGED <<queue, batch, attempt, io, timer, captured>>,
         closed' \in BOOLEAN, shutdown' \in Shutdown
  PROVE  IInv'
<1>1. LineOK'
  BY DEF IInv, LineOK, Sorted, Ahead, UpTo
<1>2. SizesOK' /\ SendsOK' /\ NothingStranded'
  BY DEF IInv, SizesOK, SendsOK, NothingStranded, Paid, PaidWith
<1>3. QED
  BY <1>1, <1>2 DEF IInv

LEMMA ResendStep ==
  ASSUME IInv, Resend
  PROVE  IInv'
<1>1. /\ io = "backoff" /\ attempt' = attempt + 1 /\ batch' = Sent(batch) /\ io' = Sending
      /\ UNCHANGED <<queue, timer, closed, captured, shutdown>>
  BY DEF Resend
<1>2. /\ queue \in Seq(Item) /\ batch \in Seq(Item) /\ attempt \in 0..(MaxAttempts - 1)
      /\ attempt < MaxAttempts - 1 /\ batch # <<>> /\ PaidWith(batch, attempt + 1)
      /\ Sorted(batch) /\ Ahead(batch, queue) /\ UpTo(batch, captured)
  BY <1>1 DEF IInv, LineOK, SendsOK
<1>3. attempt + 1 \in Nat /\ attempt + 1 \in 0..(MaxAttempts - 1)
  BY <1>2
<1>4. /\ batch' \in Seq(Item) /\ Len(batch') = Len(batch)
      /\ Sorted(batch') /\ Ahead(batch', queue) /\ UpTo(batch', captured)
      /\ PaidWith(batch', (attempt + 1) + 1)
  BY <1>1, <1>2, <1>3, SentItems, SentLine
<1>5. LineOK'
  BY <1>1, <1>4 DEF IInv, LineOK, Sorted, Ahead, UpTo
<1>6. SizesOK'
  BY <1>1, <1>4 DEF IInv, SizesOK
<1>7. batch' # <<>> /\ io' \in {"fetch", "dead"}
  BY <1>1, <1>2, <1>4 DEF Sending
<1>8. Paid(queue)' /\ PaidWith(batch, attempt + 1)'
  BY <1>1, <1>4 DEF IInv, SendsOK, Paid, PaidWith
<1>9. SendsOK'
  BY <1>1, <1>3, <1>7, <1>8 DEF SendsOK, Io
<1>10. QED
  BY <1>1, <1>5, <1>6, <1>7, <1>9 DEF IInv, NothingStranded

LEMMA FlushFailsStep ==
  ASSUME IInv, FlushFails
  PROVE  IInv'
<1>1. /\ queue' = Requeued(batch) /\ batch' = <<>> /\ io' = "none" /\ attempt' = 0
      /\ timer' = FlushTimer(queue') /\ UNCHANGED <<closed, captured>>
      /\ shutdown' \in Shutdown
  BY DEF FlushFails, IInv, Shutdown
<1>2. /\ queue \in Seq(Item) /\ batch \in Seq(Item) /\ captured \in Nat
      /\ Sorted(queue) /\ Sorted(batch) /\ Ahead(batch, queue)
      /\ UpTo(queue, captured) /\ UpTo(batch, captured) /\ Paid(queue)
      /\ Len(queue) + Len(batch) <= MaxQueueSize + MaxBatchSize
  BY DEF IInv, LineOK, SizesOK, SendsOK
<1>3. PaidWith(batch, MaxAttempts)
  <2> SUFFICES ASSUME NEW i \in DOMAIN batch
               PROVE  batch[i].sends <= MaxAttempts * batch[i].attempts + MaxAttempts
    BY DEF PaidWith
  <2>1. batch[i] \in Item
    BY <1>2
  <2>2. batch[i].sends \in Nat /\ batch[i].attempts \in Nat
    BY <2>1 DEF Item
  <2>3. MaxAttempts * batch[i].attempts \in Nat
    BY <2>2
  <2>4. /\ attempt \in 0..(MaxAttempts - 1)
        /\ batch[i].sends <= MaxAttempts * batch[i].attempts + (attempt + 1)
    BY DEF IInv, SendsOK, PaidWith
  <2>5. QED
    BY <2>2, <2>3, <2>4
<1>4. /\ Requeued(batch) \in Seq(Item)
      /\ Len(Requeued(batch)) <= Len(queue) + Len(batch)
      /\ Sorted(Requeued(batch)) /\ UpTo(Requeued(batch), captured) /\ Paid(Requeued(batch))
  BY <1>2, <1>3, RequeuedLine
<1>5. /\ queue' \in Seq(Item) /\ Len(queue') <= Len(queue) + Len(batch)
      /\ Sorted(queue') /\ UpTo(queue', captured) /\ Paid(queue')
  BY <1>1, <1>4
<1>6. Len(queue') <= MaxQueueSize + MaxBatchSize
  BY <1>2, <1>5
<1>7. LineOK' /\ SizesOK' /\ SendsOK' /\ timer' \in BOOLEAN /\ NothingStranded'
  BY <1>1, <1>5, <1>6, FlushEnds
<1>8. QED
  BY <1>1, <1>7 DEF IInv

LEMMA SendOkStep ==
  ASSUME IInv, SendOk
  PROVE  IInv'
<1>1. /\ queue' = queue /\ batch' = <<>> /\ io' = "none" /\ attempt' = 0
      /\ timer' = FlushTimer(queue') /\ UNCHANGED <<closed, captured>>
      /\ shutdown' \in Shutdown
  BY DEF SendOk, IInv, Shutdown
<1>2. /\ queue \in Seq(Item) /\ batch \in Seq(Item) /\ Sorted(queue) /\ UpTo(queue, captured)
      /\ Paid(queue) /\ Len(queue) + Len(batch) <= MaxQueueSize + MaxBatchSize
  BY DEF IInv, LineOK, SizesOK, SendsOK
<1>3. Len(queue') <= MaxQueueSize + MaxBatchSize
  <2>1. Len(queue) \in Nat /\ Len(batch) \in Nat
    BY <1>2
  <2>2. QED
    BY <1>1, <1>2, <2>1
<1>4. LineOK' /\ SizesOK' /\ SendsOK' /\ timer' \in BOOLEAN /\ NothingStranded'
  BY <1>1, <1>2, <1>3, FlushEnds
<1>5. QED
  BY <1>1, <1>4 DEF IInv

LEMMA NextIInv == IInv /\ [Next]_vars => IInv'
<1> SUFFICES ASSUME IInv, [Next]_vars PROVE IInv'
  OBVIOUS
<1>1. timer \in BOOLEAN /\ closed \in BOOLEAN /\ shutdown \in Shutdown
  BY DEF IInv
<1>2. ASSUME NEW critical \in BOOLEAN, Enqueue(critical) PROVE IInv'
  BY <1>2, EnqueueStep
<1>3. CASE TimerFires
  BY <1>1, <1>3, FlushStep DEF TimerFires
<1>4. CASE HostFlush
  BY <1>1, <1>4, FlushStep DEF HostFlush
<1>5. CASE SendOk
  BY <1>5, SendOkStep
<1>6. CASE SendRetryable
  <2>1. /\ io = "fetch" /\ attempt < MaxAttempts - 1 /\ io' = "backoff"
        /\ UNCHANGED <<queue, batch, attempt, timer, closed, captured, shutdown>>
    BY <1>6 DEF SendRetryable
  <2>2. LineOK' /\ SizesOK'
    BY <2>1 DEF IInv, LineOK, SizesOK, Sorted, Ahead, UpTo
  <2>3. SendsOK' /\ NothingStranded'
    BY <2>1 DEF IInv, SendsOK, NothingStranded, Io, Paid, PaidWith
  <2>4. QED
    BY <1>1, <2>1, <2>2, <2>3 DEF IInv
<1>7. CASE Resend
  BY <1>7, ResendStep
<1>8. CASE FlushFails
  BY <1>8, FlushFailsStep
<1>9. CASE BeginClose
  <2>1. /\ captured' = captured /\ closed' = closed /\ shutdown' \in Shutdown
        /\ Flush(queue, timer)
    BY <1>9 DEF BeginClose, Shutdown
  <2>2. QED
    BY <1>1, <2>1, FlushStep
<1>10. CASE FlushLoop
  <2>1. captured' = captured /\ closed' = closed /\ shutdown' \in Shutdown
    BY <1>10 DEF FlushLoop, Shutdown
  <2>2. CASE Flush(queue, timer)
    BY <1>1, <2>1, <2>2, FlushStep
  <2>3. CASE UNCHANGED <<queue, batch, attempt, io, timer>>
    BY <1>1, <2>1, <2>3, MoveStep
  <2>4. QED
    BY <1>10, <2>2, <2>3 DEF FlushLoop
<1>11. CASE QueueClose
  <2>1. /\ captured' = captured /\ closed' \in BOOLEAN /\ shutdown' \in Shutdown
        /\ Flush(queue, FALSE)
    BY <1>11 DEF QueueClose, Shutdown
  <2>2. QED
    BY <2>1, FlushStep
<1>12. CASE DrainLoop
  <2>1. captured' = captured /\ closed' = closed /\ shutdown' \in Shutdown
    BY <1>12 DEF DrainLoop, Shutdown
  <2>2. CASE Flush(queue, timer)
    BY <1>1, <2>1, <2>2, FlushStep
  <2>3. CASE UNCHANGED <<queue, batch, attempt, io, timer>>
    BY <1>1, <2>1, <2>3, MoveStep
  <2>4. QED
    BY <1>12, <2>2, <2>3 DEF DrainLoop
<1>13. CASE UNCHANGED vars
  BY <1>1, <1>13, MoveStep DEF vars
<1>14. QED
  BY <1>2, <1>3, <1>4, <1>5, <1>6, <1>7, <1>8, <1>9, <1>10, <1>11, <1>12, <1>13 DEF Next

LEMMA Invariant == Spec => []IInv
<1>1. Init => IInv
  BY InitIInv
<1>2. IInv /\ [Next]_vars => IInv'
  BY NextIInv
<1>3. QED
  BY <1>1, <1>2, PTL DEF Spec

-----------------------------------------------------------------------------
\* What the invariant says

\* The state of the queue has its shape in every state, for every size of the
\* queue and of a batch; a flush is in flight exactly while it holds a batch.
THEOREM TypeCorrect == Spec => []TypeOK
<1>1. IInv => TypeOK
  BY DEF IInv, LineOK, SendsOK, TypeOK
<1>2. QED
  BY <1>1, Invariant, PTL

\* enqueue() with its eviction and the re-queueing after a failed flush never
\* hold more than the limit and one batch, for every limit and batch size.
THEOREM MemoryBounded == Spec => []BoundedMemory
<1>1. IInv => BoundedMemory
  BY DEF IInv, SizesOK, BoundedMemory
<1>2. QED
  BY <1>1, Invariant, PTL

\* Whatever fails and whenever the SDK is closed, events in the queue wait for a
\* flush in flight or for the timer.
THEOREM NeverStranded == Spec => []NothingStranded
<1>1. IInv => NothingStranded
  BY DEF IInv
<1>2. QED
  BY <1>1, Invariant, PTL

\* The loop over the reversed batch, evictions from the middle and flushes of a
\* part leave the events of batch and queue in the order of their capture, each
\* of them once.
THEOREM OrderKept == Spec => []CaptureOrder
<1>1. ASSUME IInv PROVE CaptureOrder
  <2> DEFINE line == batch \o queue
  <2>1. /\ batch \in Seq(Item) /\ queue \in Seq(Item)
        /\ Sorted(batch) /\ Sorted(queue) /\ Ahead(batch, queue)
    BY <1>1 DEF IInv, LineOK
  <2>2. /\ line \in Seq(Item) /\ Len(line) = Len(batch) + Len(queue)
        /\ \A i \in 1..(Len(batch) + Len(queue)) :
             line[i] = IF i <= Len(batch) THEN batch[i] ELSE queue[i - Len(batch)]
    BY <2>1, ConcatProperties
  <2>3. /\ Len(batch) \in Nat /\ Len(queue) \in Nat
        /\ DOMAIN batch = 1..Len(batch) /\ DOMAIN queue = 1..Len(queue)
    BY <2>1
  <2> HIDE DEF line
  <2>4. DOMAIN line = 1..(Len(batch) + Len(queue))
    BY <2>2
  <2>5. ASSUME NEW i \in DOMAIN line
        PROVE  \/ i \in DOMAIN batch /\ line[i] = batch[i]
               \/ i > Len(batch) /\ i - Len(batch) \in DOMAIN queue
                  /\ line[i] = queue[i - Len(batch)]
    BY <2>2, <2>3, <2>4
  <2>6. ASSUME NEW i \in DOMAIN line, NEW j \in DOMAIN line, i < j
        PROVE  line[i].id < line[j].id
    <3>1. CASE j \in DOMAIN batch
      <4>1. i \in DOMAIN batch /\ line[i] = batch[i] /\ line[j] = batch[j]
        BY <2>2, <2>3, <2>4, <2>6, <3>1
      <4>2. QED
        BY <2>1, <2>6, <4>1, <3>1 DEF Sorted
    <3>2. CASE j > Len(batch) /\ j - Len(batch) \in DOMAIN queue
               /\ line[j] = queue[j - Len(batch)]
      <4>1. CASE i \in DOMAIN batch /\ line[i] = batch[i]
        BY <2>1, <3>2, <4>1 DEF Ahead
      <4>2. CASE i > Len(batch) /\ i - Len(batch) \in DOMAIN queue
                 /\ line[i] = queue[i - Len(batch)]
        <5>1. i - Len(batch) < j - Len(batch)
          BY <2>3, <2>4, <2>6
        <5>2. QED
          BY <2>1, <3>2, <4>2, <5>1 DEF Sorted
      <4>3. QED
        BY <2>5, <4>1, <4>2
    <3>3. QED
      BY <2>5, <3>1, <3>2
  <2>7. QED
    BY <2>6 DEF CaptureOrder, line
<1>2. IInv => CaptureOrder
  BY <1>1
<1>3. QED
  BY <1>2, Invariant, PTL

\* The attempts inside a flush and the re-queueing after it multiply and no
\* more, for every number of attempts: an event that goes back has been sent
\* MaxAttempts times at most for each flush it is charged with.
THEOREM SendsAreBounded == Spec => []SendsBounded
<1>1. ASSUME IInv PROVE SendsBounded
  <2>1. Paid(queue)
    BY <1>1 DEF IInv, SendsOK
  <2>2. ASSUME NEW i \in DOMAIN batch
        PROVE  batch[i].sends <= MaxAttempts * batch[i].attempts + attempt + 1
    <3>1. /\ batch[i] \in Item /\ attempt \in Nat
          /\ batch[i].sends <= MaxAttempts * batch[i].attempts + (attempt + 1)
      BY <1>1 DEF IInv, LineOK, SendsOK, PaidWith
    <3>2. batch[i].attempts \in Nat /\ batch[i].sends \in Nat
      BY <3>1 DEF Item
    <3>3. MaxAttempts * batch[i].attempts \in Nat
      BY <3>2
    <3>4. QED
      BY <3>1, <3>2, <3>3
  <2>3. QED
    BY <2>1, <2>2 DEF SendsBounded, Paid
<1>2. IInv => SendsBounded
  BY <1>1
<1>3. QED
  BY <1>2, Invariant, PTL
=============================================================================
