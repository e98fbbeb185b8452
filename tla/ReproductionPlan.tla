--------------------------- MODULE ReproductionPlan ---------------------------
(***************************************************************************)
(* How a recorded session becomes the plan of a Playwright test: the       *)
(* worker collects and sanitizes the events up to the failure, and         *)
(* buildReproductionPlan sorts and walks them once, emitting actions,      *)
(* taking a fill back when the next one is about the same element, and     *)
(* guessing which navigations are the effect of a click.                   *)
(*                                                                         *)
(* The steps of the job are in OutboxJobs; here it is what its handler     *)
(* computes, of any session and any failure in it, and it is compared with *)
(* definitions that say of a whole session what its plan must be.          *)
(***************************************************************************)
EXTENDS Naturals, FiniteSets, Sequences, SequencesExt

CONSTANTS
  None,             \* undefined, and null
  Unsafe,           \* a navigation target that sanitizeRoute refuses
  Home,             \* the route "/"
  Secret,           \* an input's value that looks sensitive
  StableId,         \* values of input_id that select an element
  StableName,       \* values of input_name that do
  TimelineWindow,   \* TIMELINE_WINDOW and MAX_TIMELINE_ITEMS
  MaxCandidates,    \* locator candidates that are looked at
  MaxActions,       \* MAX_ACTIONS
  Sessions          \* bound: the recorded sessions, see IsSession

\* A candidate: rank (of its type, the strongest is 0), value, confidence,
\*   safe (neither the worker nor candidateIsUnsafe refuses it), builds
\*   (buildExpression succeeds), brittle.
IsCandidates(list) ==
  /\ list \in Seq(Range(list))
  /\ \A i \in DOMAIN list : list[i].rank \in Nat /\ list[i].confidence \in Nat

\* A row of a session: seq, at, id, type, page, and by its type (where a
\* navigation came from is left out)
\*   navigation  to: the route it went to, Unsafe or None
\*   click       candidates: of the element that was clicked
\*   input       inputId, inputName, hasValue, value
IsRow(item) ==
  /\ {"seq", "at", "id", "type", "page"} \subseteq DOMAIN item
  /\ item.seq \in Nat /\ item.at \in Nat /\ item.id \in Nat
  /\ item.type = "click" => "candidates" \in DOMAIN item /\ IsCandidates(item.candidates)
  /\ item.type = "input" => "value" \in DOMAIN item /\ item.hasValue \in BOOLEAN

\* The rows of a session in the order in which they arrived; ids are unique.
IsSession(rows) ==
  /\ rows \in Seq(Range(rows))
  /\ \A i \in DOMAIN rows : IsRow(rows[i])
  /\ \A i, j \in DOMAIN rows : rows[i].id = rows[j].id => i = j

ASSUME LimitsAssumption == TimelineWindow \in Nat /\ MaxCandidates \in Nat
ASSUME SessionsAssumption == \A rows \in Sessions : IsSession(rows)

\* The last n of a sequence, as slice(-n).
LastOf(s, n) == IF Len(s) > n THEN SubSeq(s, Len(s) - n + 1, Len(s)) ELSE s
FirstOf(s, n) == IF Len(s) > n THEN SubSeq(s, 1, n) ELSE s

\* The members of I in an order that is total on I, a set of pairs: the k-th has
\* k - 1 others before it.
InOrder(I, before) ==
  [k \in 1..Cardinality(I) |->
     CHOOSE i \in I : Cardinality({j \in I : <<j, i>> \in before}) = k - 1]
Increasing(I) == InOrder(I, {p \in I \X I : p[1] < p[2]})

\* The elements of s at the positions I: as they are, and sorted.  A sort leaves
\* those that compare equal as they are, as that of JavaScript does.  (A copy:
\* TLC then computes it once.)
Pick(s, order) == <<>> \o [k \in DOMAIN order |-> s[order[k]]]
Filter(s, I) == Pick(s, Increasing(I))
Sort(s, I, Less(_, _)) ==
  LET Before(i, j) == Less(s[i], s[j]) \/ (~Less(s[j], s[i]) /\ i < j)
  IN  Pick(s, InOrder(I, {p \in I \X I : Before(p[1], p[2])}))

-----------------------------------------------------------------------------
\* The worker's evidence

\* looksSensitiveValue, which sees the name of the field as well.
Sensitive(value) == value = Secret

\* The candidates that neither sanitizeLocatorCandidates nor candidateIsUnsafe
\* refuses.
Safe(candidates) == {i \in DOMAIN candidates : candidates[i].safe}

\* sanitizeTimelinePayload and sanitizeLocatorCandidates: what is unsafe or
\* sensitive does not leave the worker, and embedded breadcrumbs do not either.
Sanitized(item) ==
  CASE item.type = "click" ->
         [item EXCEPT !.candidates =
            FirstOf(Filter(@, Safe(@)), MaxCandidates)]
    [] item.type = "input" ->
         [item EXCEPT !.value = IF Sensitive(@) THEN None ELSE @]
    [] OTHER -> item

\* listSessionEvents: ORDER BY sequence_number, id.
ListedBefore(a, b) == a.seq < b.seq \/ (a.seq = b.seq /\ a.id < b.id)

\* Everything up to the failure, cut to the latest rows.
Evidence(rows, event) ==
  LET upTo   == {i \in DOMAIN rows : rows[i].seq <= event.seq}
      window == LastOf(Sort(rows, upTo, ListedBefore), TimelineWindow)
  IN  [i \in DOMAIN window |-> Sanitized(window[i])]

-----------------------------------------------------------------------------
\* selectLocator

StrongerThan(a, b) ==
  a.rank < b.rank \/ (a.rank = b.rank /\ a.confidence > b.confidence)

\* Mutant of SelectLocator: whatever sorts first is taken, or nothing.
SelectFirstLocator(candidates) ==
  LET usable == Sort(candidates, Safe(candidates), StrongerThan)
  IN  IF usable = <<>> \/ ~usable[1].builds THEN None ELSE usable[1]

\* The first that is not brittle, else the first at all, of those that build.
SelectLocator(candidates) ==
  LET usable == Sort(candidates, Safe(candidates), StrongerThan)
      stable == SelectInSeq(usable, LAMBDA c : c.builds /\ ~c.brittle)
      any    == SelectInSeq(usable, LAMBDA c : c.builds)
  IN  IF stable # 0 THEN usable[stable]
      ELSE IF any # 0 THEN usable[any] ELSE None

\* deriveInputLocator.  Inputs carry no candidates past Sanitized.
InputLocator(item) ==
  CASE item.inputId \in StableId -> <<"id", item.inputId>>
    [] item.inputId \notin StableId /\ item.inputName \in StableName ->
         <<"name", item.inputName>>
    [] OTHER -> None

-----------------------------------------------------------------------------
\* buildReproductionPlan

\* Mutant of Earlier: ties are left to the order of arrival.
EarlierWithoutTieBreak(a, b) == a.seq < b.seq

Earlier(a, b) ==
  \/ a.seq < b.seq
  \/ a.seq = b.seq /\ (a.at < b.at \/ (a.at = b.at /\ a.id < b.id))

\* Sorted, and cut to the window.  When there is no navigation in the window
\* the one before it is put in front, and the second cut takes it off again.
Windowed(timeline) ==
  LET ordered == Sort(timeline, DOMAIN timeline, Earlier)
      window  == LastOf(ordered, TimelineWindow)
      cut     == SubSeq(ordered, 1, Len(ordered) - Len(window))
      nav     == SelectLastInSeq(cut, LAMBDA item : item.type = "navigation")
  IN  IF nav # 0 /\ \A i \in DOMAIN window : window[i].type # "navigation"
        THEN LastOf(<<cut[nav]>> \o window, TimelineWindow)
        ELSE window

\* breadcrumbKey: of an input its name or id, never its value.  What else it
\* holds belongs to events that become no action.
BreadcrumbKey(item) ==
  <<item.seq, item.type,
    CASE item.type = "navigation" -> {item.to}
      [] item.type = "click" ->
           {<<item.candidates[i].rank, item.candidates[i].value>> :
              i \in DOMAIN item.candidates}
      [] item.type = "input" ->
           {IF item.inputName # None THEN item.inputName ELSE item.inputId}
      [] OTHER -> {}>>

\* The locals of the loop.  lastClick: how many actions there were when a click
\* was last added (lastClickIndex + 1).
Begin ==
  [actions |-> <<>>, start |-> None, lastClick |-> 0, seen |-> {}, unlocated |-> FALSE]

Add(walk, action) == [walk EXCEPT !.actions = Append(@, action)]

\* Mutant of GoTo: where the last click was is not looked at.
GoToAfterAnything(walk, item) ==
  IF item.to \in {None, Unsafe} THEN walk
  ELSE IF walk.start = None THEN [walk EXCEPT !.start = item.to]
  ELSE Add(walk, [kind |-> "expectUrl", route |-> item.to])

\* The first usable target is where the test starts; a later one is the effect
\* of the click it follows, or is gone to.
GoTo(walk, item) ==
  IF item.to \in {None, Unsafe} THEN walk
  ELSE IF walk.start = None THEN [walk EXCEPT !.start = item.to]
  ELSE IF walk.lastClick = Len(walk.actions)
    THEN Add(walk, [kind |-> "expectUrl", route |-> item.to])
    ELSE Add(walk, [kind |-> "navigate", route |-> item.to])

Click(walk, item) ==
  LET locator == SelectLocator(FirstOf(item.candidates, MaxCandidates))
  IN  IF locator = None THEN walk
      ELSE [Add(walk, [kind |-> "click", locator |-> locator]) EXCEPT
              !.lastClick = Len(walk.actions) + 1]

\* Consecutive fills of one element: the earlier one is popped.
Collapsed(walk, item) ==
  LET n == Len(walk.actions) IN
  IF /\ InputLocator(item) # None /\ n > 0
     /\ walk.actions[n].kind = "fill" /\ walk.actions[n].locator = InputLocator(item)
    THEN [walk EXCEPT !.actions = Front(@)] ELSE walk

\* An element that is not found again is left to the reader of the test.
Input(walk, item) ==
  IF InputLocator(item) = None
    THEN [walk EXCEPT !.unlocated = @ \/ item.hasValue \/ item.value # None]
    ELSE Add(Collapsed(walk, item),
             [kind |-> "fill", locator |-> InputLocator(item),
              value |-> IF Sensitive(item.value) THEN None ELSE item.value])

\* One turn of the loop: an event that was seen before is passed over.
Visit(walk, item) ==
  LET next == [walk EXCEPT !.seen = @ \cup {BreadcrumbKey(item)}] IN
  IF BreadcrumbKey(item) \in walk.seen THEN walk
  ELSE CASE item.type = "navigation" -> GoTo(next, item)
         [] item.type = "click" -> Click(next, item)
         [] item.type = "input" -> Input(next, item)
         [] OTHER -> next

TooManyActions == [error |-> "REPRODUCTION_INVALID_EVIDENCE"]

BuildReproductionPlan(timeline) ==
  LET window == Windowed(timeline)
      n      == Len(window)
      walk[i \in 0..n] == IF i = 0 THEN Begin ELSE Visit(walk[i - 1], window[i])
      end    == walk[n]
      page   == IF n = 0 THEN None ELSE window[n].page
  IN  IF Len(end.actions) > MaxActions THEN TooManyActions
      ELSE [start    |-> IF end.start # None THEN end.start
                         ELSE IF page \notin {None, Unsafe} THEN page ELSE Home,
            actions  |-> end.actions,
            redacted |-> \/ end.unlocated
                         \/ \E i \in DOMAIN end.actions :
                              end.actions[i].kind = "fill" /\ end.actions[i].value = None]

-----------------------------------------------------------------------------
\* What a plan must be, said of the whole window at once

\* The rows of a window that are not repetitions.
Fresh(w) ==
  {i \in DOMAIN w : \A j \in 1..(i - 1) : BreadcrumbKey(w[j]) # BreadcrumbKey(w[i])}

\* Those that navigate somewhere; the first of them is where the test starts.
Moves(w) == {i \in Fresh(w) : w[i].type = "navigation" /\ w[i].to \notin {None, Unsafe}}
StartOf(moves) == {i \in moves : \A j \in moves : i <= j}

\* Those that can become an action.
Acting(w) ==
  Moves(w) \cup {i \in Fresh(w) :
    \/ w[i].type = "click" /\ SelectLocator(w[i].candidates) # None
    \/ w[i].type = "input" /\ InputLocator(w[i]) # None}

\* Two of a set with none of it between them.
Adjacent(acts, i, j) == i < j /\ \A k \in acts : k <= i \/ j <= k

\* Fills that the next action makes void.
Superseded(w, acts) ==
  {i \in acts : \E j \in acts :
     /\ Adjacent(acts, i, j) /\ w[i].type = "input" /\ w[j].type = "input"
     /\ InputLocator(w[i]) = InputLocator(w[j])}

\* The actions a row may become.  Nothing is said of a navigation that no action
\* precedes but that it is made or expected: the code and what is written about it
\* differ there (PlanAsDocumented).
ActionsOf(w, acts, i) ==
  CASE w[i].type = "click" -> {[kind |-> "click", locator |-> SelectLocator(w[i].candidates)]}
    [] w[i].type = "input" ->
         {[kind |-> "fill", locator |-> InputLocator(w[i]), value |-> w[i].value]}
    [] OTHER ->
         {[kind |-> step, route |-> w[i].to] :
            step \in {s \in {"expectUrl", "navigate"} :
              \A j \in acts : Adjacent(acts, j, i) => (s = "expectUrl" <=> w[j].type = "click")}}

\* What a plan of a window has to be.  Where the test starts is said only of a
\* window with a navigation in it.
Follows(w, made) ==
  LET start == StartOf(Moves(w))
      acts  == Acting(w) \ start
      kept  == acts \ Superseded(w, acts)
      order == Increasing(kept)
  IN  IF Cardinality(kept) > MaxActions THEN made = TooManyActions
      ELSE /\ made # TooManyActions
           /\ DOMAIN made.actions = DOMAIN order
           /\ \A k \in DOMAIN order : made.actions[k] \in ActionsOf(w, acts, order[k])
           /\ \A i \in start : made.start = w[i].to
           /\ made.redacted <=>
                \E i \in Fresh(w) : w[i].type = "input" /\
                  IF InputLocator(w[i]) = None THEN w[i].hasValue \/ w[i].value # None
                  ELSE i \in kept /\ w[i].value = None

\* Sets of counterexamples: TLC computes once what is constant.
\* Sessions that their plan is not true to.
Betrayed ==
  {session \in Sessions : \E failure \in Range(session) :
     LET evidence == Evidence(session, failure)
     IN  ~Follows(Windowed(evidence), BuildReproductionPlan(evidence))}

\* Sessions with another plan when two neighbours arrive the other way round.
Swapped(session, i) == [session EXCEPT ![i] = session[i + 1], ![i + 1] = session[i]]
DependOnArrival ==
  {session \in Sessions : \E i \in 1..(Len(session) - 1) :
     BuildReproductionPlan(Swapped(session, i)) # BuildReproductionPlan(session)}

\* Sessions with a click for which there is a stronger locator than the chosen one.
Strongest(candidates, chosen) ==
  LET usable == {i \in DOMAIN candidates : candidates[i].safe /\ candidates[i].builds}
  IN  IF usable = {} THEN chosen = None
      ELSE \E i \in usable :
             /\ chosen = candidates[i]
             /\ \A j \in usable :
                  \/ candidates[j].brittle /\ ~candidates[i].brittle
                  \/ /\ candidates[j].brittle <=> candidates[i].brittle
                     /\ ~StrongerThan(candidates[j], candidates[i])
WeaklyLocated ==
  {session \in Sessions : \E i \in DOMAIN session :
     /\ session[i].type = "click"
     /\ ~Strongest(session[i].candidates, SelectLocator(session[i].candidates))}
=============================================================================
