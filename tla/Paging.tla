------------------------------- MODULE Paging -------------------------------
(***************************************************************************)
(* The paged lists of the dashboard API.  Each one is a query ordered by a *)
(* sort column with the row id as tiebreak, limited to one                 *)
(* row more than a page; the last row of the page becomes an opaque cursor *)
(* which the client sends back with its next request.  Rows are inserted,  *)
(* and in two of the lists moved, while a reader pages.                    *)
(*                                                                         *)
(* Timestamps are counted in the database's microseconds, of which a       *)
(* millisecond has PerMs.  Columns filled by the database's now() hold     *)
(* any of them; columns filled from a JavaScript Date hold whole           *)
(* milliseconds.  Counts are taken from the same numbers.                  *)
(***************************************************************************)
EXTENDS Naturals, FiniteSets

CONSTANTS
    Ids,        \* the row ids; numbers, for only their order matters
    MaxMs,      \* the bound on time, in milliseconds
    PerMs,      \* microseconds of a millisecond
    Limit       \* the rows of a page

VARIABLES
    list,       \* the list the reader pages through, its sort and its order
    rows,       \* its rows: the sort column and the id
    reader,     \* "new", "paging" or "done"
    cursor,     \* nextCursor of the reader's last page
    listed,     \* how often each row has been shown, counted up to two
    steady      \* ghost: the rows of the first request not moved since

vars == <<list, rows, reader, cursor, listed, steady>>

Stamps == 0 .. (MaxMs * PerMs - 1)
ToMillis(t) == (t \div PerMs) * PerMs
WholeMillis == {ToMillis(t) : t \in Stamps}

\* Issues are sorted by four columns, issues and sessions either way.
IssueSorts == {"last_seen", "first_seen", "occurrence_count", "affected_sessions"}
Counts == {"occurrence_count", "affected_sessions", "sequence_number"}
Orders == {"asc", "desc"}

Lists ==
    [name : {"issues"}, sort : IssueSorts, order : Orders]
        \union [name : {"sessions"}, sort : {"last_seen"}, order : Orders]
        \union [name : {"audit", "notifications", "activity", "reproductions", "analyses"},
                sort : {"created"}, order : {"desc"}]
        \union {[name |-> "comments", sort |-> "created", order |-> "asc"],
                [name |-> "occurrences", sort |-> "occurred", order |-> "desc"],
                [name |-> "timeline", sort |-> "sequence_number", order |-> "asc"]}

\* Columns that come from a Date; lists whose rows move.
DateSorts == {"last_seen", "first_seen", "occurred"}
MovingLists == {"issues", "sessions"}
Column(l) == IF l.sort \in DateSorts THEN WholeMillis ELSE Stamps

NoCursor == [at |-> MaxMs * PerMs, id |-> 0]

(***************************************************************************)
(* One page.  The SQL condition on the cursor is the same comparison as    *)
(* the ORDER BY, with the cursor in the place of a row.  Encode is what    *)
(* the list does to the sort value of the last row: toISOString keeps the  *)
(* milliseconds, to_char(... US) and a plain number keep everything.       *)
(***************************************************************************)
Newest(x, y) == \/ x.at > y.at
                \/ x.at = y.at /\ x.id < y.id
Oldest(x, y) == \/ x.at < y.at
                \/ x.at = y.at /\ x.id < y.id
Ordered(order, x, y) == IF order = "desc" THEN Newest(x, y) ELSE Oldest(x, y)
Exactly(t) == t

Page(Before(_, _), Encode(_), c) ==
    LET matching == {r \in rows : c = NoCursor \/ Before(c, r)}
        page == {r \in matching :
                    Cardinality({s \in matching : Before(s, r)}) < Limit}
        last == CHOOSE r \in page : \A s \in page : ~Before(r, s)
    IN  [rows |-> page,
         next |-> IF page = matching THEN NoCursor
                  ELSE [at |-> Encode(last.at), id |-> last.id]]

listAuditByWorkspacePaged(c) == Page(Newest, Exactly, c)
listNotifications(c) == Page(Newest, ToMillis, c)
listIssueActivityPaged(c) == Page(Newest, ToMillis, c)
listCommentsPaged(c) == Page(Oldest, ToMillis, c)
listIssueReproductions(c) == Page(Newest, ToMillis, c)
listIssueAiAnalyses(c) == Page(Newest, ToMillis, c)
listIssueOccurrences(c) == Page(Newest, ToMillis, c)
listSessionEvents(c) == Page(Oldest, Exactly, c)

listIssues(sort, order, c) ==
    LET Before(x, y) == Ordered(order, x, y)
        Encode(v) == IF sort \in Counts THEN v ELSE ToMillis(v)
    IN  Page(Before, Encode, c)

listSessions(order, c) ==
    LET Before(x, y) == Ordered(order, x, y)
    IN  Page(Before, ToMillis, c)

Query(l, c) ==
    CASE l.name = "audit"         -> listAuditByWorkspacePaged(c)
      [] l.name = "notifications" -> listNotifications(c)
      [] l.name = "activity"      -> listIssueActivityPaged(c)
      [] l.name = "comments"      -> listCommentsPaged(c)
      [] l.name = "reproductions" -> listIssueReproductions(c)
      [] l.name = "analyses"      -> listIssueAiAnalyses(c)
      [] l.name = "occurrences"   -> listIssueOccurrences(c)
      [] l.name = "issues"        -> listIssues(l.sort, l.order, c)
      [] l.name = "sessions"      -> listSessions(l.order, c)
      [] l.name = "timeline"      -> listSessionEvents(c)

(***************************************************************************)
(* Steps.                                                                  *)
(***************************************************************************)
Init ==
    /\ list \in Lists
    /\ rows = {}
    /\ reader = "new"
    /\ cursor = NoCursor
    /\ listed = [i \in Ids |-> 0]
    /\ steady = {}

\* A row is committed; its id is a random UUID, so any free one.
Insert(i, t) ==
    /\ \A r \in rows : r.id # i
    /\ rows' = rows \union {[at |-> t, id |-> i]}
    /\ UNCHANGED <<list, reader, cursor, listed, steady>>

\* A new occurrence raises last_seen_at and the counts of an existing row, or
\* lowers its first_seen_at; a new batch raises last_seen_at of a session.
Move(r, t) ==
    /\ list.name \in MovingLists
    /\ IF list.sort = "first_seen" THEN t < r.at ELSE t > r.at
    /\ rows' = (rows \ {r}) \union {[at |-> t, id |-> r.id]}
    /\ steady' = steady \ {r.id}
    /\ UNCHANGED <<list, reader, cursor, listed>>

Show(p) ==
    /\ listed' = [i \in Ids |->
                    IF \E r \in p.rows : r.id = i /\ listed[i] < 2
                    THEN listed[i] + 1 ELSE listed[i]]
    /\ cursor' = p.next
    /\ reader' = IF p.next = NoCursor THEN "done" ELSE "paging"

FirstPage ==
    /\ reader = "new"
    /\ Show(Query(list, NoCursor))
    /\ steady' = {r.id : r \in rows}
    /\ UNCHANGED <<list, rows>>

NextPage ==
    /\ reader = "paging"
    /\ Show(Query(list, cursor))
    /\ UNCHANGED <<list, rows, steady>>

Next ==
    \/ \E i \in Ids, t \in Column(list) : Insert(i, t)
    \/ \E r \in rows, t \in Column(list) : Move(r, t)
    \/ FirstPage
    \/ NextPage

Spec == Init /\ [][Next]_vars

\* A reader that follows the cursors to the end is shown every row that was there
\* from its first request on, and stayed where it was, once: inserts meanwhile make
\* the list neither skip nor repeat a row ("stable keyset pagination",
\* notifications.ts:108).
NoDuplicatesNoSkips ==
    \A i \in steady : /\ listed[i] < 2
                      /\ reader = "done" => listed[i] = 1
=============================================================================
