----------------------------- MODULE MCOutboxJobs -----------------------------
(***************************************************************************)
(* Reproductions for TLC: a dispatcher and a reconciliation loop, requests    *)
(* that are all about one event, and which requests are of which kind left *)
(* open; and all short sessions for the handler of a reproduction job.     *)
(***************************************************************************)
EXTENDS Reproductions

CONSTANTS k1, k2, e1, c1, c2, c3, dispatcher, reconciler

MCKeyOf == [c \in Call |-> IF c \in {c1, c2} THEN k1 ELSE k2]
MCEventOf == [k \in Key |-> e1]

-----------------------------------------------------------------------------
\* Candidates of every kind; a button with a strong and a brittle one, and a
\* menu that cannot be found again.
Candidate ==
  [rank : {0, 1}, value : {"x"}, confidence : {1, 2},
   safe : BOOLEAN, builds : BOOLEAN, brittle : BOOLEAN]
Css(name, safe) ==
  [rank |-> 5, value |-> name, confidence |-> 1, safe |-> safe, builds |-> TRUE,
   brittle |-> TRUE]
TestId(name) ==
  [rank |-> 0, value |-> name, confidence |-> 1, safe |-> TRUE, builds |-> TRUE,
   brittle |-> FALSE]

Navigation(to) == [type |-> "navigation", to |-> to]
ClickOn(candidates) == [type |-> "click", candidates |-> candidates]
InputOf(id, name, value) ==
  [type |-> "input", inputId |-> id, inputName |-> name,
   hasValue |-> value # "", value |-> value]

Passed == {Navigation("unsafe"), ClickOn(<<Css("menu", FALSE)>>), [type |-> "console"]}
What ==
  {Navigation("/a"), Navigation("/b"), ClickOn(<<Css("button", TRUE), TestId("button")>>),
   InputOf("email", "field", "v1"), InputOf("email", "field", "v2"),
   InputOf("email", "field", "secret"), InputOf("uuid", "city", "v1"),
   InputOf("uuid", None, "v1")} \cup Passed

Recorded(what, seq, at, id) ==
  [x \in DOMAIN what \cup {"seq", "at", "id", "page"} |->
     CASE x = "seq" -> seq [] x = "at" -> at [] x = "id" -> id
       [] x = "page" -> "/c" [] OTHER -> what[x]]

\* Everything that can happen in three steps, four without what is passed over,
\* and six of a few kinds;
\* three events whose numbers and times are the same or contradict each other;
\* one click on an element with any two candidates.
InSequence(Kinds, n) ==
  {[i \in 1..n |-> Recorded(s[i], i, i, i)] : s \in [1..n -> Kinds]}
MCSessions ==
  UNION {InSequence(What, n) : n \in 0..3}
  \cup InSequence(What \ Passed, 4)
  \cup InSequence({Navigation("/a"), ClickOn(<<TestId("button")>>),
                   InputOf("email", "field", "v1")}, 6)
  \cup {[i \in 1..3 |-> Recorded(s[i], seq[i], at[i], i)] :
          s \in [1..3 -> {Navigation("/a"), ClickOn(<<TestId("button")>>),
                          InputOf("email", "field", "v1"), InputOf("email", "field", "v2")}],
          seq \in [1..3 -> {1, 2}], at \in [1..3 -> {1, 2}]}
  \cup UNION {InSequence({ClickOn(list) : list \in [1..n -> Candidate]}, 1) : n \in 0..2}
=============================================================================
