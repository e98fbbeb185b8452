-------------------------- MODULE MCPlanAsDocumented --------------------------
(***************************************************************************)
(* PlanAsDocumented for TLC: a user opens a page, is redirected to another *)
(* and sees a failure; four clicks later there is a second one.            *)
(***************************************************************************)
EXTENDS PlanAsDocumented

Button(name) ==
  [rank |-> 0, value |-> name, confidence |-> 1, safe |-> TRUE, builds |-> TRUE,
   brittle |-> FALSE]

Navigation(to) == [type |-> "navigation", to |-> to]
ClickOn(name)  == [type |-> "click", candidates |-> <<Button(name)>>]
Failure        == [type |-> "exception"]

\* The rows are numbered as they come; each has the page it happened on.
Recorded(what, pages) ==
  [i \in DOMAIN what |->
     [x \in DOMAIN what[i] \cup {"seq", "at", "id", "page"} |->
        CASE x \in {"seq", "at", "id"} -> i [] x = "page" -> pages[i] [] OTHER -> what[i][x]]]

MCSessions ==
  {Recorded(<<Navigation("/list"), Navigation("/item"), Failure,
              ClickOn("a"), ClickOn("b"), ClickOn("c"), ClickOn("d"), Failure>>,
            [i \in 1..8 |-> IF i = 1 THEN "/list" ELSE "/item"])}
=============================================================================
