------------------------------ MODULE MCRealtime ------------------------------
(* The page of one issue of two: its history, and the notifications of its reader. *)
EXTENDS Realtime

CONSTANTS i1, i2

TwoIssues == {i1, i2}

TwoTypes == {"reproduction.ready", "ai_analysis.ready"}

HistoryAndBell ==
  {[name |-> "activity", of |-> {i1}], [name |-> "notifications", of |-> {}]}
===============================================================================
