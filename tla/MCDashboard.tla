---------------------------- MODULE MCDashboard ----------------------------
(* Values of the constants of Dashboard for model checking. *)
EXTENDS Dashboard

Row(q, s, t) == [queue |-> q, type |-> "process", status |-> s, updated |-> t]

\* Two jobs that ended, in two queues, in the same minute, in two that are as far
\* apart as the window allows, and one before it; and a list of three jobs.
TwoRows ==
  {<<Row("default", "completed", t), Row("email", s, 4)>> :
     t \in {0, 1, 4}, s \in {"completed", "dead"}}
ThreeRows ==
  {<<Row("default", "pending", 4), Row("email", "dead", 4), Row("default", "dead", 4)>>}
SomeTables == [api |-> TwoRows \cup ThreeRows,
               tab |-> {<<Row("default", "dead", 1)>>}]
SomeChanges == [api |-> 2, tab |-> 1]

SomeRows == {Row("default", "pending", 0)}
SomeFilters == {<<>>, [status |-> "dead"]}
=============================================================================
