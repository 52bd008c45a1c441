------------------------------- MODULE MCGoals -------------------------------
(***************************************************************************)
(* A small instance of Goals: two tasks, the second of which needs the     *)
(* first and carries the criteria of the goal.                             *)
(***************************************************************************)
EXTENDS Goals, TLC

TwoTasks == {"build", "accept"}
BuildThenAccept == <<"build", "accept">>
AcceptNeedsBuild == "build" :> {} @@ "accept" :> {"build"}
OnlyAccept == {"accept"}
==============================================================================
