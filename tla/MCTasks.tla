------------------------------- MODULE MCTasks -------------------------------
(* Two registrations of one login with different passwords, and requests for
   tasks of one project: one with the highest priority and a status that a task may
   have, one with the lowest priority and an unknown status, and one with a
   priority just out of range. *)
EXTENDS Tasks, TLC

CONSTANTS ann, ann2, p1, q1, q2, q3

MCRegistrations == {ann, ann2}
MCLoginOf == ann :> "ann" @@ ann2 :> "ann"
MCEmailOf == ann :> "ann@" @@ ann2 :> "ann2@"
MCPasswordOf == ann :> 1 @@ ann2 :> 2

MCRequests == {q1, q2, q3}
MCProjectOf == [q \in MCRequests |-> p1]
MCStatusOf == q1 :> "REVIEW" @@ q2 :> "CLOSED" @@ q3 :> "DONE"
MCPriorityOf == q1 :> 5 @@ q2 :> 1 @@ q3 :> 6
=============================================================================
