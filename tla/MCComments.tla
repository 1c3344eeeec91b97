------------------------------ MODULE MCComments ------------------------------
(* A comment on each of two tasks and a reply to the first one; or one comment, a
   reply to it and a reply to an id that no comment has. *)
EXTENDS Comments, TLC

CONSTANTS t1, t2, c1, c2, reply, stray

MCTasks == {t1, t2}
MCComments == {c1, c2}
MCReplies == {reply, stray}
MCTaskOf == c1 :> t1 @@ c2 :> t2
MCParentOf == reply :> c1 @@ stray :> NoComment
MCOneComment == {c1}
MCOneReply == {reply}
MCOneTaskOf == c1 :> t1
MCOneParentOf == reply :> c1
=============================================================================
