---------------------------- MODULE MCEventPipeline ----------------------------
(* A login, a project, and two messages of other writers: one of a type without a
   processor, one that does not parse. *)
EXTENDS EventPipeline, TLC

CONSTANTS loggedin, project, closed, garbage

MCTopics == {"user-events", "project-events"}

MCEvents == {loggedin, project, closed, garbage}
MCForeign == {closed, garbage}
MCMalformed == {garbage}
MCTopicOf ==
    loggedin :> "user-events" @@ garbage :> "user-events" @@
    project :> "project-events" @@ closed :> "project-events"
MCTypeOf ==
    loggedin :> "UserLoggedIn" @@ garbage :> "none" @@
    project :> "ProjectCreated" @@ closed :> "TaskClosed"

\* The events of the service alone.
MCOwnEvents == {loggedin, project}
Nobody == {}
MCOwnTopicOf == [e \in MCOwnEvents |-> MCTopicOf[e]]
MCOwnTypeOf == [e \in MCOwnEvents |-> MCTypeOf[e]]
=============================================================================
