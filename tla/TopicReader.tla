----------------------------- MODULE TopicReader -----------------------------
(***************************************************************************)
(* What the consumer promises, without batches: each pass reads each topic  *)
(* from its first message on, one message after the other, and stores a     *)
(* message or gives it up.  It passes over none and takes none twice.  When *)
(* the reading begins anew, the pass before may be at any message, and may  *)
(* still take more.                                                         *)
(***************************************************************************)
EXTENDS Naturals, Sequences

CONSTANTS
    Events,     \* the events that messages carry
    Topics,     \* the topics
    TopicOf,    \* the topic of each event
    MaxPasses   \* bound: the number of the last pass

VARIABLES
    log,        \* log[t]: the messages of topic t
    taken,      \* taken[k][t]: how many of them pass k has dealt with
    stored,     \* what has been stored, in this order
    givenUp,    \* what has been given up
    pass        \* the number of the current pass

vars == <<log, taken, stored, givenUp, pass>>

Init ==
    /\ log = [t \in Topics |-> <<>>]
    /\ taken = [k \in 0 .. MaxPasses |-> [t \in Topics |-> 0]]
    /\ stored = <<>>
    /\ givenUp = {}
    /\ pass = 0

\* An event is sent once.
Send(e) ==
    /\ \A i \in 1 .. Len(log[TopicOf[e]]) : log[TopicOf[e]][i] # e
    /\ log' = [log EXCEPT ![TopicOf[e]] = Append(@, e)]
    /\ UNCHANGED <<taken, stored, givenUp, pass>>

\* A pass deals with the next message of a topic.
Take(k, t) ==
    /\ k <= pass
    /\ taken[k][t] < Len(log[t])
    /\ taken' = [taken EXCEPT ![k][t] = @ + 1]
    /\ LET m == [topic |-> t, offset |-> taken[k][t] + 1, pass |-> k] IN
          \/ stored' = Append(stored, m) /\ UNCHANGED givenUp
          \/ givenUp' = givenUp \cup {m} /\ UNCHANGED stored
    /\ UNCHANGED <<log, pass>>

\* Everything is read again.
BeginAgain ==
    /\ pass < MaxPasses
    /\ pass' = pass + 1
    /\ UNCHANGED <<log, taken, stored, givenUp>>

Next ==
    \/ \E e \in Events : Send(e)
    \/ \E k \in 0 .. MaxPasses : \E t \in Topics : Take(k, t)
    \/ BeginAgain

Spec == Init /\ [][Next]_vars
=============================================================================
