-------------------------- MODULE EventPipelineProofs --------------------------
(***************************************************************************)
(* Proofs about EventPipeline: the types, that no message falls between two *)
(* others, that what the service publishes can be processed, the order in   *)
(* which a pass stores the messages of a topic, that it stores each event   *)
(* once, and that the consumer implements TopicReader.                      *)
(***************************************************************************)
EXTENDS EventPipeline, SequenceTheorems, FiniteSetTheorems, TLAPS

-----------------------------------------------------------------------------
(* Sequences *)

LEMMA AppendedAt ==
    ASSUME NEW S, NEW s \in Seq(S), NEW x \in S
    PROVE  /\ Append(s, x) \in Seq(S) /\ Len(Append(s, x)) = Len(s) + 1 /\ Len(s) \in Nat
           /\ \A i \in 1 .. Len(s) : Append(s, x)[i] = s[i]
           /\ Append(s, x)[Len(s) + 1] = x
           /\ \A i \in 1 .. Len(s) + 1 : i \in 1 .. Len(s) \/ i = Len(s) + 1
OBVIOUS

LEMMA TailAt ==
    ASSUME NEW S, NEW s \in Seq(S), s # <<>>
    PROVE  /\ Tail(s) \in Seq(S) /\ Len(Tail(s)) = Len(s) - 1
           /\ Len(s) \in Nat /\ 1 \in 1 .. Len(s)
           /\ Head(s) \in S /\ Head(s) = s[1]
           /\ \A i \in 1 .. Len(s) - 1 : Tail(s)[i] = s[i + 1] /\ i + 1 \in 2 .. Len(s)
BY HeadTailProperties

-----------------------------------------------------------------------------
(* Type correctness *)

LEMMA DeliverAdds ==
    ASSUME TypeOK, NEW e \in Events, Deliver(e)
    PROVE  /\ log' \in [Topics -> Seq(Events)]
           /\ TopicOf[e] \in Topics
           /\ log'[TopicOf[e]] = Append(log[TopicOf[e]], e)
           /\ \A t \in Topics : t # TopicOf[e] => log'[t] = log[t]
<1>1. TopicOf[e] \in Topics
  BY PipelineConstants
<1>2. Append(log[TopicOf[e]], e) \in Seq(Events)
  BY <1>1, AppendedAt DEF TypeOK
<1>3. QED
  BY <1>1, <1>2 DEF Deliver, TypeOK

\* Topics only grow at their ends.
LogGrows ==
    \A t \in Topics :
        /\ Len(log[t]) \in Nat /\ Len(log'[t]) \in Nat /\ Len(log[t]) <= Len(log'[t])
        /\ \A i \in 1 .. Len(log[t]) : log'[t][i] = log[t][i] /\ i \in 1 .. Len(log'[t])

LEMMA LogStep == TypeOK /\ [Next]_vars => LogGrows /\ log' \in [Topics -> Seq(Events)]
<1> SUFFICES ASSUME TypeOK, [Next]_vars PROVE LogGrows /\ log' \in [Topics -> Seq(Events)]
  OBVIOUS
<1>1. ASSUME NEW e \in Events, Deliver(e)
      PROVE  LogGrows /\ log' \in [Topics -> Seq(Events)]
  <2>1. ASSUME NEW t \in Topics
        PROVE  /\ Len(log[t]) \in Nat /\ Len(log'[t]) \in Nat
               /\ Len(log[t]) <= Len(log'[t])
               /\ \A i \in 1 .. Len(log[t]) : log'[t][i] = log[t][i] /\ i \in 1 .. Len(log'[t])
    <3>1. log[t] \in Seq(Events)
      BY DEF TypeOK
    <3>2. CASE t = TopicOf[e]
      BY <1>1, <3>1, <3>2, DeliverAdds, AppendedAt
    <3>3. CASE t # TopicOf[e]
      BY <1>1, <3>1, <3>3, DeliverAdds
    <3>4. QED
      BY <3>2, <3>3
  <2>2. QED
    BY <1>1, <2>1, DeliverAdds DEF LogGrows
<1>2. CASE UNCHANGED log
  BY <1>2 DEF LogGrows, TypeOK
<1>3. QED
  BY <1>1, <1>2 DEF Next, CommitRow, Publish, PublishForeign, Poll, StartBatch, Skip, Store,
     EndBatch, BeginAgain, Restart, Rejoin, vars

\* Messages and their parts.
LEMMA MessageParts ==
    /\ \A t \in Topics, i \in Nat \ {0}, k \in 0 .. MaxPasses : Message(t, i, k) \in Messages
    /\ \A t, i, k : Message(t, i, k).topic = t /\ Message(t, i, k).offset = i
                    /\ Message(t, i, k).pass = k
    /\ \A m \in Messages : /\ m.topic \in Topics /\ m.offset \in Nat \ {0}
                           /\ m.pass \in 0 .. MaxPasses /\ m.pass \in Nat
                           /\ m = Message(m.topic, m.offset, m.pass)
BY PipelineConstants DEF Messages, Message

-----------------------------------------------------------------------------
(* What the steps do to the consumer *)

\* The next message of topic t is given to it.
Given(t) ==
    /\ Len(batch) < MaxBatch
    /\ position[t] < Len(log[t])
    /\ position' = [position EXCEPT ![t] = @ + 1]
    /\ batch' = Append(batch, Message(t, position[t] + 1, pass))
    /\ UNCHANGED <<log, stored, failed, skipped, pass>>

\* It is done with the first message of the batch.
Done ==
    /\ batch # <<>>
    /\ batch' = Tail(batch)
    /\ \/ /\ stored' = Append(stored, Head(batch)) /\ GivenUp' = GivenUp
       \/ /\ stored' = stored /\ GivenUp' = GivenUp \cup {Head(batch)}
    /\ UNCHANGED <<log, position, pass>>

\* It begins again, with or without the batch in hand.
Again ==
    /\ BeginAgain
    /\ batch' \in {batch, <<>>}
    /\ UNCHANGED <<log, stored, failed, skipped>>

\* Nothing happens to it.
Aside == UNCHANGED <<position, batch, stored, failed, skipped, pass>>

LEMMA StepKinds ==
    ASSUME [Next]_vars
    PROVE  (\E t \in Topics : Given(t)) \/ Done \/ Again \/ Aside
<1>1. ASSUME NEW t \in Topics, Poll(t) PROVE Given(t)
  BY <1>1 DEF Poll, Given
<1>2. CASE Skip \/ Store
  BY <1>2 DEF Skip, Store, Done, GivenUp
<1>3. CASE Restart \/ Rejoin
  BY <1>3 DEF Restart, Rejoin, Again
<1>4. QED
  BY <1>1, <1>2, <1>3 DEF Next, CommitRow, Publish, PublishForeign, StartBatch, EndBatch, Aside,
     consumer, vars

\* The messages in hand and those it is done with, after each of them.
LEMMA MembersAfterGiven ==
    ASSUME TypeOK, NEW t \in Topics, Given(t)
    PROVE  /\ Message(t, position[t] + 1, pass) \in Messages
           /\ batch' \in Seq(Messages) /\ Len(batch') = Len(batch) + 1
           /\ \A i \in 1 .. Len(batch) : batch'[i] = batch[i]
           /\ batch'[Len(batch) + 1] = Message(t, position[t] + 1, pass)
           /\ InBatch' = InBatch \cup {Message(t, position[t] + 1, pass)}
           /\ Handled' = Handled
<1> DEFINE m == Message(t, position[t] + 1, pass)
<1>1. m \in Messages
  BY MessageParts DEF TypeOK
<1>2. batch \in Seq(Messages) /\ batch' = Append(batch, m)
  BY DEF TypeOK, Given
<1> HIDE DEF m
<1>3. /\ batch' \in Seq(Messages) /\ Len(batch') = Len(batch) + 1 /\ Len(batch) \in Nat
      /\ \A i \in 1 .. Len(batch) : batch'[i] = batch[i]
      /\ batch'[Len(batch) + 1] = m
      /\ \A i \in 1 .. Len(batch) + 1 : i \in 1 .. Len(batch) \/ i = Len(batch) + 1
  BY <1>1, <1>2, AppendedAt
<1>4. InBatch' = InBatch \cup {m}
  <2>1. Len(batch) + 1 \in 1 .. Len(batch') /\ 1 .. Len(batch) \subseteq 1 .. Len(batch')
    BY <1>3
  <2>2. QED
    BY <1>3, <2>1 DEF InBatch
<1>5. Handled' = Handled
  BY DEF Given, Handled, Stored, GivenUp
<1>6. QED
  BY <1>1, <1>3, <1>4, <1>5 DEF m

LEMMA MembersAfterDone ==
    ASSUME TypeOK, Done
    PROVE  /\ Head(batch) \in Messages /\ Head(batch) = batch[1] /\ 1 \in 1 .. Len(batch)
           /\ batch' \in Seq(Messages) /\ Len(batch') = Len(batch) - 1
           /\ \A i \in 1 .. Len(batch) - 1 : batch'[i] = batch[i + 1]
           /\ InBatch = InBatch' \cup {Head(batch)}
           /\ Handled' = Handled \cup {Head(batch)}
           /\ stored' \in Seq(Messages)
<1>1. batch \in Seq(Messages) /\ batch # <<>> /\ batch' = Tail(batch) /\ stored \in Seq(Messages)
  BY DEF TypeOK, Done
<1> DEFINE m == Head(batch)
<1>2. /\ m \in Messages /\ m = batch[1] /\ 1 \in 1 .. Len(batch) /\ Len(batch) \in Nat
      /\ batch' \in Seq(Messages) /\ Len(batch') = Len(batch) - 1
      /\ \A i \in 1 .. Len(batch) - 1 : batch'[i] = batch[i + 1]
  BY <1>1, TailAt
<1>3. InBatch = InBatch' \cup {m}
  <2>1. ASSUME NEW i \in 1 .. Len(batch), i # 1
        PROVE  i - 1 \in 1 .. Len(batch') /\ batch'[i - 1] = batch[i]
    BY <1>2, <2>1
  <2>2. ASSUME NEW i \in 1 .. Len(batch') PROVE i + 1 \in 1 .. Len(batch) /\ batch'[i] = batch[i + 1]
    BY <1>2, <2>2
  <2>3. QED
    BY <1>2, <2>1, <2>2 DEF InBatch
<1>4. Stored' \cup GivenUp' = Stored \cup GivenUp \cup {m} /\ stored' \in Seq(Messages)
  <2>1. CASE stored' = Append(stored, m) /\ GivenUp' = GivenUp
    <3> HIDE DEF m
    <3>1. /\ stored' \in Seq(Messages) /\ Len(stored') = Len(stored) + 1 /\ Len(stored) \in Nat
          /\ \A i \in 1 .. Len(stored) : stored'[i] = stored[i]
          /\ stored'[Len(stored) + 1] = m
          /\ \A i \in 1 .. Len(stored) + 1 : i \in 1 .. Len(stored) \/ i = Len(stored) + 1
      BY <1>1, <1>2, <2>1, AppendedAt
    <3>2. Len(stored) + 1 \in 1 .. Len(stored') /\ 1 .. Len(stored) \subseteq 1 .. Len(stored')
      BY <3>1
    <3>3. Stored' = Stored \cup {m}
      BY <3>1, <3>2 DEF Stored
    <3>4. QED
      BY <2>1, <3>1, <3>3
  <2>2. CASE stored' = stored /\ GivenUp' = GivenUp \cup {m}
    BY <1>1, <2>2 DEF Stored
  <2>3. QED
    BY <2>1, <2>2 DEF Done
<1>5. QED
  BY <1>2, <1>3, <1>4 DEF Handled

LEMMA MembersAfterAgain ==
    ASSUME TypeOK, Again
    PROVE  /\ InBatch' \subseteq InBatch /\ Handled' = Handled
           /\ batch' \in Seq(Messages) /\ Len(batch') <= MaxBatch
           /\ pass' = pass + 1 /\ pass' \in 0 .. MaxPasses /\ pass \in Nat
           /\ \A t \in Topics : position'[t] = 0
<1>1. /\ pass' = pass + 1 /\ pass' \in 0 .. MaxPasses /\ pass \in Nat
      /\ \A t \in Topics : position'[t] = 0
  BY PipelineConstants DEF Again, BeginAgain, TypeOK
<1>2. Handled' = Handled
  BY DEF Again, Handled, Stored, GivenUp
<1>3. CASE batch' = batch
  BY <1>1, <1>2, <1>3 DEF InBatch, TypeOK
<1>4. CASE batch' = <<>>
  <2>1. Len(<<>>) = 0 /\ <<>> \in Seq(Messages) /\ MaxBatch \in Nat
    BY PipelineConstants
  <2>2. InBatch' = {} /\ Len(batch') <= MaxBatch
    BY <1>4, <2>1 DEF InBatch
  <2>3. QED
    BY <1>1, <1>2, <1>4, <2>1, <2>2
<1>5. QED
  BY <1>3, <1>4 DEF Again

LEMMA MembersStay ==
    ASSUME Aside
    PROVE  InBatch' = InBatch /\ Handled' = Handled
BY DEF Aside, InBatch, Handled, Stored, GivenUp

-----------------------------------------------------------------------------
(* Types are kept *)

LEMMA TypeStep == TypeOK /\ [Next]_vars => TypeOK'
<1> SUFFICES ASSUME TypeOK, [Next]_vars PROVE TypeOK'
  OBVIOUS
<1>l. LogGrows /\ log' \in [Topics -> Seq(Events)]
  BY LogStep
<1>r. request' \in [Events -> {"new", "committed", "answered", "lost"}] /\ polling' \in BOOLEAN
  BY DEF TypeOK, Next, CommitRow, Publish, PublishForeign, Poll, StartBatch, Skip, Store, EndBatch,
     Restart, Rejoin, consumer, vars
<1>1. ASSUME NEW t \in Topics, Given(t) PROVE TypeOK'
  <2>1. batch' \in Seq(Messages) /\ Len(batch') <= MaxBatch
    <3>1. batch' \in Seq(Messages) /\ Len(batch') = Len(batch) + 1
      BY <1>1, MembersAfterGiven
    <3>2. Len(batch) \in Nat /\ MaxBatch \in Nat
      BY PipelineConstants DEF TypeOK
    <3>3. QED
      BY <1>1, <3>1, <3>2 DEF Given
  <2>2. /\ position' \in [Topics -> Nat]
        /\ \A s \in Topics : position'[s] <= Len(log[s])
    BY <1>1 DEF Given, TypeOK
  <2>3. QED
    BY <1>1, <1>l, <1>r, <2>1, <2>2 DEF Given, TypeOK
<1>2. ASSUME Done PROVE TypeOK'
  <2>1. /\ batch' \in Seq(Messages) /\ Len(batch') = Len(batch) - 1 /\ Head(batch) \in Messages
        /\ stored' \in Seq(Messages)
    BY <1>2, MembersAfterDone
  <2>2. Len(batch) \in Nat /\ Len(batch) <= MaxBatch /\ MaxBatch \in Nat
    BY PipelineConstants DEF TypeOK
  <2>3. Len(batch') <= MaxBatch
    BY <2>1, <2>2
  <2>4. GivenUp' \subseteq Messages
    BY <1>2, <2>1 DEF Done, TypeOK, GivenUp
  <2>5. QED
    BY <1>2, <1>l, <1>r, <2>1, <2>3, <2>4 DEF Done, TypeOK, GivenUp
<1>3. ASSUME Again PROVE TypeOK'
  <2>1. \A t \in Topics : position'[t] = 0 /\ Len(log'[t]) \in Nat
    BY <1>3, <1>l, MembersAfterAgain DEF LogGrows
  <2>2. position' \in [Topics -> Nat] /\ \A t \in Topics : position'[t] <= Len(log'[t])
    BY <1>3, <2>1 DEF Again, BeginAgain
  <2>3. QED
    BY <1>3, <1>l, <1>r, <2>2, MembersAfterAgain DEF Again, TypeOK
<1>4. ASSUME Aside PROVE TypeOK'
  <2>1. \A t \in Topics : position[t] <= Len(log'[t])
    BY <1>l DEF TypeOK, LogGrows
  <2>2. QED
    BY <1>4, <1>l, <1>r, <2>1 DEF Aside, TypeOK
<1>5. QED
  BY <1>1, <1>2, <1>3, <1>4, StepKinds

LEMMA TypeInit == Init => TypeOK
<1> SUFFICES ASSUME Init PROVE TypeOK
  OBVIOUS
<1>1. Len(batch) = 0 /\ 0 <= MaxBatch /\ 0 \in 0 .. MaxPasses
  BY PipelineConstants DEF Init
<1>2. \A t \in Topics : position[t] <= Len(log[t])
  BY DEF Init
<1>3. QED
  BY <1>1, <1>2 DEF Init, TypeOK

-----------------------------------------------------------------------------
(* A topic has each message once *)

\* The messages of a topic are its own, from requests that are over, and each of them
\* is there once.
LogOnce ==
    \A t \in Topics :
        /\ \A i \in 1 .. Len(log[t]) :
              TopicOf[log[t][i]] = t /\ request[log[t][i]] = "answered"
        /\ \A i, j \in 1 .. Len(log[t]) : log[t][i] = log[t][j] => i = j

LEMMA LogOnceStep == TypeOK /\ LogOnce /\ [Next]_vars => LogOnce'
<1> SUFFICES ASSUME TypeOK, LogOnce, [Next]_vars PROVE LogOnce'
  OBVIOUS
<1>1. ASSUME NEW e \in Events, Deliver(e), request[e] # "answered",
             request' = [request EXCEPT ![e] = "answered"]
      PROVE  LogOnce'
  <2> SUFFICES ASSUME NEW t \in Topics
               PROVE  /\ \A i \in 1 .. Len(log'[t]) :
                            TopicOf[log'[t][i]] = t /\ request'[log'[t][i]] = "answered"
                      /\ \A i, j \in 1 .. Len(log'[t]) : log'[t][i] = log'[t][j] => i = j
    BY DEF LogOnce
  <2> DEFINE l == log[t]
             n == Len(log[t])
  <2>1. /\ l \in Seq(Events) /\ n \in Nat
        /\ \A i \in 1 .. n : TopicOf[l[i]] = t /\ request[l[i]] = "answered" /\ l[i] \in Events
        /\ \A i, j \in 1 .. n : l[i] = l[j] => i = j
    BY DEF TypeOK, LogOnce
  <2>2. \A d \in Events : request[d] = "answered" \/ d = e => request'[d] = "answered"
    BY <1>1 DEF TypeOK
  <2>3. CASE t # TopicOf[e]
    BY <1>1, <2>1, <2>2, <2>3, DeliverAdds
  <2>4. CASE t = TopicOf[e]
    <3>1. log'[t] = Append(l, e)
      BY <1>1, <2>4, DeliverAdds
    <3>2. /\ Len(log'[t]) = n + 1 /\ log'[t][n + 1] = e
          /\ \A i \in 1 .. n : log'[t][i] = l[i]
          /\ \A i \in 1 .. n + 1 : i \in 1 .. n \/ i = n + 1
      BY <2>1, <3>1, AppendedAt
    <3> HIDE DEF l, n
    <3>3. \A i \in 1 .. n : l[i] # e
      BY <1>1, <2>1
    <3>4. \A i \in 1 .. n + 1 :
            TopicOf[log'[t][i]] = t /\ request'[log'[t][i]] = "answered"
      BY <2>1, <2>2, <2>4, <3>2
    <3>5. ASSUME NEW i \in 1 .. n + 1, NEW j \in 1 .. n + 1, log'[t][i] = log'[t][j]
          PROVE  i = j
      <4>1. CASE i \in 1 .. n /\ j \in 1 .. n
        BY <2>1, <3>2, <3>5, <4>1
      <4>2. CASE i \in 1 .. n /\ j = n + 1
        BY <3>2, <3>3, <3>5, <4>2
      <4>3. CASE i = n + 1 /\ j \in 1 .. n
        BY <3>2, <3>3, <3>5, <4>3
      <4>4. QED
        BY <3>2, <4>1, <4>2, <4>3
    <3>6. QED
      BY <3>2, <3>4, <3>5
  <2>5. QED
    BY <2>3, <2>4
<1>2. ASSUME UNCHANGED log,
             \A e \in Events : request[e] = "answered" => request'[e] = "answered"
      PROVE  LogOnce'
  <2>1. \A t \in Topics : \A i \in 1 .. Len(log[t]) : log[t][i] \in Events
    BY DEF TypeOK
  <2>2. QED
    BY <1>2, <2>1 DEF LogOnce
<1>3. ASSUME NEW e \in Events, Publish(e) \/ PublishForeign(e) PROVE LogOnce'
  <2>1. request[e] # "answered" /\ request' = [request EXCEPT ![e] = "answered"]
        /\ (Deliver(e) \/ UNCHANGED log)
    BY <1>3 DEF Publish, PublishForeign
  <2>2. \A d \in Events : request[d] = "answered" => request'[d] = "answered"
    BY <2>1 DEF TypeOK
  <2>3. QED
    BY <1>1, <1>2, <2>1, <2>2
<1>4. ASSUME NEW e \in Events, CommitRow(e) PROVE LogOnce'
  BY <1>2, <1>4 DEF CommitRow, TypeOK
<1>5. CASE Restart
  BY <1>2, <1>5 DEF Restart, TypeOK
<1>6. CASE UNCHANGED <<log, request>>
  BY <1>2, <1>6
<1>7. QED
  BY <1>3, <1>4, <1>5, <1>6 DEF Next, Poll, StartBatch, Skip, Store, EndBatch, Rejoin, vars

-----------------------------------------------------------------------------
(* The order *)

\* What the consumer holds or is done with is in its topic, was given by a pass there
\* has been and, if by the current one, from before its position.
GivenOnly ==
    \A m \in InBatch \cup Handled :
        /\ m.offset <= Len(log[m.topic])
        /\ m.pass <= pass
        /\ m.pass = pass => m.offset <= position[m.topic]

\* m comes before position i of the batch, if it has not been dealt with.
AheadOf(m, i) == m \in Handled \/ \E j \in 1 .. i - 1 : batch[j] = m

\* What comes before a message of the batch in its topic and pass comes before it here,
\* and it has not been dealt with itself.
BatchInOrder ==
    \A i \in 1 .. Len(batch) :
        /\ ~AheadOf(batch[i], i)
        /\ \A o \in 1 .. batch[i].offset - 1 :
              AheadOf(Message(batch[i].topic, o, batch[i].pass), i)

\* A pass is done with the messages of a topic from the first one on.
DoneFromFirst ==
    \A m \in Handled : \A o \in 1 .. m.offset - 1 : Message(m.topic, o, m.pass) \in Handled

OrderInv == GivenOnly /\ EveryMessageAccountedFor /\ BatchInOrder /\ DoneFromFirst /\ StoredInOrder

\* The messages in hand, those it is done with and those stored are messages.
LEMMA MembersAreMessages ==
    ASSUME TypeOK
    PROVE  /\ InBatch \subseteq Messages /\ Handled \subseteq Messages
           /\ Len(batch) \in Nat /\ Len(stored) \in Nat
           /\ \A i \in 1 .. Len(batch) : batch[i] \in Messages /\ batch[i] \in InBatch
           /\ \A i \in 1 .. Len(stored) : stored[i] \in Messages /\ stored[i] \in Handled
BY DEF TypeOK, InBatch, Handled, Stored, GivenUp

LEMMA GivenOnlyStep ==
    ASSUME TypeOK, GivenOnly, LogGrows, (\E t \in Topics : Given(t)) \/ Done \/ Again \/ Aside
    PROVE  GivenOnly'
<1> SUFFICES ASSUME NEW m \in InBatch' \cup Handled'
             PROVE  /\ m.offset <= Len(log'[m.topic])
                    /\ m.pass <= pass'
                    /\ m.pass = pass' => m.offset <= position'[m.topic]
  BY DEF GivenOnly
<1>1. ASSUME m \in InBatch \cup Handled
      PROVE  /\ m.topic \in Topics /\ m.offset \in Nat /\ m.pass \in Nat /\ pass \in Nat
             /\ position[m.topic] \in Nat /\ Len(log[m.topic]) \in Nat
             /\ m.offset <= Len(log[m.topic]) /\ m.pass <= pass
             /\ m.pass = pass => m.offset <= position[m.topic]
  BY <1>1, MembersAreMessages, MessageParts DEF TypeOK, GivenOnly
<1>2. ASSUME NEW t \in Topics, Given(t)
      PROVE  /\ m.offset <= Len(log'[m.topic])
             /\ m.pass <= pass'
             /\ m.pass = pass' => m.offset <= position'[m.topic]
  <2>1. UNCHANGED <<log, pass>> /\ position[t] < Len(log[t]) /\ position' = [position EXCEPT ![t] = @ + 1]
    BY <1>2 DEF Given
  <2>2. CASE m \in InBatch \cup Handled
    BY <1>1, <2>1, <2>2 DEF TypeOK
  <2>3. CASE m = Message(t, position[t] + 1, pass)
    <3>1. m.topic = t /\ m.offset = position[t] + 1 /\ m.pass = pass
      BY <2>3, MessageParts
    <3>2. position[t] \in Nat /\ pass \in Nat /\ Len(log[t]) \in Nat
      BY DEF TypeOK
    <3>3. position'[t] = position[t] + 1
      BY <2>1 DEF TypeOK
    <3>4. QED
      BY <2>1, <3>1, <3>2, <3>3
  <2>4. QED
    BY <1>2, <2>2, <2>3, MembersAfterGiven
<1>3. ASSUME Done
      PROVE  /\ m.offset <= Len(log'[m.topic])
             /\ m.pass <= pass'
             /\ m.pass = pass' => m.offset <= position'[m.topic]
  <2>1. m \in InBatch \cup Handled
    BY <1>3, MembersAfterDone
  <2>2. QED
    BY <1>1, <1>3, <2>1 DEF Done
<1>4. ASSUME Again
      PROVE  /\ m.offset <= Len(log'[m.topic])
             /\ m.pass <= pass'
             /\ m.pass = pass' => m.offset <= position'[m.topic]
  <2>1. m \in InBatch \cup Handled /\ pass' = pass + 1 /\ UNCHANGED log
    BY <1>4, MembersAfterAgain DEF Again
  <2>2. QED
    BY <1>1, <2>1
<1>5. ASSUME Aside
      PROVE  /\ m.offset <= Len(log'[m.topic])
             /\ m.pass <= pass'
             /\ m.pass = pass' => m.offset <= position'[m.topic]
  <2>1. m \in InBatch \cup Handled /\ UNCHANGED <<pass, position>>
    BY <1>5, MembersStay DEF Aside
  <2>2. Len(log[m.topic]) <= Len(log'[m.topic]) /\ Len(log'[m.topic]) \in Nat
    BY <1>1, <2>1 DEF LogGrows
  <2>3. QED
    BY <1>1, <2>1, <2>2
<1>6. QED
  BY <1>2, <1>3, <1>4, <1>5

LEMMA AccountedStep ==
    ASSUME TypeOK, EveryMessageAccountedFor,
           (\E t \in Topics : Given(t)) \/ Done \/ Again \/ Aside
    PROVE  EveryMessageAccountedFor'
<1> SUFFICES ASSUME NEW s \in Topics, NEW i \in 1 .. position'[s]
             PROVE  Message(s, i, pass') \in InBatch' \cup Handled'
  BY DEF EveryMessageAccountedFor, Message
<1>1. ASSUME NEW t \in Topics, Given(t) PROVE Message(s, i, pass') \in InBatch' \cup Handled'
  <2>1. pass' = pass /\ position' = [position EXCEPT ![t] = @ + 1] /\ position[t] \in Nat
        /\ position[s] \in Nat
    BY <1>1 DEF Given, TypeOK
  <2>2. i \in 1 .. position[s] \/ (s = t /\ i = position[t] + 1)
    BY <2>1 DEF TypeOK
  <2>3. InBatch' = InBatch \cup {Message(t, position[t] + 1, pass)} /\ Handled' = Handled
    BY <1>1, MembersAfterGiven
  <2>4. QED
    BY <2>1, <2>2, <2>3 DEF EveryMessageAccountedFor
<1>2. CASE Done
  <2>1. i \in 1 .. position[s] /\ pass' = pass
    BY <1>2 DEF Done
  <2>2. Message(s, i, pass) \in InBatch \cup Handled
    BY <2>1 DEF EveryMessageAccountedFor
  <2>3. QED
    BY <1>2, <2>1, <2>2, MembersAfterDone
<1>3. CASE Again
  BY <1>3, MembersAfterAgain
<1>4. CASE Aside
  <2>1. i \in 1 .. position[s] /\ pass' = pass
    BY <1>4 DEF Aside
  <2>2. QED
    BY <1>4, <2>1, MembersStay DEF EveryMessageAccountedFor
<1>5. QED
  BY <1>1, <1>2, <1>3, <1>4

LEMMA BatchInOrderStep ==
    ASSUME TypeOK, GivenOnly, EveryMessageAccountedFor, BatchInOrder,
           (\E t \in Topics : Given(t)) \/ Done \/ Again \/ Aside
    PROVE  BatchInOrder'
<1> SUFFICES ASSUME NEW i \in 1 .. Len(batch')
             PROVE  /\ batch'[i] \notin Handled' /\ \A j \in 1 .. i - 1 : batch'[j] # batch'[i]
                    /\ \A o \in 1 .. batch'[i].offset - 1 :
                          \/ Message(batch'[i].topic, o, batch'[i].pass) \in Handled'
                          \/ \E j \in 1 .. i - 1 :
                                batch'[j] = Message(batch'[i].topic, o, batch'[i].pass)
  BY DEF BatchInOrder, AheadOf, Message
<1> DEFINE Ordered == /\ batch'[i] \notin Handled' /\ \A j \in 1 .. i - 1 : batch'[j] # batch'[i]
                      /\ \A o \in 1 .. batch'[i].offset - 1 :
                            \/ Message(batch'[i].topic, o, batch'[i].pass) \in Handled'
                            \/ \E j \in 1 .. i - 1 :
                                  batch'[j] = Message(batch'[i].topic, o, batch'[i].pass)
<1>0. /\ Len(batch) \in Nat
      /\ \A n \in 1 .. Len(batch) :
            /\ batch[n] \notin Handled /\ \A j \in 1 .. n - 1 : batch[j] # batch[n]
            /\ \A o \in 1 .. batch[n].offset - 1 :
                  \/ Message(batch[n].topic, o, batch[n].pass) \in Handled
                  \/ \E j \in 1 .. n - 1 : batch[j] = Message(batch[n].topic, o, batch[n].pass)
  BY MembersAreMessages DEF BatchInOrder, AheadOf
<1>1. ASSUME NEW t \in Topics, Given(t) PROVE Ordered
  <2> DEFINE m == Message(t, position[t] + 1, pass)
  <2>1. /\ Len(batch') = Len(batch) + 1
        /\ \A j \in 1 .. Len(batch) : batch'[j] = batch[j]
        /\ batch'[Len(batch) + 1] = m
        /\ Handled' = Handled
    BY <1>1, MembersAfterGiven
  <2>2. m.topic = t /\ m.offset = position[t] + 1 /\ m.pass = pass /\ position[t] \in Nat
    BY MessageParts DEF TypeOK
  <2>3. m \notin InBatch \cup Handled
    BY <2>2 DEF GivenOnly
  <2>4. \A j \in 1 .. Len(batch) : batch[j] # m
    BY <2>3 DEF InBatch
  <2>5. ASSUME NEW o \in 1 .. position[t]
        PROVE  Message(t, o, pass) \in Handled
                 \/ \E j \in 1 .. Len(batch) : batch[j] = Message(t, o, pass)
    BY DEF EveryMessageAccountedFor, InBatch
  <2> HIDE DEF m
  <2>6. CASE i \in 1 .. Len(batch)
    <3>1. \A j \in 1 .. i - 1 : j \in 1 .. Len(batch) /\ batch'[j] = batch[j]
      BY <1>0, <2>1, <2>6
    <3>2. batch'[i] = batch[i]
      BY <2>1, <2>6
    <3>3. QED
      BY <1>0, <2>1, <2>6, <3>1, <3>2
  <2>7. CASE i = Len(batch) + 1
    <3>1. batch'[i] = m /\ i - 1 = Len(batch)
      BY <1>0, <2>1, <2>7
    <3>2. m.offset - 1 = position[t]
      BY <2>2
    <3>3. \A j \in 1 .. i - 1 : batch'[j] # batch'[i]
      BY <2>1, <2>4, <3>1
    <3>4. \A o \in 1 .. m.offset - 1 :
            \/ Message(t, o, pass) \in Handled'
            \/ \E j \in 1 .. i - 1 : batch'[j] = Message(t, o, pass)
      BY <2>1, <2>5, <3>1, <3>2
    <3>5. QED
      BY <2>1, <2>2, <2>3, <3>1, <3>3, <3>4
  <2>8. QED
    BY <1>0, <2>1, <2>6, <2>7
<1>2. ASSUME Done PROVE Ordered
  <2>1. /\ Len(batch') = Len(batch) - 1
        /\ \A j \in 1 .. Len(batch) - 1 : batch'[j] = batch[j + 1]
        /\ Handled' = Handled \cup {batch[1]}
    BY <1>2, MembersAfterDone
  <2>2. /\ i \in 1 .. Len(batch) - 1 /\ i + 1 \in 1 .. Len(batch) /\ batch'[i] = batch[i + 1]
        /\ 1 \in 1 .. (i + 1) - 1
    BY <1>0, <2>1
  <2>3. \A j \in 1 .. i - 1 : j + 1 \in 1 .. (i + 1) - 1 /\ batch'[j] = batch[j + 1]
    BY <1>0, <2>1, <2>2
  <2>4. batch[i + 1] \notin Handled /\ batch[1] # batch[i + 1]
    BY <1>0, <2>2
  <2>5. \A j \in 1 .. i - 1 : batch'[j] # batch'[i]
    BY <1>0, <2>2, <2>3
  <2>6. ASSUME NEW o \in 1 .. batch'[i].offset - 1
        PROVE  \/ Message(batch'[i].topic, o, batch'[i].pass) \in Handled'
               \/ \E j \in 1 .. i - 1 : batch'[j] = Message(batch'[i].topic, o, batch'[i].pass)
    <3> DEFINE d == Message(batch[i + 1].topic, o, batch[i + 1].pass)
    <3>1. d \in Handled \/ \E j \in 1 .. (i + 1) - 1 : batch[j] = d
      BY <1>0, <2>2, <2>6
    <3>2. ASSUME NEW j \in 1 .. (i + 1) - 1, batch[j] = d
          PROVE  d \in Handled' \/ \E n \in 1 .. i - 1 : batch'[n] = d
      <4> HIDE DEF d
      <4>1. CASE j = 1
        BY <2>1, <3>2, <4>1
      <4>2. CASE j # 1
        <5>1. j - 1 \in 1 .. i - 1 /\ j - 1 \in 1 .. Len(batch) - 1 /\ (j - 1) + 1 = j
          BY <1>0, <2>2, <3>2, <4>2
        <5>2. batch'[j - 1] = batch[j]
          BY <2>1, <5>1
        <5>3. QED
          BY <3>2, <5>1, <5>2
      <4>3. QED
        BY <4>1, <4>2
    <3>3. QED
      BY <2>1, <2>2, <3>1, <3>2
  <2>7. QED
    BY <2>1, <2>2, <2>4, <2>5, <2>6
<1>3. ASSUME Again PROVE Ordered
  <2>1. Handled' = Handled
    BY <1>3, MembersAfterAgain
  <2>2. batch' = batch
    <3>1. batch' # <<>>
      OBVIOUS
    <3>2. QED
      BY <1>3, <3>1 DEF Again
  <2>3. QED
    BY <1>0, <2>1, <2>2
<1>4. ASSUME Aside PROVE Ordered
  BY <1>0, <1>4, MembersStay DEF Aside
<1>5. QED
  BY <1>1, <1>2, <1>3, <1>4

\* What the consumer is done with next.
LEMMA HeadIsNext ==
    ASSUME TypeOK, GivenOnly, BatchInOrder, DoneFromFirst, Done
    PROVE  LET m == Head(batch) IN
           /\ m \in Messages /\ m \notin Handled
           /\ m.offset <= Len(log[m.topic]) /\ m.pass <= pass
           /\ \A o \in 1 .. m.offset - 1 : Message(m.topic, o, m.pass) \in Handled
           /\ \A d \in Handled : d.topic = m.topic /\ d.pass = m.pass => d.offset < m.offset
<1> DEFINE m == Head(batch)
<1>1. m \in Messages /\ m = batch[1] /\ 1 \in 1 .. Len(batch) /\ m \in InBatch
  BY MembersAfterDone
<1> HIDE DEF m
<1>2. m \notin Handled /\ \A o \in 1 .. m.offset - 1 : Message(m.topic, o, m.pass) \in Handled
  BY <1>1 DEF BatchInOrder, AheadOf
<1>3. ASSUME NEW d \in Handled, d.topic = m.topic, d.pass = m.pass PROVE d.offset < m.offset
  <2>1. /\ d \in Messages /\ d.offset \in Nat \ {0} /\ m.offset \in Nat \ {0}
        /\ d = Message(d.topic, d.offset, d.pass) /\ m = Message(m.topic, m.offset, m.pass)
    BY <1>1, <1>3, MembersAreMessages, MessageParts
  <2>2. d.offset # m.offset
    BY <1>2, <1>3, <2>1
  <2>3. ASSUME m.offset < d.offset PROVE FALSE
    <3>1. m.offset \in 1 .. d.offset - 1
      BY <2>1, <2>3
    <3>2. m \in Handled
      BY <1>3, <2>1, <3>1 DEF DoneFromFirst
    <3>3. QED
      BY <1>2, <3>2
  <2>4. QED
    BY <2>1, <2>2, <2>3
<1>4. m.offset <= Len(log[m.topic]) /\ m.pass <= pass
  BY <1>1 DEF GivenOnly
<1>5. QED
  BY <1>1, <1>2, <1>3, <1>4 DEF m

LEMMA DoneFromFirstStep ==
    ASSUME TypeOK, GivenOnly, BatchInOrder, DoneFromFirst,
           (\E t \in Topics : Given(t)) \/ Done \/ Again \/ Aside
    PROVE  DoneFromFirst'
<1>1. CASE Done
  <2> DEFINE m == Head(batch)
  <2>1. Handled' = Handled \cup {m}
    BY <1>1, MembersAfterDone
  <2>2. \A o \in 1 .. m.offset - 1 : Message(m.topic, o, m.pass) \in Handled
    BY <1>1, HeadIsNext
  <2> HIDE DEF m
  <2>3. QED
    BY <2>1, <2>2 DEF DoneFromFirst, Message
<1>2. CASE Handled' = Handled
  BY <1>2 DEF DoneFromFirst, Message
<1>3. QED
  BY <1>1, <1>2, MembersAfterGiven, MembersAfterAgain, MembersStay

LEMMA StoredInOrderStep ==
    ASSUME TypeOK, GivenOnly, BatchInOrder, DoneFromFirst, StoredInOrder,
           (\E t \in Topics : Given(t)) \/ Done \/ Again \/ Aside
    PROVE  StoredInOrder'
<1>1. CASE Done /\ stored' = Append(stored, Head(batch))
  <2> DEFINE m == Head(batch)
             n == Len(stored)
  <2>1. m \in Messages /\ \A d \in Handled : d.topic = m.topic /\ d.pass = m.pass => d.offset < m.offset
    BY <1>1, HeadIsNext
  <2> HIDE DEF m
  <2>2. /\ n \in Nat /\ \A i \in 1 .. n : stored[i] \in Handled
    BY MembersAreMessages
  <2>3. /\ Len(stored') = n + 1 /\ stored'[n + 1] = m
        /\ \A i \in 1 .. n : stored'[i] = stored[i]
        /\ \A i \in 1 .. n + 1 : i \in 1 .. n \/ i = n + 1
    <3>1. stored \in Seq(Messages) /\ stored' = Append(stored, m)
      BY <1>1 DEF TypeOK, m
    <3>2. QED
      BY <2>1, <3>1, AppendedAt
  <2> HIDE DEF n
  <2>4. ASSUME NEW i \in 1 .. n + 1, NEW j \in 1 .. n + 1, i < j,
               stored'[i].pass = stored'[j].pass, stored'[i].topic = stored'[j].topic
        PROVE  stored'[i].offset < stored'[j].offset
    <3>1. i \in 1 .. n
      BY <2>2, <2>4
    <3>2. CASE j \in 1 .. n
      BY <2>3, <2>4, <3>1, <3>2 DEF StoredInOrder, n
    <3>3. CASE j = n + 1
      BY <2>1, <2>2, <2>3, <2>4, <3>1, <3>3
    <3>4. QED
      BY <2>3, <3>2, <3>3
  <2>5. QED
    BY <2>3, <2>4 DEF StoredInOrder
<1>2. CASE stored' = stored
  BY <1>2 DEF StoredInOrder
<1>3. QED
  BY <1>1, <1>2 DEF Given, Done, Again, Aside

LEMMA OrderStep == TypeOK /\ OrderInv /\ [Next]_vars => OrderInv'
<1> SUFFICES ASSUME TypeOK, OrderInv, [Next]_vars PROVE OrderInv'
  OBVIOUS
<1>1. (\E t \in Topics : Given(t)) \/ Done \/ Again \/ Aside
  BY StepKinds
<1>2. LogGrows
  BY LogStep
<1>3. QED
  BY <1>1, <1>2, GivenOnlyStep, AccountedStep, BatchInOrderStep, DoneFromFirstStep,
     StoredInOrderStep DEF OrderInv

-----------------------------------------------------------------------------
(* The invariant *)

\* Whatever did not parse came from another writer.
SkippedAreForeign == \A m \in skipped : EventOf(m) \in Foreign

PipelineInv == TypeOK /\ LogOnce /\ OrderInv /\ SkippedAreForeign

LEMMA InvInit == Init => PipelineInv
<1> SUFFICES ASSUME Init PROVE PipelineInv
  OBVIOUS
<1>1. /\ \A t \in Topics : Len(log[t]) = 0 /\ position[t] = 0
      /\ Len(batch) = 0 /\ Len(stored) = 0 /\ failed = {} /\ skipped = {}
  BY DEF Init
<1>2. InBatch = {} /\ Handled = {}
  BY <1>1 DEF InBatch, Handled, Stored, GivenUp
<1>3. OrderInv
  BY <1>1, <1>2 DEF OrderInv, GivenOnly, EveryMessageAccountedFor, BatchInOrder, DoneFromFirst,
     StoredInOrder
<1>4. QED
  BY <1>1, <1>3, TypeInit DEF PipelineInv, LogOnce, SkippedAreForeign

\* The payload of every event type has what its processor converts.
LEMMA OwnPayloads == \A type : Required(type) \subseteq Payload(type)
<1> SUFFICES ASSUME NEW type PROVE Required(type) \subseteq Payload(type)
  OBVIOUS
<1>1. CASE type = "UserRegistered"
  BY <1>1 DEF Required, Payload
<1>2. CASE type = "UserLoggedIn"
  BY <1>2 DEF Required, Payload
<1>3. CASE type = "ProjectCreated"
  BY <1>3 DEF Required, Payload
<1>4. CASE type = "TaskCreated"
  BY <1>4 DEF Required, Payload
<1>5. CASE type = "CommentAdded"
  BY <1>5 DEF Required, Payload
<1>6. CASE type \notin EventTypes
  BY <1>6 DEF Required, Payload, EventTypes
<1>7. QED
  BY <1>1, <1>2, <1>3, <1>4, <1>5, <1>6 DEF EventTypes

LEMMA SkippedStep ==
    TypeOK /\ OrderInv /\ SkippedAreForeign /\ [Next]_vars => SkippedAreForeign'
<1> SUFFICES ASSUME TypeOK, OrderInv, SkippedAreForeign, [Next]_vars,
                    NEW m \in skipped'
             PROVE  log'[m.topic][m.offset] \in Foreign
  BY DEF SkippedAreForeign, EventOf
<1>1. CASE Skip
  <2>1. EventOf(Head(batch)) \in Malformed
    BY <1>1, OwnPayloads DEF Skip, Processable, RequiredOfEnvelope, Envelope
  <2>2. m \in skipped \/ m = Head(batch)
    BY <1>1 DEF Skip
  <2>3. QED
    BY <1>1, <2>1, <2>2, PipelineConstants DEF Skip, SkippedAreForeign, EventOf
<1>2. CASE skipped' = skipped
  <2>1. m \in Messages /\ m \in Handled
    BY <1>2 DEF TypeOK, Handled, GivenUp
  <2>2. m.topic \in Topics /\ m.offset \in 1 .. Len(log[m.topic])
    <3>1. m.offset <= Len(log[m.topic])
      BY <2>1 DEF OrderInv, GivenOnly
    <3>2. m.topic \in Topics /\ m.offset \in Nat \ {0}
      BY <2>1, MessageParts
    <3>3. Len(log[m.topic]) \in Nat
      BY <3>2 DEF TypeOK
    <3>4. QED
      BY <3>1, <3>2, <3>3
  <2>3. log'[m.topic][m.offset] = log[m.topic][m.offset]
    BY <2>2, LogStep DEF LogGrows
  <2>4. QED
    BY <1>2, <2>3 DEF SkippedAreForeign, EventOf
<1>3. QED
  BY <1>1, <1>2 DEF Next, CommitRow, Publish, PublishForeign, Poll, StartBatch, Store,
     EndBatch, Restart, Rejoin, consumer, vars

LEMMA InvStep == PipelineInv /\ [Next]_vars => PipelineInv'
BY TypeStep, LogOnceStep, OrderStep, SkippedStep DEF PipelineInv

LEMMA InvHolds == Spec => []PipelineInv
BY InvInit, InvStep, PTL DEF Spec

-----------------------------------------------------------------------------
(* The theorems *)

\* Topics, batch, collection and requests keep their types; the batch its limit.
THEOREM TypeCorrect == Spec => []TypeOK
<1>1. PipelineInv => TypeOK
  BY DEF PipelineInv
<1>2. QED
  BY <1>1, InvHolds, PTL

\* ProcessBatch loses no message to another one's exception, and neither a restart nor
\* a rejoin loses any.
THEOREM NoMessageFallsBetween == Spec => []EveryMessageAccountedFor
<1>1. PipelineInv => EveryMessageAccountedFor
  BY DEF PipelineInv, OrderInv
<1>2. QED
  BY <1>1, InvHolds, PTL

\* What the producers of this service publish never ends in an exception of its
\* processor.
THEOREM OwnEventsPass == Spec => []OwnEventsAreProcessable
<1>1. PipelineInv => OwnEventsAreProcessable
  BY OwnPayloads DEF PipelineInv, OwnEventsAreProcessable, SkippedAreForeign
<1>2. QED
  BY <1>1, InvHolds, PTL

\* The messages that one pass gave of a topic are inserted in the order of their
\* offsets, however they were mixed with others in the batches, and though those of two
\* passes may be mixed after a rejoin.
THEOREM PassStoresInOrder == Spec => []StoredInOrder
<1>1. PipelineInv => StoredInOrder
  BY DEF PipelineInv, OrderInv
<1>2. QED
  BY <1>1, InvHolds, PTL

\* An event is stored again only by another pass: the idempotent producer wrote one
\* message of it, which a pass deals with once.
THEOREM PassStoresOnce == Spec => []OnceEachPass
<1>1. PipelineInv => OnceEachPass
  <2> SUFFICES ASSUME PipelineInv, NEW i \in 1 .. Len(stored), NEW j \in 1 .. Len(stored),
                      stored[i].pass = stored[j].pass, EventOf(stored[i]) = EventOf(stored[j]), i < j
               PROVE  FALSE
    <3>1. Len(stored) \in Nat
      BY MembersAreMessages DEF PipelineInv
    <3>2. QED
      BY <3>1 DEF OnceEachPass
  <2>1. \A n \in 1 .. Len(stored) : /\ stored[n].topic \in Topics
                                    /\ stored[n].offset \in Nat \ {0}
                                    /\ stored[n].offset \in 1 .. Len(log[stored[n].topic])
    <3> SUFFICES ASSUME NEW n \in 1 .. Len(stored)
                 PROVE  /\ stored[n].topic \in Topics
                        /\ stored[n].offset \in Nat \ {0}
                        /\ stored[n].offset \in 1 .. Len(log[stored[n].topic])
      OBVIOUS
    <3>1. stored[n] \in Messages /\ stored[n] \in Handled
      BY MembersAreMessages DEF PipelineInv
    <3>2. stored[n].topic \in Topics /\ stored[n].offset \in Nat \ {0}
      BY <3>1, MessageParts
    <3>3. stored[n].offset <= Len(log[stored[n].topic])
      BY <3>1 DEF PipelineInv, OrderInv, GivenOnly
    <3>4. Len(log[stored[n].topic]) \in Nat
      BY <3>2 DEF PipelineInv, TypeOK
    <3>5. QED
      BY <3>2, <3>3, <3>4
  <2>2. stored[i].topic = stored[j].topic
    <3>1. \A n \in 1 .. Len(stored) : TopicOf[EventOf(stored[n])] = stored[n].topic
      BY <2>1 DEF PipelineInv, LogOnce, EventOf
    <3>2. TopicOf[EventOf(stored[i])] = stored[i].topic
          /\ TopicOf[EventOf(stored[j])] = stored[j].topic
      BY <3>1
    <3>3. QED
      BY <3>2
  <2>3. stored[i].offset = stored[j].offset
    <3>1. log[stored[i].topic][stored[i].offset] = log[stored[i].topic][stored[j].offset]
      BY <2>2 DEF EventOf
    <3>2. /\ stored[i].topic \in Topics
          /\ stored[i].offset \in 1 .. Len(log[stored[i].topic])
          /\ stored[j].offset \in 1 .. Len(log[stored[i].topic])
      BY <2>1, <2>2
    <3>3. QED
      BY <3>1, <3>2 DEF PipelineInv, LogOnce
  <2>4. stored[i].offset < stored[j].offset
    BY <2>2 DEF PipelineInv, OrderInv, StoredInOrder
  <2>5. QED
    BY <2>1, <2>3, <2>4
<1>2. QED
  BY <1>1, InvHolds, PTL

-----------------------------------------------------------------------------
(* The consumer implements TopicReader *)

\* The offsets of topic t that pass k is done with.
Offsets(t, k) == {i \in 1 .. Len(log[t]) : Message(t, i, k) \in Handled}

LEMMA TakenIs ==
    /\ Taken = [k \in 0 .. MaxPasses |-> [t \in Topics |-> Cardinality(Offsets(t, k))]]
    /\ Taken' = [k \in 0 .. MaxPasses |-> [t \in Topics |-> Cardinality(Offsets(t, k)')]]
BY DEF Taken, Offsets

\* While the consumer is done with nothing more, no count changes, even though topics grow.
LEMMA TakenStays ==
    ASSUME TypeOK, OrderInv, LogGrows, Handled' = Handled
    PROVE  Taken' = Taken
<1>1. ASSUME NEW t \in Topics, NEW k \in 0 .. MaxPasses PROVE Offsets(t, k)' = Offsets(t, k)
  <2>1. Len(log[t]) \in Nat /\ Len(log'[t]) \in Nat /\ Len(log[t]) <= Len(log'[t])
    BY DEF LogGrows
  <2>2. ASSUME NEW i \in 1 .. Len(log'[t]), Message(t, i, k) \in Handled
        PROVE  i \in 1 .. Len(log[t])
    <3>1. i <= Len(log[t])
      BY <2>2, MessageParts DEF OrderInv, GivenOnly
    <3>2. QED
      BY <2>1, <3>1
  <2>3. QED
    BY <2>1, <2>2 DEF Offsets, Message
<1>2. QED
  BY <1>1, TakenIs

\* When it is done with one, that is the next of its topic in its pass.
LEMMA TakenAdvances ==
    ASSUME TypeOK, OrderInv, Done
    PROVE  LET m == Head(batch) IN
           /\ m.topic \in Topics /\ m.pass \in 0 .. MaxPasses
           /\ m = Message(m.topic, Taken[m.pass][m.topic] + 1, m.pass)
           /\ Taken[m.pass][m.topic] < Len(log[m.topic])
           /\ Taken' = [Taken EXCEPT ![m.pass][m.topic] = @ + 1]
<1> DEFINE m == Head(batch)
<1>1. /\ m \in Messages /\ m \notin Handled
      /\ m.offset <= Len(log[m.topic])
      /\ \A o \in 1 .. m.offset - 1 : Message(m.topic, o, m.pass) \in Handled
      /\ \A d \in Handled : d.topic = m.topic /\ d.pass = m.pass => d.offset < m.offset
  BY HeadIsNext DEF OrderInv
<1>2. Handled' = Handled \cup {m} /\ UNCHANGED log
  BY MembersAfterDone DEF Done
<1> HIDE DEF m
<1>3. PICK t \in Topics, k \in 0 .. MaxPasses, o \in Nat \ {0} :
         m.topic = t /\ m.pass = k /\ m.offset = o /\ m = Message(t, o, k)
  BY <1>1, MessageParts
<1>4. Len(log[t]) \in Nat /\ o \in 1 .. Len(log[t])
  BY <1>1, <1>3 DEF TypeOK
<1>5. Offsets(t, k) = 1 .. o - 1
  <2>1. ASSUME NEW i \in 1 .. Len(log[t]), Message(t, i, k) \in Handled PROVE i \in 1 .. o - 1
    <3>1. i < o
      BY <1>1, <1>3, <2>1, MessageParts
    <3>2. QED
      BY <1>4, <3>1
  <2>2. ASSUME NEW i \in 1 .. o - 1
        PROVE  i \in 1 .. Len(log[t]) /\ Message(t, i, k) \in Handled
    BY <1>1, <1>3, <1>4
  <2>3. QED
    BY <2>1, <2>2 DEF Offsets
<1>6. Offsets(t, k)' = 1 .. o
  <2>1. Offsets(t, k)' = {i \in 1 .. Len(log[t]) : Message(t, i, k) \in Handled \cup {m}}
    BY <1>2 DEF Offsets, Message
  <2>2. \A i : Message(t, i, k) = m <=> i = o
    BY <1>3, MessageParts
  <2>3. Offsets(t, k)' = {i \in 1 .. Len(log[t]) : Message(t, i, k) \in Handled} \cup {o}
    BY <1>4, <2>1, <2>2
  <2>4. Offsets(t, k)' = (1 .. o - 1) \cup {o}
    BY <1>5, <2>3 DEF Offsets
  <2>5. QED
    BY <1>3, <2>4
<1>7. ASSUME NEW s \in Topics, NEW h \in 0 .. MaxPasses, s # t \/ h # k
      PROVE  Offsets(s, h)' = Offsets(s, h)
  <2>1. \A i : Message(s, i, h) # m
    BY <1>3, <1>7, MessageParts
  <2>2. QED
    BY <1>2, <2>1 DEF Offsets, Message
<1>8. Cardinality(1 .. o - 1) = o - 1 /\ Cardinality(1 .. o) = o
  BY <1>3, FS_Interval
<1>9. Taken[k][t] = o - 1
  BY <1>5, <1>8, TakenIs
<1>10. Taken' = [Taken EXCEPT ![k][t] = @ + 1]
  <2>1. ASSUME NEW h \in 0 .. MaxPasses, NEW s \in Topics
        PROVE  Cardinality(Offsets(s, h)') = IF h = k /\ s = t THEN o ELSE Cardinality(Offsets(s, h))
    BY <1>6, <1>7, <1>8
  <2>2. Taken' = [h \in 0 .. MaxPasses |-> [s \in Topics |->
                   IF h = k /\ s = t THEN o ELSE Cardinality(Offsets(s, h))]]
    BY <2>1, TakenIs
  <2>3. Taken[k][t] + 1 = o
    BY <1>3, <1>9
  <2>4. Taken' = [h \in 0 .. MaxPasses |->
                    IF h = k THEN [s \in Topics |-> IF s = t THEN o ELSE Taken[k][s]]
                             ELSE Taken[h]]
    BY <2>2, TakenIs
  <2>5. [s \in Topics |-> IF s = t THEN o ELSE Taken[k][s]] = [Taken[k] EXCEPT ![t] = o]
    BY TakenIs
  <2>6. Taken' = [Taken EXCEPT ![k] = [Taken[k] EXCEPT ![t] = o]]
    BY <2>4, <2>5, TakenIs
  <2>7. QED
    BY <2>3, <2>6
<1>11. /\ m.topic \in Topics /\ m.pass \in 0 .. MaxPasses
       /\ Taken[m.pass][m.topic] + 1 = m.offset
       /\ Taken[m.pass][m.topic] < Len(log[m.topic])
       /\ Taken' = [Taken EXCEPT ![m.pass][m.topic] = @ + 1]
  BY <1>3, <1>4, <1>9, <1>10
<1>12. m = Message(m.topic, Taken[m.pass][m.topic] + 1, m.pass)
  BY <1>3, <1>11
<1>13. QED
  BY <1>11, <1>12 DEF m

LEMMA ReaderInit == Init => Reader!Init
<1> SUFFICES ASSUME Init PROVE Reader!Init
  OBVIOUS
<1>1. ASSUME NEW t \in Topics, NEW k \in 0 .. MaxPasses PROVE Cardinality(Offsets(t, k)) = 0
  <2>1. Len(log[t]) = 0
    BY DEF Init
  <2>2. Offsets(t, k) = {}
    BY <2>1 DEF Offsets
  <2>3. QED
    BY <2>2, FS_EmptySet
<1>2. Taken = [k \in 0 .. MaxPasses |-> [t \in Topics |-> 0]]
  BY <1>1, TakenIs
<1>3. QED
  BY <1>2 DEF Init, Reader!Init, GivenUp

\* A message that is delivered was never sent before.
LEMMA ReaderSend ==
    ASSUME PipelineInv, [Next]_vars, NEW e \in Events, Publish(e) \/ PublishForeign(e), Deliver(e)
    PROVE  Reader!Send(e)
<1>1. request[e] # "answered" /\ UNCHANGED <<stored, failed, skipped, pass>>
  BY DEF Publish, PublishForeign, consumer
<1>2. Taken' = Taken
  <2>1. Handled' = Handled
    BY <1>1 DEF Handled, Stored, GivenUp
  <2>2. QED
    BY <2>1, LogStep, TakenStays DEF PipelineInv
<1>3. \A i \in 1 .. Len(log[TopicOf[e]]) : log[TopicOf[e]][i] # e
  BY <1>1, PipelineConstants DEF PipelineInv, LogOnce
<1>4. QED
  BY <1>1, <1>2, <1>3 DEF Deliver, Reader!Send, GivenUp

LEMMA ReaderTake ==
    ASSUME PipelineInv, Done
    PROVE  \E k \in 0 .. MaxPasses : \E t \in Topics : Reader!Take(k, t)
<1> DEFINE m == Head(batch)
<1>1. /\ m.topic \in Topics /\ m.pass \in 0 .. MaxPasses
      /\ m = Message(m.topic, Taken[m.pass][m.topic] + 1, m.pass)
      /\ Taken[m.pass][m.topic] < Len(log[m.topic])
      /\ Taken' = [Taken EXCEPT ![m.pass][m.topic] = @ + 1]
      /\ m.pass <= pass
  BY TakenAdvances, HeadIsNext DEF PipelineInv, OrderInv
<1>2. /\ \/ stored' = Append(stored, m) /\ GivenUp' = GivenUp
         \/ stored' = stored /\ GivenUp' = GivenUp \cup {m}
      /\ UNCHANGED <<log, pass>>
  BY DEF Done
<1> HIDE DEF m
<1>3. PICK t \in Topics, k \in 0 .. MaxPasses : t = m.topic /\ k = m.pass
  BY <1>1
<1>4. m = [topic |-> t, offset |-> Taken[k][t] + 1, pass |-> k]
  BY <1>1, <1>3 DEF Message
<1>5. Reader!Take(k, t)
  BY <1>1, <1>2, <1>3, <1>4 DEF Reader!Take
<1>6. QED
  BY <1>5

LEMMA ReaderStep == PipelineInv /\ [Next]_vars => [Reader!Next]_(Reader!vars)
<1> SUFFICES ASSUME PipelineInv, [Next]_vars PROVE [Reader!Next]_(Reader!vars)
  OBVIOUS
<1>1. LogGrows
  BY LogStep DEF PipelineInv
<1>2. ASSUME NEW e \in Events, Publish(e) \/ PublishForeign(e), Deliver(e)
      PROVE  Reader!Next
  BY <1>2, ReaderSend DEF Reader!Next
<1>3. CASE Done
  BY <1>3, ReaderTake DEF Reader!Next
<1>4. CASE Again
  <2>1. Taken' = Taken
    BY <1>1, <1>4, MembersAfterAgain, TakenStays DEF PipelineInv
  <2>2. Reader!BeginAgain
    BY <1>4, <2>1 DEF Again, BeginAgain, Reader!BeginAgain, GivenUp
  <2>3. QED
    BY <2>2 DEF Reader!Next
<1>5. CASE UNCHANGED <<log, stored, failed, skipped, pass>>
  <2>1. Handled' = Handled
    BY <1>5 DEF Handled, Stored, GivenUp
  <2>2. Taken' = Taken
    BY <1>1, <2>1, TakenStays DEF PipelineInv
  <2>3. QED
    BY <1>5, <2>2 DEF Reader!vars, GivenUp
<1>6. CASE Skip \/ Store
  BY <1>3, <1>6 DEF Skip, Store, Done, GivenUp
<1>7. CASE Restart \/ Rejoin
  BY <1>4, <1>7 DEF Restart, Rejoin, Again
<1>8. QED
  BY <1>2, <1>5, <1>6, <1>7 DEF Next, CommitRow, Publish, PublishForeign, Poll, StartBatch,
     EndBatch, consumer, vars

\* The consumer with its batches, which mix the topics and after a rejoin the passes,
\* implements the reader that takes one message after the other.
THEOREM PipelineRefinesTopicReader == Spec => RefinesTopicReader
<1>1. PipelineInv /\ [Next]_vars => [Reader!Next]_(Reader!vars)
  BY ReaderStep
<1>2. QED
  BY <1>1, ReaderInit, InvHolds, PTL DEF Spec, RefinesTopicReader, Reader!Spec
=============================================================================
