---------------------------- MODULE GatewayProofs ----------------------------
(***************************************************************************)
(* Theorems about Gateway, for any topics, configured subscriptions,       *)
(* capacities and number of attempts.                                      *)
(***************************************************************************)
EXTENDS Gateway, TLAPS

(***************************************************************************)
(* The inductive invariant                                                 *)
(***************************************************************************)

AttemptsInv == loop \notin {"ending", "ended"} => attempts <= MaxAttempts

IsMessage(e, t) == e[1] = "Message" /\ e[2] = t

\* The messages of topic t in q are those numbered from b + 1 to c, in that order.
Numbered(t, b, q, c) ==
  /\ b <= c
  /\ \A i \in 1..Len(q) : IsMessage(q[i], t) => b < q[i][3] /\ q[i][3] <= c
  /\ \A i, j \in 1..Len(q) :
       IsMessage(q[i], t) /\ IsMessage(q[j], t) /\ i < j => q[i][3] < q[j][3]
  /\ \A n \in (b + 1)..c : \E i \in 1..Len(q) : IsMessage(q[i], t) /\ q[i][3] = n

\* Channel and outbox hold what the reader has not taken, the older messages first.
NumbersInv ==
  \A t \in Topics : \E m \in Nat :
    Numbered(t, taken[t], events, m) /\ Numbered(t, m, outbox, version[t])

Resets(e) == e[1] \in {"Connected", "Disconnected"}

NoReset(q) == \A i \in 1..Len(q) : ~Resets(q[i])

Subscribes(e, t) == e[1] = "Subscribed" /\ e[2] = t

\* Topic t was subscribed since the last event of q that ends a session.
Announced(q, t) ==
  \E i \in 1..Len(q) :
    Subscribes(q[i], t) /\ \A j \in 1..Len(q) : i < j => ~Resets(q[j])

\* What a reader who believes B comes to believe from the events of q.
After(B, q) == {t \in Topics : (t \in B /\ NoReset(q)) \/ Announced(q, t)}

\* What the reader will believe once nothing is under way any more.
Outlook == After(After(believed, events), outbox)

InTodo == {todo[i] : i \in DOMAIN todo}

\* Why a topic may be missing from the session.
Lost == excused \cup refused

\* The session is what the reader will believe, but for what is lost, and what is
\* configured is served, lost or still to be subscribed.
SessionInv ==
  /\ loop = "authenticating" =>
       session = {} /\ Lost = {} /\ Outlook = {} /\ todo = Configured
  /\ loop \in {"restoring", "running"} =>
       session \subseteq Outlook /\ Outlook \ session \subseteq Lost
  /\ loop = "restoring" =>
       {Configured[i] : i \in DOMAIN Configured} \subseteq session \cup Lost \cup InTodo
  /\ loop = "running" =>
       {Configured[i] : i \in DOMAIN Configured} \subseteq session \cup Lost

IInv == TypeOK /\ AttemptsInv /\ NumbersInv /\ SessionInv

USE ConfiguredAssumption, AuthAssumption, CapAssumption, BoundAssumption

(***************************************************************************)
(* Events, commands and queues                                             *)
(***************************************************************************)

\* An event is a message, the news of a subscription or of the connection.
LEMMA EventFacts ==
  ASSUME NEW e \in Event
  PROVE  \/ e[1] = "Message" /\ e[2] \in Topics /\ e[3] \in 1..MaxVersion
         \/ e[1] = "Subscribed" /\ e[2] \in Topics
         \/ e[1] \in {"Connected", "Disconnected", "Error"}
BY DEF Event, News

LEMMA NewsEvents ==
  /\ <<"Connected">> \in Event /\ <<"Disconnected">> \in Event /\ <<"Error">> \in Event
  /\ \A t \in Topics : <<"Subscribed", t>> \in Event
  /\ \A t \in Topics, n \in 1..MaxVersion : <<"Message", t, n>> \in Event
BY DEF Event, News

LEMMA CommandFacts ==
  ASSUME NEW c \in Command
  PROVE  \/ c[1] \in {"Subscribe", "Unsubscribe"} /\ c[2] \in Topics
         \/ c[1] = "Shutdown"
BY DEF Command

LEMMA ShortSequences ==
  ASSUME NEW S
  PROVE  \A a, b \in S : <<a>> \in Seq(S) /\ <<a, b>> \in Seq(S)
OBVIOUS

\* The elements of a queue after Tail and Append.
LEMMA TailElements ==
  ASSUME NEW S, NEW q \in Seq(S), q # <<>>
  PROVE  /\ Head(q) \in S /\ Head(q) = q[1] /\ Len(q) \in Nat /\ Len(q) >= 1
         /\ Tail(q) \in Seq(S) /\ Len(Tail(q)) = Len(q) - 1
         /\ \A i \in 1..Len(Tail(q)) : i + 1 \in 1..Len(q) /\ Tail(q)[i] = q[i + 1]
OBVIOUS

LEMMA AppendElements ==
  ASSUME NEW S, NEW q \in Seq(S), NEW e \in S
  PROVE  /\ Append(q, e) \in Seq(S)
         /\ Len(q) \in Nat /\ Len(Append(q, e)) = Len(q) + 1
         /\ Append(q, e)[Len(q) + 1] = e
         /\ \A i \in 1..Len(q) : Append(q, e)[i] = q[i]
OBVIOUS

(***************************************************************************)
(* Types and attempts                                                      *)
(***************************************************************************)

LEMMA InitTypeOK == Init => TypeOK /\ AttemptsInv
<1>1. <<(<<"Disconnected">>)>> \in Seq(Event)
  BY NewsEvents, ShortSequences
<1> QED
  BY <1>1 DEF Init, TypeOK, AttemptsInv, Zero

LEMMA RetryTypes ==
  ASSUME TypeOK, AttemptsInv, loop \notin {"ending", "ended"}, Retry
  PROVE  /\ loop' \in {"sleeping", "ending"}
         /\ outbox' \in Seq(Event)
         /\ attempts' \in 0..(MaxAttempts + 1)
         /\ loop' = "sleeping" => attempts' <= MaxAttempts
         /\ session' = {} /\ excused' = {} /\ refused' = {}
<1>1. attempts \in 0..MaxAttempts
  BY DEF TypeOK, AttemptsInv
<1>2. outbox' \in Seq(Event)
  BY NewsEvents, ShortSequences DEF Retry
<1> QED
  BY <1>1, <1>2 DEF Retry

LEMMA SendTypes ==
  ASSUME TypeOK, NEW t \in Topics, SendSubscribe(t)
  PROVE  /\ session' \subseteq Topics /\ excused' \subseteq Topics /\ refused' \subseteq Topics
         /\ outbox' \in Seq(Event)
<1>1. <<"Subscribed", t>> \in Event
  BY NewsEvents
<1>2. <<(<<"Subscribed", t>>)>> \in Seq(Event)
  BY <1>1, ShortSequences
<1> QED
  BY <1>2 DEF TypeOK, SendSubscribe

\* What a command is, and that the queue behind it stays one.
LEMMA CommandTypes ==
  ASSUME TypeOK, TakeCommand
  PROVE  /\ commands' \in Seq(Command) /\ Len(commands') <= CommandCap
         /\ Head(commands)[1] \in {"Subscribe", "Unsubscribe"} => Head(commands)[2] \in Topics
<1>1. commands \in Seq(Command) /\ commands # <<>> /\ commands' = Tail(commands)
      /\ Len(commands) <= CommandCap
  BY DEF TypeOK, TakeCommand
<1>2. Head(commands) \in Command
  BY <1>1, TailElements
<1>3. commands' \in Seq(Command) /\ Len(commands') <= CommandCap
  BY <1>1, TailElements
<1> QED
  BY <1>2, <1>3, CommandFacts

LEMMA StepAttempts == TypeOK /\ AttemptsInv /\ [Next]_vars => AttemptsInv'
<1> SUFFICES ASSUME TypeOK, AttemptsInv, [Next]_vars PROVE AttemptsInv'
  OBVIOUS
<1> USE DEF AttemptsInv, At, Goto, task, served
<1>1. CASE Connect
  BY <1>1 DEF Connect
<1>2. CASE ConnectFails \/ SessionBreaks
  BY <1>2, RetryTypes DEF ConnectFails, SessionBreaks
<1>3. CASE AuthFails \/ AuthSent \/ Wake \/ TaskEnds \/ Deliver
  BY <1>3 DEF AuthFails, AuthSent, Wake, TaskEnds, Deliver
<1>4. CASE Restore
  BY <1>4 DEF Restore
<1>5. CASE TakeCommand
  BY <1>5, RetryTypes DEF TakeCommand
<1>6. ASSUME NEW t \in Topics, Receive(t) PROVE AttemptsInv'
  BY <1>6 DEF Receive
<1>7. ASSUME NEW c \in Command, Call(c) PROVE AttemptsInv'
  BY <1>7 DEF Call
<1>8. ASSUME NEW t \in Topics, Refuse(t) PROVE AttemptsInv'
  BY <1>8 DEF Refuse
<1>9. CASE Take \/ UNCHANGED vars
  BY <1>9 DEF Take, vars
<1> QED
  BY <1>1, <1>2, <1>3, <1>4, <1>5, <1>6, <1>7, <1>8, <1>9 DEF Next, LoopStep

\* What the reader makes of an event keeps its books typed.
LEMMA TakeTypes ==
  ASSUME TypeOK, Take
  PROVE  /\ Head(events) \in Event
         /\ events' \in Seq(Event) /\ Len(events') <= EventCap
         /\ believed' \subseteq Topics
         /\ taken' \in [Topics -> 0..MaxVersion]
<1> DEFINE e == Head(events)
<1>1. events \in Seq(Event) /\ events # <<>> /\ events' = Tail(events) /\ Len(events) <= EventCap
  BY DEF TypeOK, Take
<1>2. e \in Event
  BY <1>1, TailElements
<1>3. events' \in Seq(Event) /\ Len(events') <= EventCap
  BY <1>1, TailElements
<1>4. believed' = Believing(believed, e) /\ believed \subseteq Topics
  BY DEF TypeOK, Take
<1> HIDE DEF e
<1>5. believed' \subseteq Topics
  BY <1>2, <1>4, EventFacts DEF Believing
<1>6. taken' \in [Topics -> 0..MaxVersion]
  <2>1. CASE e[1] = "Message"
    <3>1. e[2] \in Topics /\ e[3] \in 0..MaxVersion
      BY <1>2, <2>1, EventFacts
    <3>2. taken' = [taken EXCEPT ![e[2]] = e[3]]
      BY <2>1 DEF Take, e
    <3> QED
      BY <3>1, <3>2 DEF TypeOK
  <2>2. CASE e[1] # "Message"
    BY <2>2 DEF Take, TypeOK, e
  <2> QED
    BY <2>1, <2>2
<1> QED
  BY <1>2, <1>3, <1>5, <1>6 DEF e

LEMMA StepTypeOK == TypeOK /\ AttemptsInv /\ [Next]_vars => TypeOK'
<1> SUFFICES ASSUME TypeOK, AttemptsInv, [Next]_vars PROVE TypeOK'
  OBVIOUS
<1>0. ASSUME loop \notin {"ending", "ended"}, Retry
      PROVE  /\ loop' \in {"sleeping", "ending"}
             /\ outbox' \in Seq(Event)
             /\ attempts' \in 0..(MaxAttempts + 1)
             /\ session' = {} /\ excused' = {} /\ refused' = {}
  BY <1>0, RetryTypes
<1>d. <<(<<"Connected">>)>> \in Seq(Event) /\ <<(<<"Disconnected">>)>> \in Seq(Event)
      /\ <<>> \in Seq(Event)
  BY NewsEvents, ShortSequences
<1>r. ASSUME Restore PROVE TypeOK'
  <2>1. CASE todo = <<>>
    BY <1>r, <2>1 DEF Restore, TypeOK, At, served, reader
  <2>2. CASE todo # <<>>
    <3>0. todo \in Seq(Topics) /\ todo' = Tail(todo) /\ SendSubscribe(Head(todo))
      BY <1>r, <2>2 DEF Restore, TypeOK
    <3>1. Head(todo) \in Topics /\ todo' \in Seq(Topics) /\ SendSubscribe(Head(todo))
      BY <2>2, <3>0, TailElements
    <3>2. /\ session' \subseteq Topics /\ excused' \subseteq Topics /\ refused' \subseteq Topics
         /\ outbox' \in Seq(Event)
      BY <3>1, SendTypes
    <3> QED
      BY <1>r, <2>2, <3>1, <3>2 DEF Restore, TypeOK, At, served, reader
  <2> QED
    BY <2>1, <2>2
<1>c. ASSUME TakeCommand PROVE TypeOK'
  <2>0. /\ commands' \in Seq(Command) /\ Len(commands') <= CommandCap
        /\ Head(commands)[1] \in {"Subscribe", "Unsubscribe"} => Head(commands)[2] \in Topics
    BY <1>c, CommandTypes
  <2>1. CASE Head(commands)[1] = "Subscribe"
    <3>1. /\ session' \subseteq Topics /\ excused' \subseteq Topics /\ refused' \subseteq Topics
         /\ outbox' \in Seq(Event)
      BY <1>c, <2>0, <2>1, SendTypes DEF TakeCommand
    <3> QED
      BY <1>c, <2>0, <2>1, <3>1 DEF TakeCommand, TypeOK, served, reader
  <2>2. CASE Head(commands)[1] = "Unsubscribe"
    BY <1>c, <2>0, <2>2 DEF TakeCommand, Unsubscribe, TypeOK, served, reader
  <2>3. CASE Head(commands)[1] = "Shutdown"
    BY <1>c, <2>0, <2>3, <1>0 DEF TakeCommand, TypeOK, At, served, reader
  <2> QED
    BY <1>c, <2>1, <2>2, <2>3 DEF TakeCommand
<1>t. ASSUME Take PROVE TypeOK'
  BY <1>t, TakeTypes DEF Take, TypeOK, task, served
<1> USE DEF TypeOK, task, served, reader, At, Goto
<1>1. CASE Connect
  BY <1>1, <1>d DEF Connect
<1>2. CASE ConnectFails \/ SessionBreaks
  BY <1>0, <1>2 DEF ConnectFails, SessionBreaks
<1>3. CASE AuthFails \/ AuthSent \/ Wake
  BY <1>3, <1>d DEF AuthFails, AuthSent, Wake
<1>4. CASE TaskEnds
  BY <1>4, <1>d DEF TaskEnds
<1>5. CASE Deliver
  <2>1. Head(outbox) \in Event /\ outbox' \in Seq(Event)
    BY <1>5, TailElements DEF Deliver
  <2>2. events' \in Seq(Event) /\ Len(events') <= EventCap
    BY <1>5, <2>1, AppendElements DEF Deliver
  <2> QED
    BY <1>5, <2>1, <2>2 DEF Deliver
<1>6. ASSUME NEW t \in Topics, Receive(t) PROVE TypeOK'
  <2>1. version[t] + 1 \in 1..MaxVersion
    BY <1>6 DEF Receive
  <2>2. outbox' \in Seq(Event)
    BY <1>6, <2>1, NewsEvents, ShortSequences DEF Receive
  <2> QED
    BY <1>6, <2>1, <2>2 DEF Receive
<1>7. ASSUME NEW c \in Command, Call(c) PROVE TypeOK'
  <2>1. commands' \in Seq(Command) /\ Len(commands') <= CommandCap
    BY <1>7, AppendElements DEF Call
  <2> QED
    BY <1>7, <2>1 DEF Call
<1>8. ASSUME NEW t \in Topics, Refuse(t) PROVE TypeOK'
  BY <1>8 DEF Refuse
<1>9. CASE UNCHANGED vars
  BY <1>9 DEF vars
<1> QED
  BY <1>r, <1>c, <1>t, <1>1, <1>2, <1>3, <1>4, <1>5, <1>6, <1>7, <1>8, <1>9 DEF Next, LoopStep

(***************************************************************************)
(* Numbers                                                                 *)
(***************************************************************************)

\* A queue without messages of t lies between two equal numbers.
LEMMA NoMessages ==
  ASSUME NEW t, NEW b \in Nat, NEW q, \A i \in 1..Len(q) : ~IsMessage(q[i], t)
  PROVE  Numbered(t, b, q, b)
BY DEF Numbered

LEMMA EmptyNumbered ==
  ASSUME NEW t, NEW b \in Nat, NEW c \in Nat, Numbered(t, b, <<>>, c)
  PROVE  b = c
<1>1. b <= c /\ ~(b + 1 <= c)
  BY DEF Numbered
<1> QED
  BY <1>1

\* Taking an event: the first message of t is the next one, and the rest follow it.
LEMMA HeadNumbered ==
  ASSUME NEW t, NEW b \in Nat, NEW c \in Nat, NEW q \in Seq(Event), q # <<>>,
         Numbered(t, b, q, c), IsMessage(Head(q), t)
  PROVE  Head(q)[3] = b + 1 /\ b + 1 <= c /\ Numbered(t, b + 1, Tail(q), c)
<1> DEFINE r == Tail(q)
<1>1. /\ Head(q) = q[1] /\ Len(q) \in Nat /\ 1 \in 1..Len(q)
      /\ Len(r) = Len(q) - 1 /\ r \in Seq(Event)
      /\ \A i \in 1..Len(r) : i + 1 \in 1..Len(q) /\ r[i] = q[i + 1]
  BY TailElements
<1> HIDE DEF r
<1>2. \A i \in 1..Len(q) : IsMessage(q[i], t) => q[i][3] \in Nat
  <2> SUFFICES ASSUME NEW i \in 1..Len(q), IsMessage(q[i], t) PROVE q[i][3] \in Nat
    OBVIOUS
  <2>1. q[i] \in Event
    OBVIOUS
  <2> QED
    BY <2>1, EventFacts DEF IsMessage
<1>3. b < q[1][3] /\ q[1][3] <= c
  BY <1>1 DEF Numbered
<1>4. q[1][3] = b + 1
  <2>1. b + 1 \in (b + 1)..c
    BY <1>1, <1>2, <1>3
  <2>2. PICK i \in 1..Len(q) : IsMessage(q[i], t) /\ q[i][3] = b + 1
    BY <2>1 DEF Numbered
  <2>3. i = 1 \/ 1 < i
    BY <1>1
  <2>4. 1 < i => q[1][3] < q[i][3]
    BY <1>1, <2>2 DEF Numbered
  <2> QED
    BY <1>1, <1>2, <1>3, <2>2, <2>3, <2>4
<1>5. ASSUME NEW i \in 1..Len(r), IsMessage(r[i], t) PROVE b + 1 < r[i][3] /\ r[i][3] <= c
  <2>1. 1 < i + 1 /\ i + 1 \in 1..Len(q) /\ r[i] = q[i + 1]
    BY <1>1
  <2> QED
    BY <1>1, <1>4, <1>5, <2>1 DEF Numbered
<1>6. ASSUME NEW i \in 1..Len(r), NEW j \in 1..Len(r), IsMessage(r[i], t), IsMessage(r[j], t), i < j
      PROVE  r[i][3] < r[j][3]
  <2>1. /\ i + 1 < j + 1 /\ i + 1 \in 1..Len(q) /\ j + 1 \in 1..Len(q)
        /\ r[i] = q[i + 1] /\ r[j] = q[j + 1]
    BY <1>1, <1>6
  <2> QED
    BY <1>6, <2>1 DEF Numbered
<1>7. ASSUME NEW n \in ((b + 1) + 1)..c PROVE \E i \in 1..Len(r) : IsMessage(r[i], t) /\ r[i][3] = n
  <2>1. n \in (b + 1)..c
    OBVIOUS
  <2>2. PICK j \in 1..Len(q) : IsMessage(q[j], t) /\ q[j][3] = n
    BY <2>1 DEF Numbered
  <2>3. j # 1
    BY <1>4, <2>2
  <2>4. j - 1 \in 1..Len(r) /\ (j - 1) + 1 = j
    BY <1>1, <2>3
  <2>5. r[j - 1] = q[j]
    BY <1>1, <2>4
  <2> QED
    BY <2>2, <2>4, <2>5
<1>8. b + 1 <= c
  BY <1>3, <1>4
<1> QED
  BY <1>1, <1>4, <1>5, <1>6, <1>7, <1>8 DEF Numbered, r

LEMMA TailNumbered ==
  ASSUME NEW t, NEW b \in Nat, NEW c \in Nat, NEW q \in Seq(Event), q # <<>>,
         Numbered(t, b, q, c), ~IsMessage(Head(q), t)
  PROVE  Numbered(t, b, Tail(q), c)
<1> DEFINE r == Tail(q)
<1>1. /\ Head(q) = q[1] /\ Len(q) \in Nat
      /\ Len(r) = Len(q) - 1
      /\ \A i \in 1..Len(r) : i + 1 \in 1..Len(q) /\ r[i] = q[i + 1]
  BY TailElements
<1> HIDE DEF r
<1>2. ASSUME NEW i \in 1..Len(r), IsMessage(r[i], t) PROVE b < r[i][3] /\ r[i][3] <= c
  BY <1>1, <1>2 DEF Numbered
<1>3. ASSUME NEW i \in 1..Len(r), NEW j \in 1..Len(r), IsMessage(r[i], t), IsMessage(r[j], t), i < j
      PROVE  r[i][3] < r[j][3]
  <2>1. /\ i + 1 < j + 1 /\ i + 1 \in 1..Len(q) /\ j + 1 \in 1..Len(q)
        /\ r[i] = q[i + 1] /\ r[j] = q[j + 1]
    BY <1>1, <1>3
  <2> QED
    BY <1>3, <2>1 DEF Numbered
<1>4. ASSUME NEW n \in (b + 1)..c PROVE \E i \in 1..Len(r) : IsMessage(r[i], t) /\ r[i][3] = n
  <2>1. PICK j \in 1..Len(q) : IsMessage(q[j], t) /\ q[j][3] = n
    BY DEF Numbered
  <2>2. j # 1
    BY <1>1, <2>1
  <2>3. j - 1 \in 1..Len(r) /\ (j - 1) + 1 = j
    BY <1>1, <2>2
  <2>4. r[j - 1] = q[j]
    BY <1>1, <2>3
  <2> QED
    BY <2>1, <2>3, <2>4
<1>5. b <= c
  BY DEF Numbered
<1> QED
  BY <1>2, <1>3, <1>4, <1>5 DEF Numbered, r

\* Sending the next message of t.
LEMMA AppendNumbered ==
  ASSUME NEW t, NEW b \in Nat, NEW c \in Nat, NEW q \in Seq(Event), NEW e \in Event,
         Numbered(t, b, q, c), IsMessage(e, t), e[3] = c + 1
  PROVE  Numbered(t, b, Append(q, e), c + 1)
<1> DEFINE r == Append(q, e)
<1>1. /\ Len(q) \in Nat /\ Len(r) = Len(q) + 1 /\ r[Len(q) + 1] = e
      /\ \A i \in 1..Len(q) : r[i] = q[i]
  BY AppendElements
<1> HIDE DEF r
<1>2. \A i \in 1..Len(r) : i \in 1..Len(q) \/ i = Len(q) + 1
  BY <1>1
<1>3. b <= c /\ \A i \in 1..Len(q) : IsMessage(q[i], t) => b < q[i][3] /\ q[i][3] <= c
  BY DEF Numbered
<1>4. \A i \in 1..Len(q) : IsMessage(q[i], t) => q[i][3] \in Nat
  <2> SUFFICES ASSUME NEW i \in 1..Len(q), IsMessage(q[i], t) PROVE q[i][3] \in Nat
    OBVIOUS
  <2>1. q[i] \in Event
    OBVIOUS
  <2> QED
    BY <2>1, EventFacts DEF IsMessage
<1>5. ASSUME NEW i \in 1..Len(r), IsMessage(r[i], t) PROVE b < r[i][3] /\ r[i][3] <= c + 1
  <2>1. CASE i \in 1..Len(q)
    BY <1>1, <1>3, <1>4, <1>5, <2>1
  <2>2. CASE i = Len(q) + 1
    BY <1>1, <1>3, <2>2
  <2> QED
    BY <1>2, <2>1, <2>2
<1>6. ASSUME NEW i \in 1..Len(r), NEW j \in 1..Len(r), IsMessage(r[i], t), IsMessage(r[j], t), i < j
      PROVE  r[i][3] < r[j][3]
  <2>0. i \in 1..Len(q)
    BY <1>1, <1>6
  <2>1. CASE j \in 1..Len(q)
    BY <1>1, <1>6, <2>0, <2>1 DEF Numbered
  <2>2. CASE j = Len(q) + 1
    BY <1>1, <1>3, <1>4, <1>6, <2>0, <2>2
  <2> QED
    BY <1>2, <2>1, <2>2
<1>7. ASSUME NEW n \in (b + 1)..(c + 1) PROVE \E i \in 1..Len(r) : IsMessage(r[i], t) /\ r[i][3] = n
  <2>1. CASE n = c + 1
    <3>1. Len(q) + 1 \in 1..Len(r)
      BY <1>1
    <3> QED
      BY <1>1, <2>1, <3>1
  <2>2. CASE n # c + 1
    <3>1. n \in (b + 1)..c
      BY <2>2
    <3>2. PICK i \in 1..Len(q) : IsMessage(q[i], t) /\ q[i][3] = n
      BY <3>1 DEF Numbered
    <3>3. i \in 1..Len(r)
      BY <1>1
    <3> QED
      BY <1>1, <3>2, <3>3
  <2> QED
    BY <2>1, <2>2
<1>8. b <= c + 1
  BY <1>3
<1>9. Numbered(t, b, r, c + 1)
  BY <1>5, <1>6, <1>7, <1>8 DEF Numbered
<1> QED
  BY <1>9 DEF r

LEMMA AppendOther ==
  ASSUME NEW t, NEW b \in Nat, NEW c \in Nat, NEW q \in Seq(Event), NEW e \in Event,
         Numbered(t, b, q, c), ~IsMessage(e, t)
  PROVE  Numbered(t, b, Append(q, e), c)
<1> DEFINE r == Append(q, e)
<1>1. /\ Len(q) \in Nat /\ Len(r) = Len(q) + 1 /\ r[Len(q) + 1] = e
      /\ \A i \in 1..Len(q) : r[i] = q[i]
  BY AppendElements
<1> HIDE DEF r
<1>2. \A i \in 1..Len(r) : IsMessage(r[i], t) => i \in 1..Len(q)
  BY <1>1
<1>3. ASSUME NEW n \in (b + 1)..c PROVE \E i \in 1..Len(r) : IsMessage(r[i], t) /\ r[i][3] = n
  <2>1. PICK i \in 1..Len(q) : IsMessage(q[i], t) /\ q[i][3] = n
    BY DEF Numbered
  <2>2. i \in 1..Len(r)
    BY <1>1
  <2> QED
    BY <1>1, <2>1, <2>2
<1>4. b <= c
  BY DEF Numbered
<1>5. \A i \in 1..Len(r) : IsMessage(r[i], t) => b < r[i][3] /\ r[i][3] <= c
  BY <1>1, <1>2 DEF Numbered
<1>6. \A i, j \in 1..Len(r) : IsMessage(r[i], t) /\ IsMessage(r[j], t) /\ i < j => r[i][3] < r[j][3]
  BY <1>1, <1>2 DEF Numbered
<1> QED
  BY <1>3, <1>4, <1>5, <1>6 DEF Numbered, r

\* One message, the next of its topic, in an empty outbox.
LEMMA OneNumbered ==
  ASSUME NEW t, NEW b \in Nat, NEW e, IsMessage(e, t), e[3] = b + 1
  PROVE  Numbered(t, b, <<e>>, b + 1)
<1>1. Len(<<e>>) = 1 /\ <<e>>[1] = e
  OBVIOUS
<1>2. \A n \in (b + 1)..(b + 1) : n = b + 1
  OBVIOUS
<1> QED
  BY <1>1, <1>2 DEF Numbered

LEMMA InitNumbersInv == Init => NumbersInv
<1> SUFFICES ASSUME Init, NEW t \in Topics
             PROVE  \E m \in Nat : Numbered(t, taken[t], events, m) /\ Numbered(t, m, outbox, version[t])
  BY DEF NumbersInv
<1>1. taken[t] = 0 /\ version[t] = 0 /\ events = <<>> /\ outbox = <<(<<"Disconnected">>)>>
  BY DEF Init, Zero
<1>2. Numbered(t, 0, <<>>, 0) /\ Numbered(t, 0, <<(<<"Disconnected">>)>>, 0)
  BY NoMessages DEF IsMessage
<1> QED
  BY <1>1, <1>2

LEMMA NumbersUnchanged ==
  ASSUME NumbersInv, outbox' = outbox, events' = events, taken' = taken, version' = version
  PROVE  NumbersInv'
BY DEF NumbersInv

\* The task puts news into an empty outbox.
LEMMA NewsNumbered ==
  ASSUME TypeOK, NumbersInv, outbox = <<>>, events' = events, taken' = taken, version' = version,
         \A i \in 1..Len(outbox') : outbox'[i][1] # "Message"
  PROVE  NumbersInv'
<1> SUFFICES ASSUME NEW t \in Topics
             PROVE  \E m \in Nat : Numbered(t, taken[t], events, m) /\ Numbered(t, m, outbox', version[t])
  BY DEF NumbersInv
<1>1. PICK m \in Nat : Numbered(t, taken[t], events, m) /\ Numbered(t, m, <<>>, version[t])
  BY DEF NumbersInv
<1>2. version[t] \in Nat
  BY DEF TypeOK
<1>3. m = version[t]
  BY <1>1, <1>2, EmptyNumbered
<1>4. Numbered(t, m, outbox', m)
  BY NoMessages DEF IsMessage
<1> QED
  BY <1>1, <1>3, <1>4

LEMMA RetryNumbered ==
  ASSUME TypeOK, NumbersInv, outbox = <<>>, Retry,
         events' = events, taken' = taken, version' = version
  PROVE  NumbersInv'
<1>1. \A i \in 1..Len(outbox') : outbox'[i][1] # "Message"
  BY DEF Retry
<1> QED
  BY <1>1, NewsNumbered

LEMMA SendNumbered ==
  ASSUME TypeOK, NumbersInv, outbox = <<>>, NEW t \in Topics, SendSubscribe(t),
         events' = events, taken' = taken, version' = version
  PROVE  NumbersInv'
<1>1. \A i \in 1..Len(outbox') : outbox'[i][1] # "Message"
  BY DEF SendSubscribe
<1> QED
  BY <1>1, NewsNumbered

LEMMA DeliverNumbered == TypeOK /\ NumbersInv /\ Deliver => NumbersInv'
<1> SUFFICES ASSUME TypeOK, NumbersInv, Deliver, NEW t \in Topics
             PROVE  \E m \in Nat : Numbered(t, taken[t], events', m) /\ Numbered(t, m, outbox', version[t])
  BY DEF NumbersInv, Deliver, reader
<1> DEFINE e == Head(outbox)
<1>0. /\ outbox \in Seq(Event) /\ outbox # <<>> /\ events \in Seq(Event)
      /\ events' = Append(events, e) /\ outbox' = Tail(outbox)
  BY DEF TypeOK, Deliver
<1>1. e \in Event
  BY <1>0, TailElements
<1>2. PICK m \in Nat : Numbered(t, taken[t], events, m) /\ Numbered(t, m, outbox, version[t])
  BY DEF NumbersInv
<1>3. PICK b \in Nat, c \in Nat : b = taken[t] /\ c = version[t]
  BY DEF TypeOK
<1>4. CASE IsMessage(e, t)
  <2>1. e[3] = m + 1 /\ m + 1 <= c /\ Numbered(t, m + 1, Tail(outbox), c)
    BY <1>0, <1>2, <1>3, <1>4, HeadNumbered
  <2>2. Numbered(t, b, Append(events, e), m + 1)
    BY <1>0, <1>1, <1>2, <1>3, <1>4, <2>1, AppendNumbered
  <2> QED
    BY <1>0, <1>3, <2>1, <2>2
<1>5. CASE ~IsMessage(e, t)
  <2>1. Numbered(t, m, Tail(outbox), c)
    BY <1>0, <1>2, <1>3, <1>5, TailNumbered
  <2>2. Numbered(t, b, Append(events, e), m)
    BY <1>0, <1>1, <1>2, <1>3, <1>5, AppendOther
  <2> QED
    BY <1>0, <1>3, <2>1, <2>2
<1> QED
  BY <1>4, <1>5

LEMMA ReceiveNumbered ==
  ASSUME TypeOK, NumbersInv, NEW u \in Topics, Receive(u)
  PROVE  NumbersInv'
<1> DEFINE e == <<"Message", u, version[u] + 1>>
<1>0. /\ outbox = <<>> /\ outbox' = <<e>> /\ events' = events /\ taken' = taken
      /\ version \in [Topics -> 0..MaxVersion] /\ version' = [version EXCEPT ![u] = @ + 1]
  BY DEF Receive, At, reader, TypeOK
<1> SUFFICES ASSUME NEW t \in Topics
             PROVE  \E m \in Nat : Numbered(t, taken[t], events, m) /\ Numbered(t, m, <<e>>, version'[t])
  BY <1>0 DEF NumbersInv
<1>1. PICK m \in Nat : Numbered(t, taken[t], events, m) /\ Numbered(t, m, <<>>, version[t])
  BY <1>0 DEF NumbersInv
<1>2. version[t] \in Nat
  BY <1>0
<1>3. m = version[t]
  BY <1>1, <1>2, EmptyNumbered
<1>4. CASE t = u
  <2>1. IsMessage(e, t) /\ e[3] = m + 1
    BY <1>3, <1>4 DEF IsMessage
  <2>2. Numbered(t, m, <<e>>, m + 1)
    BY <2>1, OneNumbered
  <2>3. version'[t] = m + 1
    BY <1>0, <1>3, <1>4
  <2> QED
    BY <1>1, <2>2, <2>3
<1>5. CASE t # u
  <2>1. ~IsMessage(e, t)
    BY <1>5 DEF IsMessage
  <2>2. Numbered(t, m, <<e>>, m)
    BY <2>1, NoMessages
  <2>3. version'[t] = m
    BY <1>0, <1>3, <1>5
  <2> QED
    BY <1>1, <2>2, <2>3
<1> QED
  BY <1>4, <1>5

LEMMA TakeNumbered == TypeOK /\ NumbersInv /\ Take => NumbersInv'
<1> SUFFICES ASSUME TypeOK, NumbersInv, Take, NEW t \in Topics
             PROVE  \E m \in Nat : Numbered(t, taken'[t], events', m) /\ Numbered(t, m, outbox, version[t])
  BY DEF NumbersInv, Take, task
<1> DEFINE e == Head(events)
<1>0. /\ events \in Seq(Event) /\ events # <<>> /\ events' = Tail(events)
      /\ taken \in [Topics -> 0..MaxVersion]
      /\ e[1] = "Message" => taken' = [taken EXCEPT ![e[2]] = e[3]]
      /\ e[1] # "Message" => taken' = taken
  BY DEF TypeOK, Take
<1>2. PICK m \in Nat : Numbered(t, taken[t], events, m) /\ Numbered(t, m, outbox, version[t])
  BY DEF NumbersInv
<1>3. PICK b \in Nat : b = taken[t]
  BY DEF TypeOK
<1>4. CASE IsMessage(e, t)
  <2>1. e[3] = b + 1 /\ b + 1 <= m /\ Numbered(t, b + 1, Tail(events), m)
    BY <1>0, <1>2, <1>3, <1>4, HeadNumbered
  <2>2. taken'[t] = b + 1
    BY <1>0, <1>4, <2>1 DEF IsMessage
  <2> QED
    BY <1>0, <1>2, <2>1, <2>2
<1>5. CASE ~IsMessage(e, t)
  <2>1. Numbered(t, b, Tail(events), m)
    BY <1>0, <1>2, <1>3, <1>5, TailNumbered
  <2>2. taken'[t] = b
    BY <1>0, <1>3, <1>5 DEF IsMessage
  <2> QED
    BY <1>0, <1>2, <2>1, <2>2
<1> QED
  BY <1>4, <1>5

LEMMA StepNumbersInv == TypeOK /\ NumbersInv /\ [Next]_vars => NumbersInv'
<1> SUFFICES ASSUME TypeOK, NumbersInv, [Next]_vars PROVE NumbersInv'
  OBVIOUS
<1>1. CASE Connect \/ AuthFails \/ AuthSent \/ Wake \/ TaskEnds
  <2>1. \A i \in 1..Len(outbox') : outbox'[i][1] # "Message"
    BY <1>1 DEF Connect, AuthFails, AuthSent, Wake, TaskEnds, Goto
  <2> QED
    BY <1>1, <2>1, NewsNumbered DEF Connect, AuthFails, AuthSent, Wake, TaskEnds, Goto, At, reader
<1>2. CASE ConnectFails \/ SessionBreaks
  BY <1>2, RetryNumbered DEF ConnectFails, SessionBreaks, At, reader
<1>3. CASE Restore
  <2>1. CASE todo = <<>>
    BY <1>3, <2>1, NumbersUnchanged DEF Restore, reader
  <2>2. CASE todo # <<>>
    <3>1. Head(todo) \in Topics
      BY <2>2, TailElements DEF TypeOK
    <3> QED
      BY <1>3, <2>2, <3>1, SendNumbered DEF Restore, At, reader
  <2> QED
    BY <2>1, <2>2
<1>4. CASE TakeCommand
  <2>1. CASE Head(commands)[1] = "Subscribe"
    BY <1>4, <2>1, CommandTypes, SendNumbered DEF TakeCommand, At, reader
  <2>2. CASE Head(commands)[1] = "Unsubscribe"
    BY <1>4, <2>2, NumbersUnchanged DEF TakeCommand, Unsubscribe, reader
  <2>3. CASE Head(commands)[1] = "Shutdown"
    BY <1>4, <2>3, RetryNumbered DEF TakeCommand, At, reader
  <2> QED
    BY <1>4, <2>1, <2>2, <2>3 DEF TakeCommand
<1>5. CASE Deliver \/ Take
  BY <1>5, DeliverNumbered, TakeNumbered
<1>6. ASSUME NEW t \in Topics, Receive(t) PROVE NumbersInv'
  BY <1>6, ReceiveNumbered
<1>7. ASSUME NEW c \in Command, Call(c) PROVE NumbersInv'
  BY <1>7, NumbersUnchanged DEF Call, task, reader
<1>8. ASSUME NEW t \in Topics, Refuse(t) PROVE NumbersInv'
  BY <1>8, NumbersUnchanged DEF Refuse, reader
<1>9. CASE UNCHANGED vars
  BY <1>9, NumbersUnchanged DEF vars, task, reader
<1> QED
  BY <1>1, <1>2, <1>3, <1>4, <1>5, <1>6, <1>7, <1>8, <1>9 DEF Next, LoopStep

(***************************************************************************)
(* Beliefs                                                                 *)
(***************************************************************************)

\* Taking an event first or last, for the resets and the subscriptions of a queue.
LEMMA TailResets ==
  ASSUME NEW q \in Seq(Event), q # <<>>
  PROVE  NoReset(q) <=> (~Resets(Head(q)) /\ NoReset(Tail(q)))
<1> DEFINE r == Tail(q)
<1>1. /\ Head(q) = q[1] /\ Len(q) \in Nat /\ 1 \in 1..Len(q) /\ Len(r) = Len(q) - 1
      /\ \A i \in 1..Len(r) : i + 1 \in 1..Len(q) /\ r[i] = q[i + 1]
  BY TailElements
<1> HIDE DEF r
<1>2. ASSUME ~Resets(q[1]), NoReset(r), NEW i \in 1..Len(q) PROVE ~Resets(q[i])
  <2>1. CASE i = 1
    BY <1>2, <2>1
  <2>2. CASE i # 1
    <3>1. i - 1 \in 1..Len(r) /\ (i - 1) + 1 = i
      BY <1>1, <2>2
    <3>2. r[i - 1] = q[i] /\ ~Resets(r[i - 1])
      BY <1>1, <1>2, <3>1 DEF NoReset
    <3> QED
      BY <3>2
  <2> QED
    BY <2>1, <2>2
<1>3. ASSUME NoReset(q) PROVE ~Resets(q[1]) /\ NoReset(r)
  BY <1>1, <1>3 DEF NoReset
<1>4. NoReset(q) <=> (~Resets(q[1]) /\ NoReset(r))
  BY <1>2, <1>3 DEF NoReset
<1> QED
  BY <1>1, <1>4 DEF r

LEMMA TailAnnounced ==
  ASSUME NEW q \in Seq(Event), q # <<>>, NEW t
  PROVE  Announced(q, t) <=>
           (Announced(Tail(q), t) \/ (Subscribes(Head(q), t) /\ NoReset(Tail(q))))
<1> DEFINE r == Tail(q)
<1>1. /\ Head(q) = q[1] /\ Len(q) \in Nat /\ 1 \in 1..Len(q) /\ Len(r) = Len(q) - 1
      /\ \A i \in 1..Len(r) : i + 1 \in 1..Len(q) /\ r[i] = q[i + 1]
  BY TailElements
<1> HIDE DEF r
<1>2. ASSUME Announced(r, t) PROVE Announced(q, t)
  <2>1. PICK i \in 1..Len(r) : Subscribes(r[i], t) /\ \A j \in 1..Len(r) : i < j => ~Resets(r[j])
    BY <1>2 DEF Announced
  <2>2. i + 1 \in 1..Len(q) /\ Subscribes(q[i + 1], t)
    BY <1>1, <2>1
  <2>3. ASSUME NEW j \in 1..Len(q), i + 1 < j PROVE ~Resets(q[j])
    <3>1. j - 1 \in 1..Len(r) /\ (j - 1) + 1 = j /\ i < j - 1
      BY <1>1, <2>3
    <3>2. r[j - 1] = q[j] /\ ~Resets(r[j - 1])
      BY <1>1, <2>1, <3>1
    <3> QED
      BY <3>2
  <2> QED
    BY <2>2, <2>3 DEF Announced
<1>3. ASSUME Subscribes(q[1], t), NoReset(r) PROVE Announced(q, t)
  <2>1. ASSUME NEW j \in 1..Len(q), 1 < j PROVE ~Resets(q[j])
    <3>1. j - 1 \in 1..Len(r) /\ (j - 1) + 1 = j
      BY <1>1, <2>1
    <3>2. r[j - 1] = q[j] /\ ~Resets(r[j - 1])
      BY <1>1, <1>3, <3>1 DEF NoReset
    <3> QED
      BY <3>2
  <2> QED
    BY <1>1, <1>3, <2>1 DEF Announced
<1>4. ASSUME Announced(q, t), ~Announced(r, t) PROVE Subscribes(q[1], t) /\ NoReset(r)
  <2>1. PICK i \in 1..Len(q) : Subscribes(q[i], t) /\ \A j \in 1..Len(q) : i < j => ~Resets(q[j])
    BY <1>4 DEF Announced
  <2>2. CASE i = 1
    <3>1. \A j \in 1..Len(r) : ~Resets(r[j])
      <4> SUFFICES ASSUME NEW j \in 1..Len(r) PROVE ~Resets(r[j])
        OBVIOUS
      <4>1. j + 1 \in 1..Len(q) /\ 1 < j + 1 /\ r[j] = q[j + 1]
        BY <1>1
      <4> QED
        BY <2>1, <2>2, <4>1
    <3> QED
      BY <2>1, <2>2, <3>1 DEF NoReset
  <2>3. CASE i # 1
    <3>1. i - 1 \in 1..Len(r) /\ (i - 1) + 1 = i
      BY <1>1, <2>3
    <3>2. Subscribes(r[i - 1], t)
      BY <1>1, <2>1, <3>1
    <3>3. ASSUME NEW j \in 1..Len(r), i - 1 < j PROVE ~Resets(r[j])
      <4>1. j + 1 \in 1..Len(q) /\ i < j + 1 /\ r[j] = q[j + 1]
        BY <1>1, <3>3
      <4> QED
        BY <2>1, <4>1
    <3>4. Announced(r, t)
      BY <3>1, <3>2, <3>3 DEF Announced
    <3> QED
      BY <1>4, <3>4
  <2> QED
    BY <2>2, <2>3
<1>5. Announced(q, t) <=> (Announced(r, t) \/ (Subscribes(q[1], t) /\ NoReset(r)))
  BY <1>2, <1>3, <1>4
<1> QED
  BY <1>1, <1>5 DEF r

LEMMA AppendResets ==
  ASSUME NEW q \in Seq(Event), NEW e \in Event
  PROVE  NoReset(Append(q, e)) <=> (NoReset(q) /\ ~Resets(e))
<1> DEFINE r == Append(q, e)
<1>1. /\ Len(q) \in Nat /\ Len(r) = Len(q) + 1 /\ r[Len(q) + 1] = e
      /\ \A i \in 1..Len(q) : r[i] = q[i]
  BY AppendElements
<1> HIDE DEF r
<1>2. \A i \in 1..Len(r) : i \in 1..Len(q) \/ i = Len(q) + 1
  BY <1>1
<1>3. \A i \in 1..Len(q) : i \in 1..Len(r)
  BY <1>1
<1>4. Len(q) + 1 \in 1..Len(r)
  BY <1>1
<1>5. NoReset(r) <=> (NoReset(q) /\ ~Resets(e))
  BY <1>1, <1>2, <1>3, <1>4 DEF NoReset
<1> QED
  BY <1>5 DEF r

LEMMA AppendAnnounced ==
  ASSUME NEW q \in Seq(Event), NEW e \in Event, NEW t
  PROVE  Announced(Append(q, e), t) <=>
           ((Announced(q, t) /\ ~Resets(e)) \/ Subscribes(e, t))
<1> DEFINE r == Append(q, e)
<1>1. /\ Len(q) \in Nat /\ Len(r) = Len(q) + 1 /\ r[Len(q) + 1] = e
      /\ \A i \in 1..Len(q) : r[i] = q[i]
  BY AppendElements
<1> HIDE DEF r
<1>2. \A i \in 1..Len(r) : i \in 1..Len(q) \/ i = Len(q) + 1
  BY <1>1
<1>3. /\ \A i \in 1..Len(q) : i \in 1..Len(r) /\ i < Len(q) + 1
      /\ Len(q) + 1 \in 1..Len(r)
  BY <1>1
<1>4. ASSUME Announced(q, t), ~Resets(e) PROVE Announced(r, t)
  <2>1. PICK i \in 1..Len(q) : Subscribes(q[i], t) /\ \A j \in 1..Len(q) : i < j => ~Resets(q[j])
    BY <1>4 DEF Announced
  <2>2. \A j \in 1..Len(r) : i < j => ~Resets(r[j])
    BY <1>1, <1>2, <1>4, <2>1
  <2> QED
    BY <1>1, <1>3, <2>1, <2>2 DEF Announced
<1>5. ASSUME Subscribes(e, t) PROVE Announced(r, t)
  <2>1. \A j \in 1..Len(r) : ~(Len(q) + 1 < j)
    BY <1>1
  <2> QED
    BY <1>1, <1>3, <1>5, <2>1 DEF Announced
<1>6. ASSUME Announced(r, t), ~Subscribes(e, t) PROVE Announced(q, t) /\ ~Resets(e)
  <2>1. PICK i \in 1..Len(r) : Subscribes(r[i], t) /\ \A j \in 1..Len(r) : i < j => ~Resets(r[j])
    BY <1>6 DEF Announced
  <2>2. i \in 1..Len(q)
    BY <1>1, <1>2, <1>6, <2>1
  <2>3. ~Resets(e)
    BY <1>1, <1>3, <2>1, <2>2
  <2>4. Announced(q, t)
    BY <1>1, <1>3, <2>1, <2>2 DEF Announced
  <2> QED
    BY <2>3, <2>4
<1>7. Announced(r, t) <=> ((Announced(q, t) /\ ~Resets(e)) \/ Subscribes(e, t))
  BY <1>4, <1>5, <1>6
<1> QED
  BY <1>7 DEF r

\* Membership in what is believed after one event.
LEMMA Believed ==
  ASSUME NEW B, NEW e \in Event, NEW t
  PROVE  t \in Believing(B, e) <=> ((t \in B /\ ~Resets(e)) \/ Subscribes(e, t))
BY EventFacts DEF Believing, Resets, Subscribes

\* The reader takes an event: the outlook stays.
LEMMA AfterTail ==
  ASSUME NEW B, NEW q \in Seq(Event), q # <<>>
  PROVE  After(Believing(B, Head(q)), Tail(q)) = After(B, q)
<1>1. Head(q) \in Event
  BY TailElements
<1> SUFFICES ASSUME NEW t \in Topics
             PROVE  t \in After(Believing(B, Head(q)), Tail(q)) <=> t \in After(B, q)
  BY DEF After
<1>2. t \in After(Believing(B, Head(q)), Tail(q)) <=>
        (((t \in B /\ ~Resets(Head(q))) \/ Subscribes(Head(q), t)) /\ NoReset(Tail(q)))
          \/ Announced(Tail(q), t)
  BY <1>1, Believed DEF After
<1>3. t \in After(B, q) <=>
        (t \in B /\ ~Resets(Head(q)) /\ NoReset(Tail(q)))
          \/ (Announced(Tail(q), t) \/ (Subscribes(Head(q), t) /\ NoReset(Tail(q))))
  BY TailResets, TailAnnounced DEF After
<1> QED
  BY <1>2, <1>3

\* The task sends one.
LEMMA AfterAppend ==
  ASSUME NEW B, NEW q \in Seq(Event), NEW e \in Event
  PROVE  After(B, Append(q, e)) = Believing(After(B, q), e)
<1>1. ASSUME NEW t \in Topics
      PROVE  t \in After(B, Append(q, e)) <=> t \in Believing(After(B, q), e)
  <2>1. t \in After(B, Append(q, e)) <=>
          (t \in B /\ NoReset(q) /\ ~Resets(e))
            \/ ((Announced(q, t) /\ ~Resets(e)) \/ Subscribes(e, t))
    BY AppendResets, AppendAnnounced DEF After
  <2>2. t \in Believing(After(B, q), e) <=>
          ((((t \in B /\ NoReset(q)) \/ Announced(q, t)) /\ ~Resets(e)) \/ Subscribes(e, t))
    BY Believed DEF After
  <2> QED
    BY <2>1, <2>2
<1>2. After(B, Append(q, e)) \subseteq Topics
  BY DEF After
<1>3. Believing(After(B, q), e) \subseteq Topics
  BY EventFacts DEF After, Believing
<1> QED
  BY <1>1, <1>2, <1>3

LEMMA AfterEmpty ==
  ASSUME NEW B, B \subseteq Topics
  PROVE  After(B, <<>>) = B
BY DEF After, NoReset, Announced

LEMMA AfterOne ==
  ASSUME NEW B, B \subseteq Topics, NEW e \in Event
  PROVE  After(B, <<e>>) = Believing(B, e)
<1>1. <<e>> = Append(<<>>, e) /\ <<>> \in Seq(Event)
  OBVIOUS
<1>2. After(B, Append(<<>>, e)) = Believing(After(B, <<>>), e)
  BY <1>1, AfterAppend
<1> QED
  BY <1>1, <1>2, AfterEmpty

(***************************************************************************)
(* The session                                                             *)
(***************************************************************************)

LEMMA OutlookOfEmpty ==
  ASSUME outbox = <<>>
  PROVE  Outlook = After(believed, events)
<1>1. After(believed, events) \subseteq Topics
  BY DEF After
<1> QED
  BY <1>1, AfterEmpty DEF Outlook

\* One event into an empty outbox.
LEMMA OutlookOfOne ==
  ASSUME outbox = <<>>, NEW e \in Event, outbox' = <<e>>, events' = events, believed' = believed
  PROVE  Outlook' = Believing(Outlook, e)
<1>1. After(believed, events) \subseteq Topics
  BY DEF After
<1>2. After(After(believed, events), <<e>>) = Believing(After(believed, events), e)
  BY <1>1, AfterOne
<1> QED
  BY <1>2, OutlookOfEmpty DEF Outlook

LEMMA OutlookUnchanged ==
  ASSUME outbox' = outbox, events' = events, believed' = believed
  PROVE  Outlook' = Outlook
BY DEF Outlook

LEMMA DeliverOutlook ==
  ASSUME TypeOK, Deliver
  PROVE  Outlook' = Outlook
<1> DEFINE e == Head(outbox)
           x == After(believed, events)
<1>1. /\ outbox \in Seq(Event) /\ outbox # <<>> /\ events \in Seq(Event)
      /\ events' = Append(events, e) /\ outbox' = Tail(outbox) /\ believed' = believed
  BY DEF TypeOK, Deliver, reader
<1>2. e \in Event
  BY <1>1, TailElements
<1>3. After(believed, Append(events, e)) = Believing(x, e)
  BY <1>1, <1>2, AfterAppend
<1>4. After(Believing(x, e), Tail(outbox)) = After(x, outbox)
  BY <1>1, AfterTail
<1> QED
  BY <1>1, <1>3, <1>4 DEF Outlook

LEMMA TakeOutlook ==
  ASSUME TypeOK, Take
  PROVE  Outlook' = Outlook
<1>1. /\ events \in Seq(Event) /\ events # <<>> /\ events' = Tail(events)
      /\ believed' = Believing(believed, Head(events)) /\ outbox' = outbox
  BY DEF TypeOK, Take, task
<1>2. After(Believing(believed, Head(events)), Tail(events)) = After(believed, events)
  BY <1>1, AfterTail
<1> QED
  BY <1>1, <1>2 DEF Outlook

\* A subscribe message, sent or not, keeps outlook and session together.
LEMMA SendSession ==
  ASSUME TypeOK, outbox = <<>>, session \subseteq Outlook, Outlook \ session \subseteq Lost,
         NEW t \in Topics, SendSubscribe(t), events' = events, believed' = believed
  PROVE  /\ session' \subseteq Outlook' /\ Outlook' \ session' \subseteq Lost'
         /\ session \cup Lost \cup {t} \subseteq session' \cup Lost'
<1>1. ASSUME session' = session \cup {t}, Lost' = Lost \ {t},
             outbox' = <<(<<"Subscribed", t>>)>>
      PROVE  /\ session' \subseteq Outlook' /\ Outlook' \ session' \subseteq Lost'
             /\ session \cup Lost \cup {t} \subseteq session' \cup Lost'
  <2>1. Outlook' = Believing(Outlook, <<"Subscribed", t>>)
    BY <1>1, NewsEvents, OutlookOfOne
  <2>2. Outlook' = Outlook \cup {t}
    BY <2>1 DEF Believing
  <2> QED
    BY <1>1, <2>2
<1>2. ASSUME Lost' = Lost \cup {t}, session' = session, outbox' = outbox
      PROVE  /\ session' \subseteq Outlook' /\ Outlook' \ session' \subseteq Lost'
             /\ session \cup Lost \cup {t} \subseteq session' \cup Lost'
  <2>1. Outlook' = Outlook
    BY <1>2, OutlookUnchanged
  <2> QED
    BY <1>2, <2>1
<1> QED
  BY <1>1, <1>2 DEF SendSubscribe, Lost

LEMMA StepSessionInv == TypeOK /\ SessionInv /\ [Next]_vars => SessionInv'
<1> SUFFICES ASSUME TypeOK, SessionInv, [Next]_vars PROVE SessionInv'
  OBVIOUS
<1> DEFINE Config == {Configured[i] : i \in DOMAIN Configured}
<1>1. CASE Connect
  <2>1. /\ outbox = <<>> /\ outbox' = <<(<<"Connected">>)>>
        /\ events' = events /\ believed' = believed
        /\ loop' \in {"authenticating", "restoring"} /\ session' = {} /\ Lost' = {}
        /\ todo' = Configured
    BY <1>1 DEF Connect, Goto, At, reader, Lost
  <2>2. Outlook' = Believing(Outlook, <<"Connected">>)
    BY <2>1, NewsEvents, OutlookOfOne
  <2>3. Outlook' = {}
    BY <2>2 DEF Believing
  <2> QED
    BY <2>1, <2>3 DEF SessionInv, InTodo
<1>2. CASE AuthSent
  <2>1. Outlook' = Outlook
    BY <1>2, OutlookUnchanged DEF AuthSent, Goto, At, reader
  <2> QED
    BY <1>2, <2>1 DEF AuthSent, Goto, At, SessionInv, InTodo, served, Lost
<1>3. CASE Restore
  <2>1. CASE todo = <<>>
    <3>1. Outlook' = Outlook
      BY <1>3, <2>1, OutlookUnchanged DEF Restore, reader
    <3>2. InTodo = {}
      BY <2>1 DEF InTodo
    <3> QED
      BY <1>3, <2>1, <3>1, <3>2 DEF Restore, At, SessionInv, served, Lost
  <2>2. CASE todo # <<>>
    <3>0. /\ todo \in Seq(Topics) /\ todo' = Tail(todo) /\ SendSubscribe(Head(todo))
          /\ loop = "restoring" /\ loop' = "restoring" /\ outbox = <<>>
          /\ events' = events /\ believed' = believed
      BY <1>3, <2>2 DEF Restore, At, reader, TypeOK
    <3>1. Head(todo) \in Topics
      BY <2>2, <3>0, TailElements
    <3>2. /\ session' \subseteq Outlook' /\ Outlook' \ session' \subseteq Lost'
          /\ session \cup Lost \cup {Head(todo)} \subseteq session' \cup Lost'
      BY <3>0, <3>1, SendSession DEF SessionInv
    <3>3. InTodo \subseteq {Head(todo)} \cup InTodo'
      <4> SUFFICES ASSUME NEW i \in 1..Len(todo)
                   PROVE  todo[i] = Head(todo) \/ \E j \in 1..Len(todo') : todo[i] = todo'[j]
        <5>1. todo' \in Seq(Topics)
          BY <2>2, <3>0, TailElements
        <5>2. DOMAIN todo' = 1..Len(todo') /\ DOMAIN todo = 1..Len(todo)
          BY <3>0, <5>1
        <5> QED
          BY <5>2 DEF InTodo
      <4>1. CASE i = 1
        BY <2>2, <3>0, <4>1, TailElements
      <4>2. CASE i # 1
        <5>1. /\ Len(todo') = Len(todo) - 1 /\ Len(todo) \in Nat
              /\ \A j \in 1..Len(todo') : todo'[j] = todo[j + 1]
          BY <2>2, <3>0, TailElements
        <5>2. i - 1 \in 1..Len(todo') /\ (i - 1) + 1 = i
          BY <4>2, <5>1
        <5>3. todo'[i - 1] = todo[i]
          BY <5>1, <5>2
        <5> QED
          BY <5>2, <5>3
      <4> QED
        BY <4>1, <4>2
    <3> QED
      BY <3>0, <3>2, <3>3 DEF SessionInv
  <2> QED
    BY <2>1, <2>2
<1>4. CASE TakeCommand
  <2>0. /\ loop = "running" /\ outbox = <<>> /\ events' = events /\ believed' = believed
        /\ session \subseteq Outlook /\ Outlook \ session \subseteq Lost
        /\ Config \subseteq session \cup Lost
        /\ Head(commands)[1] \in {"Subscribe", "Unsubscribe"} => Head(commands)[2] \in Topics
    BY <1>4, CommandTypes DEF TakeCommand, At, reader, SessionInv
  <2>1. CASE Head(commands)[1] = "Subscribe"
    <3>1. loop' = loop /\ SendSubscribe(Head(commands)[2])
      BY <1>4, <2>1 DEF TakeCommand
    <3>2. /\ session' \subseteq Outlook' /\ Outlook' \ session' \subseteq Lost'
          /\ session \cup Lost \subseteq session' \cup Lost'
      BY <2>0, <2>1, <3>1, SendSession
    <3> QED
      BY <2>0, <3>1, <3>2 DEF SessionInv
  <2>2. CASE Head(commands)[1] = "Unsubscribe"
    <3>1. loop' = loop /\ outbox' = outbox /\ Unsubscribe(Head(commands)[2])
      BY <1>4, <2>2 DEF TakeCommand, Unsubscribe
    <3>2. Outlook' = Outlook
      BY <2>0, <3>1, OutlookUnchanged
    <3> QED
      BY <2>0, <3>1, <3>2 DEF SessionInv, Unsubscribe, Lost
  <2>3. CASE Head(commands)[1] = "Shutdown"
    BY <1>4, <2>3 DEF TakeCommand, Retry, SessionInv
  <2> QED
    BY <1>4, <2>1, <2>2, <2>3 DEF TakeCommand
\* The session is over.
<1>5. CASE ConnectFails \/ SessionBreaks \/ AuthFails \/ Wake \/ TaskEnds
  BY <1>5 DEF ConnectFails, SessionBreaks, Retry, AuthFails, Wake, TaskEnds, Goto, SessionInv
<1>6. ASSUME NEW t \in Topics, Receive(t) PROVE SessionInv'
  <2> DEFINE e == <<"Message", t, version[t] + 1>>
  <2>1. /\ loop = "running" /\ loop' = loop /\ outbox = <<>> /\ outbox' = <<e>>
        /\ events' = events /\ believed' = believed /\ session' = session /\ Lost' = Lost
    BY <1>6 DEF Receive, At, reader, served, Lost
  <2>2. e \in Event
    <3>1. version[t] + 1 \in 1..MaxVersion
      BY <1>6 DEF Receive, TypeOK
    <3> QED
      BY <3>1, NewsEvents
  <2>3. Outlook' = Believing(Outlook, e)
    BY <2>1, <2>2, OutlookOfOne
  <2>4. Outlook' = Outlook
    BY <2>3 DEF Believing
  <2> QED
    BY <2>1, <2>4 DEF SessionInv
<1>7. ASSUME Outlook' = Outlook, UNCHANGED <<loop, todo, served>> PROVE SessionInv'
  BY <1>7 DEF SessionInv, InTodo, served, Lost
<1>8. CASE Deliver \/ Take
  BY <1>7, <1>8, DeliverOutlook, TakeOutlook DEF Deliver, Take, task
<1>9. ASSUME NEW c \in Command, Call(c) PROVE SessionInv'
  BY <1>7, <1>9, OutlookUnchanged DEF Call, task, reader
<1>10. ASSUME NEW t \in Topics, Refuse(t) PROVE SessionInv'
  <2>1. Outlook' = Outlook /\ loop' = loop /\ todo' = todo
    BY <1>10, OutlookUnchanged DEF Refuse, reader
  <2>2. t \in session /\ session' = session \ {t} /\ Lost' = Lost \cup {t}
    BY <1>10 DEF Refuse, Lost
  <2> QED
    BY <2>1, <2>2 DEF SessionInv, InTodo
<1>11. CASE UNCHANGED vars
  BY <1>7, <1>11, OutlookUnchanged DEF vars, task, reader
<1> QED
  BY <1>1, <1>2, <1>3, <1>4, <1>5, <1>6, <1>8, <1>9, <1>10, <1>11 DEF Next, LoopStep

LEMMA Invariance == Spec => []IInv
<1>1. Init => IInv
  BY InitTypeOK, InitNumbersInv DEF IInv, Init, SessionInv
<1>2. IInv /\ [Next]_vars => IInv'
  BY StepTypeOK, StepAttempts, StepNumbersInv, StepSessionInv DEF IInv
<1> QED
  BY <1>1, <1>2, PTL DEF Spec

(***************************************************************************)
(* The theorems                                                            *)
(***************************************************************************)

\* connection.rs: in every state the variables are of their types, and
\* neither channel holds more than its capacity.
THEOREM TypeCorrect == Spec => []TypeOK
<1>1. IInv => TypeOK
  BY DEF IInv
<1> QED
  BY <1>1, Invariance, PTL

\* The events of run_gateway tell what the gateway knows of the session, whatever
\* broke, was restored, subscribed, unsubscribed or refused before: whoever has taken
\* all of them believes subscribed whatever the exchange serves, and a topic he
\* believes subscribed or that is configured is served, unless its message could not
\* be sent, it was to be unsubscribed, or the exchange refused it, of which no event
\* tells.
THEOREM SessionAsToldCorrect == Spec => []SessionAsTold
<1>1. IInv => SessionAsTold
  <2> SUFFICES ASSUME IInv, loop = "running", outbox = <<>>, events = <<>>
               PROVE  /\ session \subseteq believed /\ believed \ session \subseteq Lost
                      /\ {Configured[i] : i \in DOMAIN Configured} \ session \subseteq Lost
    BY DEF SessionAsTold, Lost
  <2>1. Outlook = believed
    BY OutlookOfEmpty, AfterEmpty DEF IInv, TypeOK
  <2> QED
    BY <2>1 DEF IInv, SessionInv
<1> QED
  BY <1>1, Invariance, PTL

\* A message the reader takes is the next of its topic.
LEMMA TakeIsTell ==
  ASSUME IInv, Take, Head(events)[1] = "Message"
  PROVE  F!Next
<1> DEFINE e == Head(events)
<1>1. /\ events \in Seq(Event) /\ events # <<>>
      /\ taken \in [Topics -> 0..MaxVersion] /\ version \in [Topics -> 0..MaxVersion]
      /\ taken' = [taken EXCEPT ![e[2]] = e[3]] /\ version' = version
  BY DEF IInv, TypeOK, Take
<1>2. e \in Event
  BY <1>1, TailElements
<1>3. PICK t \in Topics : e[2] = t
  BY <1>2, EventFacts
<1>4. PICK m \in Nat : Numbered(t, taken[t], events, m) /\ Numbered(t, m, outbox, version[t])
  BY DEF IInv, NumbersInv
<1>5. PICK b \in Nat, c \in Nat : b = taken[t] /\ c = version[t]
  BY <1>1
<1>6. e[3] = b + 1 /\ b + 1 <= m /\ Numbered(t, b + 1, Tail(events), m)
  <2>1. IsMessage(e, t) /\ Numbered(t, b, events, m)
    BY <1>3, <1>4, <1>5 DEF IsMessage
  <2> QED
    BY <1>1, <2>1, HeadNumbered
<1>7. m <= c
  BY <1>4, <1>5 DEF Numbered
<1>8. taken[t] < version[t]
  BY <1>5, <1>6, <1>7
<1>9. taken' = [taken EXCEPT ![t] = @ + 1]
  <2>1. taken' = [taken EXCEPT ![t] = b + 1]
    BY <1>1, <1>3, <1>6
  <2> QED
    BY <1>5, <2>1
<1>10. F!Tell(t)
  BY <1>1, <1>8, <1>9 DEF F!Tell
<1> QED
  BY <1>10 DEF F!Next

LEMMA StepOfFeed == IInv /\ [Next]_vars => [F!Next]_<<version, taken>>
<1> SUFFICES ASSUME IInv, [Next]_vars PROVE F!Next \/ UNCHANGED <<version, taken>>
  OBVIOUS
<1>1. CASE Take
  <2>1. CASE Head(events)[1] # "Message"
    BY <1>1, <2>1 DEF Take
  <2> QED
    BY <1>1, <2>1, TakeIsTell
<1>2. ASSUME NEW t \in Topics, Receive(t) PROVE F!Next
  <2>1. F!Publish(t)
    BY <1>2 DEF Receive, reader, F!Publish
  <2> QED
    BY <2>1 DEF F!Next
<1>3. CASE Connect \/ ConnectFails \/ AuthFails \/ AuthSent \/ Restore \/ SessionBreaks \/ Wake
           \/ TaskEnds \/ Deliver \/ TakeCommand
  BY <1>3 DEF Connect, ConnectFails, AuthFails, AuthSent, Restore, SessionBreaks, Wake, TaskEnds,
     Deliver, TakeCommand, reader
<1>4. ASSUME NEW c \in Command, Call(c) PROVE UNCHANGED <<version, taken>>
  BY <1>4 DEF Call, reader
<1>5. ASSUME NEW t \in Topics, Refuse(t) PROVE UNCHANGED <<version, taken>>
  BY <1>5 DEF Refuse, reader
<1>6. CASE UNCHANGED vars
  BY <1>6 DEF vars, reader
<1> QED
  BY <1>1, <1>2, <1>3, <1>4, <1>5, <1>6 DEF Next, LoopStep

\* The gateway refines the feed: each message of each topic reaches the reader once
\* and in order, through the outbox, the bounded channel and all reconnects.
THEOREM RefinesFeed == Spec => ReadsAsFeed
<1>1. Init => F!Init
  BY DEF Init, F!Init, Zero
<1> QED
  BY <1>1, StepOfFeed, Invariance, PTL DEF Spec, ReadsAsFeed, F!Spec
==============================================================================
