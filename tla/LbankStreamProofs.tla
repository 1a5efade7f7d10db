--------------------------- MODULE LbankStreamProofs ---------------------------
(***************************************************************************)
(* Theorems about LbankStream, for any streams, capacities of the channels *)
(* and number of attempts.                                                 *)
(***************************************************************************)
EXTENDS LbankStream, TLAPS

(***************************************************************************)
(* The inductive invariant                                                 *)
(***************************************************************************)

\* A session starts with fresh attempts, and between sessions the attempts and the
\* failures grow together.
AttemptsInv ==
  /\ loop = "running" => attempts = 0
  /\ loop = "connecting" => attempts <= MaxAttempts /\ attempts <= failures + 1
  /\ GivesUpLate

\* The connection as a taker of the event knows it: items come only of a session.
News(e) == IF e.of \in Streams \cup {Unnamed} THEN "Connected" ELSE e.of

Allowed(x, e) ==
  /\ x # "Error"
  /\ e.of \in Streams \cup {Unnamed} => x = "Connected"
  /\ e.of = "Connected" => x = "Disconnected"

\* The events of q may follow one another for a taker who knows of x.
Chain(x, q) ==
  \A i \in 1..Len(q) : Allowed(IF i = 1 THEN x ELSE News(q[i - 1]), q[i])

\* What the taker knows after all of q.
After(x, q) == IF q = <<>> THEN x ELSE News(q[Len(q)])

LoopNews == IF loop = "connecting" THEN "Disconnected"
            ELSE IF loop = "running" THEN "Connected" ELSE "Error"

BracketsInv ==
  /\ Chain(link, events)
  /\ Chain(After(link, events), outbox)
  /\ After(After(link, events), outbox) = LoopNews

\* The items of stream s in q are those numbered from b + 1 to c, in that order.
Numbered(s, b, q, c) ==
  /\ b <= c
  /\ \A i \in 1..Len(q) : q[i].of = s => b < q[i].v /\ q[i].v <= c
  /\ \A i, j \in 1..Len(q) : q[i].of = s /\ q[j].of = s /\ i < j => q[i].v < q[j].v
  /\ \A n \in (b + 1)..c : \E i \in 1..Len(q) : q[i].of = s /\ q[i].v = n

\* Orders are not market events.
NumbersInv ==
  \A s \in Streams :
    /\ Numbered(s, told[s], market, IF Topic[s] = "order" THEN told[s] ELSE passed[s])
    /\ Numbered(s, passed[s], events, handed[s])
    /\ Numbered(s, handed[s], outbox, version[s])

\* No ticker has a number, a book is cached on arrival, a deal when it is converted.
CacheInv ==
  \A s \in Streams :
    /\ Topic[s] = "market" => version[s] = 0
    /\ Topic[s] = "book" => cached[s] = version[s]
    /\ Topic[s] = "deal" => cached[s] = passed[s]

IInv == TypeOK /\ AttemptsInv /\ BracketsInv /\ NumbersInv /\ CacheInv

USE TopicAssumption, BookAssumption, CapAssumption, BoundAssumption, NamesAssumption

(***************************************************************************)
(* Events and sequences                                                    *)
(***************************************************************************)

LEMMA StatusEvents ==
  \A x \in {"Connected", "Disconnected", "Error", Unnamed} :
    Status(x) \in Event /\ Status(x).of = x
BY DEF Event, Status

\* An event is an item with its number or a status.
LEMMA EventFacts ==
  ASSUME NEW e \in Event
  PROVE  /\ e.v \in Nat
         /\ e.of \in Streams => e.v \in 1..MaxVersion
         /\ e.of \notin Streams => e.of \in {"Connected", "Disconnected", "Error", Unnamed}
BY DEF Event, Status

LEMMA ItemEvent ==
  ASSUME NEW s \in Streams, NEW n \in 1..MaxVersion
  PROVE  [of |-> s, v |-> n] \in Event
BY DEF Event

\* The elements of a queue after Tail and Append.
LEMMA TailElements ==
  ASSUME NEW S, NEW q \in Seq(S), q # <<>>
  PROVE  /\ Head(q) \in S /\ Head(q) = q[1] /\ Len(q) \in Nat /\ Len(q) >= 1
         /\ Tail(q) \in Seq(S) /\ Len(Tail(q)) = Len(q) - 1
         /\ \A i \in 1..Len(Tail(q)) : i + 1 \in 1..Len(q) /\ Tail(q)[i] = q[i + 1]
OBVIOUS

LEMMA AppendElements ==
  ASSUME NEW S, NEW q \in Seq(S), NEW e \in S
  PROVE  /\ Append(q, e) \in Seq(S)
         /\ Len(q) \in Nat /\ Len(Append(q, e)) = Len(q) + 1
         /\ Append(q, e)[Len(q) + 1] = e
         /\ \A i \in 1..Len(q) : Append(q, e)[i] = q[i]
OBVIOUS

LEMMA FunctionSequence ==
  ASSUME NEW S, NEW n \in Nat, NEW f \in [1..n -> S]
  PROVE  f \in Seq(S) /\ Len(f) = n
OBVIOUS

(***************************************************************************)
(* Types and attempts                                                      *)
(***************************************************************************)

LEMMA InitTypeOK == Init => TypeOK /\ AttemptsInv
BY DEF Init, TypeOK, AttemptsInv, GivesUpLate, Zero

\* The bottom of the loop, from wherever it is reached.
LEMMA RetryTypes ==
  ASSUME TypeOK, AttemptsInv, loop \in {"connecting", "running"}, Retry
  PROVE  /\ attempts' \in 0..(MaxAttempts + 1) /\ attempts' = attempts + 1
         /\ session' \subseteq Streams
         /\ loop' \in {"connecting", "stopping"}
         /\ loop' = "connecting" => attempts' <= MaxAttempts
         /\ loop' = "stopping" => attempts = MaxAttempts
         /\ outbox' \in Seq(Event)
<1>1. attempts \in 0..MaxAttempts
  BY DEF TypeOK, AttemptsInv
<1>2. \A a, b \in Event : <<a>> \in Seq(Event) /\ <<a, b>> \in Seq(Event)
  OBVIOUS
<1>3. Status("Disconnected") \in Event /\ Status("Error") \in Event
  BY StatusEvents
<1>4. outbox' \in Seq(Event)
  BY <1>2, <1>3 DEF Retry
<1> QED
  BY <1>1, <1>4 DEF Retry

\* What a push puts into the outbox.
LEMMA PushTypes ==
  ASSUME TypeOK, NEW s \in Streams, NEW n \in 1..MaxItems, Push(s, n), Filed(s) # Unnamed
  PROVE  /\ Filed(s) \in Streams
         /\ version[Filed(s)] \in Nat /\ version[Filed(s)] + n <= MaxVersion
         /\ outbox' = [i \in 1..n |-> [of |-> Filed(s), v |-> version[Filed(s)] + i]]
         /\ outbox' \in Seq(Event) /\ Len(outbox') = n
         /\ version' = [version EXCEPT ![Filed(s)] = @ + n]
<1>1. Filed(s) \in Streams
  BY DEF Filed, ParsedName
<1>2. /\ version[Filed(s)] \in Nat /\ version[Filed(s)] + n <= MaxVersion
      /\ outbox' = [i \in 1..n |-> [of |-> Filed(s), v |-> version[Filed(s)] + i]]
      /\ version' = [version EXCEPT ![Filed(s)] = @ + n]
  BY <1>1 DEF Push, TypeOK
<1>3. \A i \in 1..n : [of |-> Filed(s), v |-> version[Filed(s)] + i] \in Event
  BY <1>1, <1>2, ItemEvent
<1>4. outbox' \in [1..n -> Event] /\ n \in Nat
  BY <1>2, <1>3
<1> QED
  BY <1>1, <1>2, <1>4, FunctionSequence

LEMMA ItemTypes ==
  ASSUME NEW f \in [Streams -> 0..MaxVersion], NEW e \in Event, e.of \in Streams
  PROVE  [f EXCEPT ![e.of] = e.v] \in [Streams -> 0..MaxVersion]
<1>1. e.v \in 0..MaxVersion
  BY EventFacts DEF Event
<1> QED
  BY <1>1

\* What the converter does with an event, whatever it is.
LEMMA ConvertFacts ==
  ASSUME Convert
  PROVE  LET e == Head(events)
         IN /\ events # <<>> /\ events' = Tail(events)
            /\ IF IsMarketEvent(e)
                 THEN Len(market) < MarketCap /\ market' = Append(market, e)
                 ELSE market' = market
            /\ e.of \in Streams =>
                 /\ passed' = [passed EXCEPT ![e.of] = e.v]
                 /\ IF Topic[e.of] = "deal" THEN cached' = [cached EXCEPT ![e.of] = e.v]
                                            ELSE cached' = cached
                 /\ link' = link
            /\ e.of \notin Streams =>
                 /\ passed' = passed /\ cached' = cached
                 /\ link' = IF e.of = Unnamed THEN link ELSE e.of
BY DEF Convert, Forward

LEMMA StepTypeOK == TypeOK /\ AttemptsInv /\ [Next]_vars => TypeOK'
<1> SUFFICES ASSUME TypeOK, AttemptsInv, [Next]_vars PROVE TypeOK'
  OBVIOUS
<1>0. ASSUME loop \in {"connecting", "running"}, Retry
      PROVE  /\ attempts' \in 0..(MaxAttempts + 1)
             /\ session' \subseteq Streams
             /\ loop' \in {"connecting", "stopping"}
             /\ outbox' \in Seq(Event)
  BY <1>0, RetryTypes
<1>p. ASSUME NEW s \in Streams, NEW n \in 1..MaxItems, Push(s, n), Filed(s) # Unnamed
      PROVE  /\ version' \in [Streams -> 0..MaxVersion]
             /\ outbox' \in Seq(Event)
             /\ cached' \in [Streams -> 0..MaxVersion]
  <2>1. /\ Filed(s) \in Streams
        /\ version[Filed(s)] \in Nat /\ version[Filed(s)] + n <= MaxVersion
        /\ outbox' \in Seq(Event)
        /\ version' = [version EXCEPT ![Filed(s)] = @ + n]
    BY <1>p, PushTypes
  <2>2. version[Filed(s)] + 1 \in 0..MaxVersion /\ version[Filed(s)] + n \in 0..MaxVersion
    BY <2>1
  <2> QED
    BY <1>p, <2>1, <2>2 DEF Push, CacheItem, TypeOK
<1> USE DEF TypeOK, task, callers, pipe, reading, At
<1>1. CASE Connected
  BY <1>1, StatusEvents DEF Connected
<1>2. CASE ConnectFails
  BY <1>0, <1>2 DEF ConnectFails
<1>3. CASE SessionBreaks \/ NoSenderLeft
  BY <1>0, <1>3 DEF SessionBreaks, NoSenderLeft
<1>4. CASE Deliver
  <2>1. Head(outbox) \in Event /\ Tail(outbox) \in Seq(Event)
    BY <1>4, TailElements DEF Deliver
  <2>2. events' \in Seq(Event) /\ Len(events') <= EventCap
    BY <1>4, <2>1, AppendElements DEF Deliver
  <2>3. handed' \in [Streams -> 0..MaxVersion]
    BY <1>4, <2>1, ItemTypes DEF Deliver
  <2> QED
    BY <1>4, <2>1, <2>2, <2>3 DEF Deliver
<1>5. CASE TaskEnds
  BY <1>5 DEF TaskEnds
<1>6. CASE TakeCommand
  <2>1. /\ Head(commands) \in Command
        /\ commands' \in Seq(Command) /\ Len(commands') <= CommandCap
    BY <1>6, TailElements DEF TakeCommand
  <2>2. CASE Head(commands) = "Shutdown"
    BY <1>6, <2>1, <2>2, <1>0 DEF TakeCommand
  <2>3. CASE Head(commands) # "Shutdown"
    BY <1>6, <2>1, <2>3 DEF TakeCommand, Command
  <2> QED
    BY <2>2, <2>3
<1>7. ASSUME NEW s \in Streams, NEW n \in 1..MaxItems, Push(s, n) PROVE TypeOK'
  <2>1. CASE Filed(s) = Unnamed
    <3>1. <<Status(Unnamed)>> \in Seq(Event)
      BY StatusEvents
    <3> QED
      BY <1>7, <2>1, <3>1 DEF Push
  <2>2. CASE Filed(s) # Unnamed
    BY <1>7, <1>p, <2>2 DEF Push
  <2> QED
    BY <2>1, <2>2
<1>8. ASSUME NEW c \in Command, Call(c) PROVE TypeOK'
  BY <1>8 DEF Call
<1>9. ASSUME NEW c \in Command, CallEnqueued(c) PROVE TypeOK'
  <2>1. commands' \in Seq(Command) /\ Len(commands') <= CommandCap
    BY <1>9, AppendElements DEF CallEnqueued
  <2> QED
    BY <1>9, <2>1 DEF CallEnqueued
<1>10. ASSUME NEW c \in Command, CallRefused(c) PROVE TypeOK'
  BY <1>10 DEF CallRefused
<1>11. CASE DropHandle
  BY <1>11 DEF DropHandle
<1>12. CASE Convert
  <2>1. /\ Head(events) \in Event
        /\ events' \in Seq(Event) /\ Len(events') <= EventCap
    BY <1>12, TailElements DEF Convert
  <2>2. market' \in Seq(Event) /\ Len(market') <= MarketCap
    <3>1. Append(market, Head(events)) \in Seq(Event)
          /\ Len(Append(market, Head(events))) = Len(market) + 1 /\ Len(market) \in Nat
      BY <2>1, AppendElements
    <3>2. \/ market' = market
          \/ Len(market) < MarketCap /\ market' = Append(market, Head(events))
      BY <1>12, ConvertFacts
    <3>3. ASSUME market' = market PROVE market' \in Seq(Event) /\ Len(market') <= MarketCap
      BY <3>3
    <3>4. ASSUME Len(market) < MarketCap, market' = Append(market, Head(events))
          PROVE  market' \in Seq(Event) /\ Len(market') <= MarketCap
      <4>1. Len(market') <= MarketCap
        BY <3>1, <3>4
      <4> QED
        BY <3>1, <3>4, <4>1
    <3> QED
      BY <3>2, <3>3, <3>4
  <2>3. passed' \in [Streams -> 0..MaxVersion] /\ cached' \in [Streams -> 0..MaxVersion]
    <3>1. CASE Head(events).of \in Streams
      <4>1. /\ passed' = [passed EXCEPT ![Head(events).of] = Head(events).v]
            /\ cached' = [cached EXCEPT ![Head(events).of] = Head(events).v] \/ cached' = cached
        BY <1>12, <3>1, ConvertFacts
      <4>2. /\ [passed EXCEPT ![Head(events).of] = Head(events).v] \in [Streams -> 0..MaxVersion]
            /\ [cached EXCEPT ![Head(events).of] = Head(events).v] \in [Streams -> 0..MaxVersion]
        BY <2>1, <3>1, ItemTypes
      <4> QED
        BY <4>1, <4>2
    <3>2. CASE Head(events).of \notin Streams
      BY <1>12, <3>2, ConvertFacts
    <3> QED
      BY <3>1, <3>2
  <2>4. link' \in {"Connected", "Disconnected", "Error"}
    BY <1>12, <2>1, EventFacts DEF Convert
  <2> QED
    BY <1>12, <2>1, <2>2, <2>3, <2>4 DEF Convert
<1>13. CASE ConverterEnds
  BY <1>13 DEF ConverterEnds
<1>14. CASE Read
  <2>1. /\ Head(market) \in Event
        /\ market' \in Seq(Event) /\ Len(market') <= MarketCap
    BY <1>14, TailElements DEF Read
  <2>2. told' \in [Streams -> 0..MaxVersion]
    BY <1>14, <2>1, ItemTypes DEF Read
  <2> QED
    BY <1>14, <2>1, <2>2 DEF Read
<1>15. CASE UNCHANGED vars
  BY <1>15 DEF vars
<1> QED
  BY <1>1, <1>2, <1>3, <1>4, <1>5, <1>6, <1>7, <1>8, <1>9, <1>10, <1>11, <1>12, <1>13,
     <1>14, <1>15 DEF Next, LoopStep, CallerStep, ReaderStep

LEMMA StepAttemptsInv == TypeOK /\ AttemptsInv /\ [Next]_vars => AttemptsInv'
<1> SUFFICES ASSUME TypeOK, AttemptsInv, [Next]_vars PROVE AttemptsInv'
  OBVIOUS
<1> USE DEF TypeOK, AttemptsInv, GivesUpLate, task, At
<1>1. CASE Connected \/ TaskEnds \/ Deliver
  BY <1>1 DEF Connected, TaskEnds, Deliver
<1>2. CASE ConnectFails
  <2>1. /\ loop' \in {"connecting", "stopping"}
        /\ loop' = "connecting" => attempts' <= MaxAttempts
        /\ loop' = "stopping" => attempts = MaxAttempts
        /\ attempts' = attempts + 1 /\ failures' = failures + 1
        /\ attempts <= failures + 1
    BY <1>2 DEF ConnectFails, Retry
  <2> QED
    BY <2>1
\* A session that ends leaves one attempt, which is never the last.
<1>3. ASSUME loop = "running", Retry, failures' = failures PROVE AttemptsInv'
  BY <1>3 DEF Retry
<1>4. CASE SessionBreaks \/ NoSenderLeft
  BY <1>3, <1>4 DEF SessionBreaks, NoSenderLeft
<1>5. CASE TakeCommand
  BY <1>3, <1>5 DEF TakeCommand
<1>6. ASSUME NEW s \in Streams, NEW n \in 1..MaxItems, Push(s, n) PROVE AttemptsInv'
  BY <1>6 DEF Push
<1>7. CASE CallerStep
  BY <1>7 DEF CallerStep, Call, CallEnqueued, CallRefused, DropHandle
<1>8. CASE ReaderStep
  BY <1>8 DEF ReaderStep, Convert, ConverterEnds, Read
<1>9. CASE UNCHANGED vars
  BY <1>9 DEF vars
<1> QED
  BY <1>1, <1>2, <1>4, <1>5, <1>6, <1>7, <1>8, <1>9 DEF Next, LoopStep

(***************************************************************************)
(* Brackets                                                                *)
(***************************************************************************)

LEMMA NewsOfStatus ==
  ASSUME NEW x \in {"Connected", "Disconnected", "Error"}
  PROVE  News(Status(x)) = x /\ Status(x).of = x
BY DEF News, Status

\* Taking an event.
LEMMA ChainTail ==
  ASSUME NEW q \in Seq(Event), q # <<>>, NEW x, Chain(x, q)
  PROVE  /\ Allowed(x, Head(q))
         /\ Chain(News(Head(q)), Tail(q))
         /\ After(News(Head(q)), Tail(q)) = After(x, q)
<1> DEFINE r == Tail(q)
<1>1. /\ Head(q) = q[1] /\ Len(q) \in Nat /\ Len(q) >= 1
      /\ Len(r) = Len(q) - 1 /\ r \in Seq(Event)
      /\ \A i \in 1..Len(r) : i + 1 \in 1..Len(q) /\ r[i] = q[i + 1]
  BY TailElements
<1>2. Allowed(x, Head(q))
  BY <1>1 DEF Chain
<1>3. ASSUME NEW i \in 1..Len(r)
      PROVE  Allowed(IF i = 1 THEN News(Head(q)) ELSE News(r[i - 1]), r[i])
  <2>1. Allowed(News(q[i]), q[i + 1])
    <3>1. i + 1 \in 1..Len(q) /\ i + 1 # 1 /\ (i + 1) - 1 = i
      BY <1>1
    <3> QED
      BY <3>1 DEF Chain
  <2>2. r[i] = q[i + 1]
    BY <1>1
  <2>3. i # 1 => r[i - 1] = q[i]
    <3>1. i # 1 => i - 1 \in 1..Len(r) /\ (i - 1) + 1 = i
      BY <1>1
    <3> QED
      BY <1>1, <3>1
  <2> QED
    BY <1>1, <2>1, <2>2, <2>3
<1> HIDE DEF r
<1>4. After(News(Head(q)), r) = After(x, q)
  <2>1. CASE r = <<>>
    <3>1. Len(r) = 0
      BY <2>1
    <3>2. Len(q) = 1
      BY <1>1, <3>1
    <3> QED
      BY <1>1, <2>1, <3>2 DEF After
  <2>2. CASE r # <<>>
    <3>1. Len(r) \in 1..Len(r) /\ r[Len(r)] = q[Len(q)]
      BY <1>1, <2>2
    <3> QED
      BY <2>2, <3>1 DEF After
  <2> QED
    BY <2>1, <2>2
<1> QED
  BY <1>2, <1>3, <1>4 DEF Chain, r

\* Sending one that may follow.
LEMMA ChainAppend ==
  ASSUME NEW q \in Seq(Event), NEW e \in Event, NEW x,
         Chain(x, q), Allowed(After(x, q), e)
  PROVE  /\ Chain(x, Append(q, e))
         /\ After(x, Append(q, e)) = News(e)
<1> DEFINE r == Append(q, e)
<1>1. /\ r \in Seq(Event) /\ Len(q) \in Nat /\ Len(r) = Len(q) + 1
      /\ r[Len(q) + 1] = e
      /\ \A i \in 1..Len(q) : r[i] = q[i]
  BY AppendElements
<1> HIDE DEF r
<1>2. ASSUME NEW i \in 1..Len(r)
      PROVE  Allowed(IF i = 1 THEN x ELSE News(r[i - 1]), r[i])
  <2>1. CASE i \in 1..Len(q)
    <3>1. i # 1 => r[i - 1] = q[i - 1]
      BY <1>1, <2>1
    <3>2. r[i] = q[i]
      BY <1>1, <2>1
    <3>3. Allowed(IF i = 1 THEN x ELSE News(q[i - 1]), q[i])
      BY <2>1 DEF Chain
    <3> QED
      BY <3>1, <3>2, <3>3
  <2>2. CASE i = Len(q) + 1
    <3>1. r[i] = e
      BY <1>1, <2>2
    <3>2. After(x, q) = IF i = 1 THEN x ELSE News(r[i - 1])
      <4>1. CASE q = <<>>
        BY <2>2, <4>1 DEF After
      <4>2. CASE q # <<>>
        <5>1. i # 1 /\ i - 1 = Len(q) /\ Len(q) \in 1..Len(q)
          BY <1>1, <2>2, <4>2
        <5>2. r[i - 1] = q[Len(q)]
          BY <1>1, <5>1
        <5> QED
          BY <4>2, <5>1, <5>2 DEF After
      <4> QED
        BY <4>1, <4>2
    <3> QED
      BY <3>1, <3>2
  <2> QED
    BY <1>1, <2>1, <2>2
<1>3. After(x, r) = News(e)
  <2>1. r # <<>> /\ r[Len(r)] = e
    BY <1>1
  <2> QED
    BY <2>1 DEF After
<1> QED
  BY <1>2, <1>3 DEF Chain, r

LEMMA ChainEmpty == ASSUME NEW x PROVE Chain(x, <<>>) /\ After(x, <<>>) = x
BY DEF Chain, After

LEMMA ChainOne ==
  ASSUME NEW e \in Event, NEW x, Allowed(x, e)
  PROVE  Chain(x, <<e>>) /\ After(x, <<e>>) = News(e)
<1>1. <<e>> = Append(<<>>, e) /\ <<>> \in Seq(Event)
  OBVIOUS
<1>2. Chain(x, <<>>) /\ Allowed(After(x, <<>>), e)
  BY ChainEmpty
<1>3. Chain(x, Append(<<>>, e)) /\ After(x, Append(<<>>, e)) = News(e)
  BY <1>1, <1>2, ChainAppend
<1> QED
  BY <1>1, <1>3

LEMMA ChainTwo ==
  ASSUME NEW e \in Event, NEW f \in Event, NEW x, Allowed(x, e), Allowed(News(e), f)
  PROVE  Chain(x, <<e, f>>) /\ After(x, <<e, f>>) = News(f)
<1>1. <<e, f>> = Append(<<e>>, f) /\ <<e>> \in Seq(Event)
  OBVIOUS
<1> QED
  BY <1>1, ChainOne, ChainAppend

LEMMA InitBracketsInv == Init => BracketsInv
BY ChainEmpty DEF Init, BracketsInv, LoopNews

\* Every end of a session or of an attempt, when nothing waits in the outbox.
LEMMA RetryBrackets ==
  ASSUME TypeOK, BracketsInv, outbox = <<>>, loop \in {"connecting", "running"},
         Retry, events' = events, link' = link
  PROVE  BracketsInv'
<1> DEFINE x == After(link, events)
<1>1. Chain(link, events) /\ x = LoopNews /\ x \in {"Connected", "Disconnected"}
  BY ChainEmpty DEF BracketsInv, LoopNews
<1>2. /\ Status("Disconnected") \in Event /\ Status("Error") \in Event
      /\ News(Status("Disconnected")) = "Disconnected" /\ News(Status("Error")) = "Error"
      /\ Status("Disconnected").of = "Disconnected" /\ Status("Error").of = "Error"
  BY StatusEvents, NewsOfStatus
<1>3. Allowed(x, Status("Disconnected")) /\ Allowed("Disconnected", Status("Error"))
  BY <1>1, <1>2 DEF Allowed
<1>4. /\ Chain(x, outbox') /\ After(x, outbox') = LoopNews'
  <2>1. CASE attempts + 1 > MaxAttempts
    <3>1. outbox' = <<Status("Disconnected"), Status("Error")>> /\ LoopNews' = "Error"
      BY <2>1 DEF Retry, LoopNews
    <3> QED
      BY <1>2, <1>3, <3>1, ChainTwo
  <2>2. CASE ~(attempts + 1 > MaxAttempts)
    <3>1. outbox' = <<Status("Disconnected")>> /\ LoopNews' = "Disconnected"
      BY <2>2 DEF Retry, LoopNews
    <3> QED
      BY <1>2, <1>3, <3>1, ChainOne
  <2> QED
    BY <2>1, <2>2
<1> QED
  BY <1>1, <1>4 DEF BracketsInv

\* The items of a push, which a session has brought.
LEMMA PushChain ==
  ASSUME NEW q \in Seq(Event), q # <<>>,
         \A i \in 1..Len(q) : q[i].of \in Streams \cup {Unnamed}
  PROVE  Chain("Connected", q) /\ After("Connected", q) = "Connected"
<1>1. Len(q) \in Nat /\ Len(q) >= 1
  OBVIOUS
<1>2. ASSUME NEW i \in 1..Len(q)
      PROVE  Allowed(IF i = 1 THEN "Connected" ELSE News(q[i - 1]), q[i])
  <2>1. i # 1 => i - 1 \in 1..Len(q)
    BY <1>1
  <2>2. q[i].of # "Connected"
    BY NamesAssumption
  <2> QED
    BY <2>1, <2>2 DEF Allowed, News
<1>3. Len(q) \in 1..Len(q)
  BY <1>1
<1> QED
  BY <1>2, <1>3 DEF Chain, After, News

LEMMA StepBracketsInv == TypeOK /\ BracketsInv /\ [Next]_vars => BracketsInv'
<1> SUFFICES ASSUME TypeOK, BracketsInv, [Next]_vars PROVE BracketsInv'
  OBVIOUS
<1>0. /\ outbox \in Seq(Event) /\ events \in Seq(Event)
      /\ link \in {"Connected", "Disconnected", "Error"}
  BY DEF TypeOK
<1>1. CASE Connected
  <2>1. /\ After(link, events) = "Disconnected"
        /\ outbox' = <<Status("Connected")>> /\ LoopNews' = "Connected"
        /\ events' = events /\ link' = link
    BY <1>1, ChainEmpty DEF Connected, At, BracketsInv, LoopNews, pipe, reading
  <2>2. Allowed("Disconnected", Status("Connected")) /\ Status("Connected") \in Event
        /\ News(Status("Connected")) = "Connected"
    BY NewsOfStatus, StatusEvents DEF Allowed
  <2> QED
    BY <2>1, <2>2, ChainOne DEF BracketsInv
<1>2. CASE ConnectFails \/ SessionBreaks \/ NoSenderLeft
  BY <1>2, RetryBrackets DEF ConnectFails, SessionBreaks, NoSenderLeft, At, pipe, reading
<1>3. CASE TakeCommand
  <2>1. CASE Head(commands) = "Shutdown"
    BY <1>3, <2>1, RetryBrackets DEF TakeCommand, At, pipe, reading
  <2>2. CASE Head(commands) # "Shutdown"
    BY <1>3, <2>2 DEF TakeCommand, BracketsInv, LoopNews, pipe, reading
  <2> QED
    BY <2>1, <2>2
<1>4. CASE Deliver
  <2> DEFINE e == Head(outbox)
             x == After(link, events)
  <2>1. /\ outbox # <<>> /\ events' = Append(events, e) /\ outbox' = Tail(outbox)
        /\ link' = link /\ LoopNews' = LoopNews
    BY <1>4 DEF Deliver, reading, LoopNews
  <2>2. e \in Event
    BY <1>0, <2>1, TailElements
  <2>3. /\ Allowed(x, e) /\ Chain(News(e), Tail(outbox))
        /\ After(News(e), Tail(outbox)) = LoopNews
    BY <1>0, <2>1, ChainTail DEF BracketsInv
  <2>4. Chain(link, Append(events, e)) /\ After(link, Append(events, e)) = News(e)
    BY <1>0, <2>2, <2>3, ChainAppend DEF BracketsInv
  <2> QED
    BY <2>1, <2>3, <2>4 DEF BracketsInv
<1>5. CASE TaskEnds
  BY <1>5, ChainEmpty DEF TaskEnds, At, BracketsInv, LoopNews, pipe, reading
<1>6. ASSUME NEW s \in Streams, NEW n \in 1..MaxItems, Push(s, n) PROVE BracketsInv'
  <2>1. /\ Chain(link, events) /\ After(link, events) = "Connected" /\ LoopNews' = "Connected"
        /\ events' = events /\ link' = link
    BY <1>6, ChainEmpty DEF Push, At, BracketsInv, LoopNews, pipe, reading
  <2>2. /\ outbox' \in Seq(Event) /\ outbox' # <<>>
        /\ \A i \in 1..Len(outbox') : outbox'[i].of \in Streams \cup {Unnamed}
    <3>1. CASE Filed(s) = Unnamed
      <4>1. outbox' = <<Status(Unnamed)>>
        BY <1>6, <3>1 DEF Push
      <4> QED
        BY <4>1, StatusEvents
    <3>2. CASE Filed(s) # Unnamed
      BY <1>6, <3>2, PushTypes
    <3> QED
      BY <3>1, <3>2
  <2> QED
    BY <2>1, <2>2, PushChain DEF BracketsInv
<1>7. CASE CallerStep
  BY <1>7 DEF CallerStep, Call, CallEnqueued, CallRefused, DropHandle, task, pipe, reading,
              BracketsInv, LoopNews
<1>8. CASE Convert
  <2> DEFINE e == Head(events)
  <2>1. events # <<>> /\ events' = Tail(events) /\ outbox' = outbox /\ LoopNews' = LoopNews
    BY <1>8 DEF Convert, task, LoopNews
  <2>2. e \in Event
    BY <1>0, <2>1, TailElements
  <2>3. /\ Allowed(link, e) /\ Chain(News(e), Tail(events))
        /\ After(News(e), Tail(events)) = After(link, events)
    BY <1>0, <2>1, ChainTail DEF BracketsInv
  <2>4. link' = News(e)
    BY <1>8, <2>3, ConvertFacts DEF News, Allowed
  <2> QED
    BY <2>1, <2>3, <2>4 DEF BracketsInv
<1>9. CASE ConverterEnds \/ Read \/ UNCHANGED vars
  BY <1>9 DEF ConverterEnds, Read, vars, task, pipe, reading, BracketsInv, LoopNews
<1> QED
  BY <1>1, <1>2, <1>3, <1>4, <1>5, <1>6, <1>7, <1>8, <1>9
     DEF Next, LoopStep, ReaderStep

(***************************************************************************)
(* Numbers                                                                 *)
(***************************************************************************)

\* A queue without items of s lies between two equal numbers.
LEMMA NoItems ==
  ASSUME NEW s, NEW b \in Nat, NEW q, \A i \in 1..Len(q) : q[i].of # s
  PROVE  Numbered(s, b, q, b)
BY DEF Numbered

LEMMA EmptyNumbered ==
  ASSUME NEW s, NEW b \in Nat, NEW c \in Nat, Numbered(s, b, <<>>, c)
  PROVE  b = c
<1>1. b <= c /\ ~(b + 1 <= c)
  BY DEF Numbered
<1> QED
  BY <1>1

\* Taking an event: the first item of s is the next one, and the rest follow it.
LEMMA HeadNumbered ==
  ASSUME NEW s, NEW b \in Nat, NEW c \in Nat, NEW q \in Seq(Event), q # <<>>,
         Numbered(s, b, q, c), Head(q).of = s
  PROVE  Head(q).v = b + 1 /\ b + 1 <= c /\ Numbered(s, b + 1, Tail(q), c)
<1> DEFINE r == Tail(q)
<1>1. /\ Head(q) = q[1] /\ Len(q) \in Nat /\ 1 \in 1..Len(q)
      /\ Len(r) = Len(q) - 1 /\ r \in Seq(Event)
      /\ \A i \in 1..Len(r) : i + 1 \in 1..Len(q) /\ r[i] = q[i + 1]
  BY TailElements
<1> HIDE DEF r
<1>2. \A i \in 1..Len(q) : q[i].v \in Nat
  <2> SUFFICES ASSUME NEW i \in 1..Len(q) PROVE q[i].v \in Nat
    OBVIOUS
  <2>1. q[i] \in Event
    OBVIOUS
  <2> QED
    BY <2>1, EventFacts
<1>3. b < q[1].v /\ q[1].v <= c
  BY <1>1 DEF Numbered
<1>4. q[1].v = b + 1
  <2>1. b + 1 \in (b + 1)..c
    BY <1>1, <1>2, <1>3
  <2>2. PICK i \in 1..Len(q) : q[i].of = s /\ q[i].v = b + 1
    BY <2>1 DEF Numbered
  <2>3. i = 1 \/ 1 < i
    BY <1>1
  <2>4. 1 < i => q[1].v < q[i].v
    BY <1>1, <2>2 DEF Numbered
  <2> QED
    BY <1>1, <1>2, <1>3, <2>2, <2>3, <2>4
<1>5. ASSUME NEW i \in 1..Len(r), r[i].of = s PROVE b + 1 < r[i].v /\ r[i].v <= c
  <2>1. 1 < i + 1 /\ i + 1 \in 1..Len(q) /\ r[i] = q[i + 1]
    BY <1>1
  <2> QED
    BY <1>1, <1>4, <1>5, <2>1 DEF Numbered
<1>6. ASSUME NEW i \in 1..Len(r), NEW j \in 1..Len(r), r[i].of = s, r[j].of = s, i < j
      PROVE  r[i].v < r[j].v
  <2>1. /\ i + 1 < j + 1 /\ i + 1 \in 1..Len(q) /\ j + 1 \in 1..Len(q)
        /\ r[i] = q[i + 1] /\ r[j] = q[j + 1]
    BY <1>1, <1>6
  <2> QED
    BY <1>6, <2>1 DEF Numbered
<1>7. ASSUME NEW n \in ((b + 1) + 1)..c PROVE \E i \in 1..Len(r) : r[i].of = s /\ r[i].v = n
  <2>1. n \in (b + 1)..c
    OBVIOUS
  <2>2. PICK j \in 1..Len(q) : q[j].of = s /\ q[j].v = n
    BY <2>1 DEF Numbered
  <2>3. j # 1
    BY <1>4, <2>2
  <2>4. j - 1 \in 1..Len(r) /\ (j - 1) + 1 = j
    BY <1>1, <2>3
  <2>5. r[j - 1] = q[j]
    BY <1>1, <2>4
  <2> QED
    BY <2>2, <2>4, <2>5
<1>8. b + 1 <= c
  BY <1>3, <1>4
<1> QED
  BY <1>1, <1>4, <1>5, <1>6, <1>7, <1>8 DEF Numbered, r

LEMMA TailNumbered ==
  ASSUME NEW s, NEW b \in Nat, NEW c \in Nat, NEW q \in Seq(Event), q # <<>>,
         Numbered(s, b, q, c), Head(q).of # s
  PROVE  Numbered(s, b, Tail(q), c)
<1> DEFINE r == Tail(q)
<1>1. /\ Head(q) = q[1] /\ Len(q) \in Nat
      /\ Len(r) = Len(q) - 1
      /\ \A i \in 1..Len(r) : i + 1 \in 1..Len(q) /\ r[i] = q[i + 1]
  BY TailElements
<1> HIDE DEF r
<1>2. ASSUME NEW i \in 1..Len(r), r[i].of = s PROVE b < r[i].v /\ r[i].v <= c
  BY <1>1, <1>2 DEF Numbered
<1>3. ASSUME NEW i \in 1..Len(r), NEW j \in 1..Len(r), r[i].of = s, r[j].of = s, i < j
      PROVE  r[i].v < r[j].v
  <2>1. /\ i + 1 < j + 1 /\ i + 1 \in 1..Len(q) /\ j + 1 \in 1..Len(q)
        /\ r[i] = q[i + 1] /\ r[j] = q[j + 1]
    BY <1>1, <1>3
  <2> QED
    BY <1>3, <2>1 DEF Numbered
<1>4. ASSUME NEW n \in (b + 1)..c PROVE \E i \in 1..Len(r) : r[i].of = s /\ r[i].v = n
  <2>1. PICK j \in 1..Len(q) : q[j].of = s /\ q[j].v = n
    BY DEF Numbered
  <2>2. j # 1
    BY <1>1, <2>1
  <2>3. j - 1 \in 1..Len(r) /\ (j - 1) + 1 = j
    BY <1>1, <2>2
  <2>4. r[j - 1] = q[j]
    BY <1>1, <2>3
  <2> QED
    BY <2>1, <2>3, <2>4
<1>5. b <= c
  BY DEF Numbered
<1> QED
  BY <1>2, <1>3, <1>4, <1>5 DEF Numbered, r

\* Sending the next item of s.
LEMMA AppendNumbered ==
  ASSUME NEW s, NEW b \in Nat, NEW c \in Nat, NEW q \in Seq(Event), NEW e \in Event,
         Numbered(s, b, q, c), e.of = s, e.v = c + 1
  PROVE  Numbered(s, b, Append(q, e), c + 1)
<1> DEFINE r == Append(q, e)
<1>1. /\ Len(q) \in Nat /\ Len(r) = Len(q) + 1 /\ r[Len(q) + 1] = e
      /\ \A i \in 1..Len(q) : r[i] = q[i]
  BY AppendElements
<1> HIDE DEF r
<1>2. \A i \in 1..Len(r) : i \in 1..Len(q) \/ i = Len(q) + 1
  BY <1>1
<1>3. b <= c /\ \A i \in 1..Len(q) : q[i].of = s => b < q[i].v /\ q[i].v <= c
  BY DEF Numbered
<1>4. \A i \in 1..Len(q) : q[i].v \in Nat
  <2> SUFFICES ASSUME NEW i \in 1..Len(q) PROVE q[i].v \in Nat
    OBVIOUS
  <2>1. q[i] \in Event
    OBVIOUS
  <2> QED
    BY <2>1, EventFacts
<1>5. ASSUME NEW i \in 1..Len(r), r[i].of = s PROVE b < r[i].v /\ r[i].v <= c + 1
  <2>1. CASE i \in 1..Len(q)
    BY <1>1, <1>3, <1>4, <1>5, <2>1
  <2>2. CASE i = Len(q) + 1
    BY <1>1, <1>3, <2>2
  <2> QED
    BY <1>2, <2>1, <2>2
<1>6. ASSUME NEW i \in 1..Len(r), NEW j \in 1..Len(r), r[i].of = s, r[j].of = s, i < j
      PROVE  r[i].v < r[j].v
  <2>0. i \in 1..Len(q)
    BY <1>1, <1>6
  <2>1. CASE j \in 1..Len(q)
    BY <1>1, <1>6, <2>0, <2>1 DEF Numbered
  <2>2. CASE j = Len(q) + 1
    BY <1>1, <1>3, <1>4, <1>6, <2>0, <2>2
  <2> QED
    BY <1>2, <2>1, <2>2
<1>7. ASSUME NEW n \in (b + 1)..(c + 1) PROVE \E i \in 1..Len(r) : r[i].of = s /\ r[i].v = n
  <2>1. CASE n = c + 1
    <3>1. Len(q) + 1 \in 1..Len(r)
      BY <1>1
    <3> QED
      BY <1>1, <2>1, <3>1
  <2>2. CASE n # c + 1
    <3>1. n \in (b + 1)..c
      BY <2>2
    <3>2. PICK i \in 1..Len(q) : q[i].of = s /\ q[i].v = n
      BY <3>1 DEF Numbered
    <3>3. i \in 1..Len(r)
      BY <1>1
    <3> QED
      BY <1>1, <3>2, <3>3
  <2> QED
    BY <2>1, <2>2
<1>8. b <= c + 1
  BY <1>3
<1>9. Numbered(s, b, r, c + 1)
  BY <1>5, <1>6, <1>7, <1>8 DEF Numbered
<1> QED
  BY <1>9 DEF r

LEMMA AppendOther ==
  ASSUME NEW s, NEW b \in Nat, NEW c \in Nat, NEW q \in Seq(Event), NEW e \in Event,
         Numbered(s, b, q, c), e.of # s
  PROVE  Numbered(s, b, Append(q, e), c)
<1> DEFINE r == Append(q, e)
<1>1. /\ Len(q) \in Nat /\ Len(r) = Len(q) + 1 /\ r[Len(q) + 1] = e
      /\ \A i \in 1..Len(q) : r[i] = q[i]
  BY AppendElements
<1> HIDE DEF r
<1>2. \A i \in 1..Len(r) : r[i].of = s => i \in 1..Len(q)
  BY <1>1
<1>3. ASSUME NEW n \in (b + 1)..c PROVE \E i \in 1..Len(r) : r[i].of = s /\ r[i].v = n
  <2>1. PICK i \in 1..Len(q) : q[i].of = s /\ q[i].v = n
    BY DEF Numbered
  <2>2. i \in 1..Len(r)
    BY <1>1
  <2> QED
    BY <1>1, <2>1, <2>2
<1>4. b <= c
  BY DEF Numbered
<1>5. \A i \in 1..Len(r) : r[i].of = s => b < r[i].v /\ r[i].v <= c
  BY <1>1, <1>2 DEF Numbered
<1>6. \A i, j \in 1..Len(r) : r[i].of = s /\ r[j].of = s /\ i < j => r[i].v < r[j].v
  BY <1>1, <1>2 DEF Numbered
<1> QED
  BY <1>3, <1>4, <1>5, <1>6 DEF Numbered, r

\* The items of one push.
LEMMA PushNumbered ==
  ASSUME NEW s \in Streams, NEW b \in Nat, NEW n \in Nat, NEW q,
         Len(q) = n, \A i \in 1..n : q[i].of = s /\ q[i].v = b + i
  PROVE  Numbered(s, b, q, b + n)
<1>1. \A i \in 1..Len(q) : q[i].of = s /\ q[i].v = b + i
  OBVIOUS
<1>2. ASSUME NEW m \in (b + 1)..(b + n) PROVE \E i \in 1..Len(q) : q[i].of = s /\ q[i].v = m
  <2>1. m - b \in 1..Len(q) /\ b + (m - b) = m
    OBVIOUS
  <2> QED
    BY <1>1, <2>1
<1>3. \A i \in 1..Len(q) : q[i].of = s => b < q[i].v /\ q[i].v <= b + n
  BY <1>1
<1>4. \A i, j \in 1..Len(q) : q[i].of = s /\ q[j].of = s /\ i < j => q[i].v < q[j].v
  BY <1>1
<1>5. b <= b + n
  OBVIOUS
<1> QED
  BY <1>2, <1>3, <1>4, <1>5, Zenon DEF Numbered

(***************************************************************************)
(* Numbers and caches in every step                                        *)
(***************************************************************************)

LEMMA Naturalness ==
  ASSUME TypeOK, NEW s \in Streams
  PROVE  /\ told[s] \in Nat /\ passed[s] \in Nat /\ handed[s] \in Nat
         /\ version[s] \in Nat /\ cached[s] \in Nat
BY DEF TypeOK

LEMMA InitNumbersInv == Init => NumbersInv /\ CacheInv
<1> SUFFICES ASSUME Init, NEW s \in Streams
             PROVE  /\ Numbered(s, told[s], market,
                                IF Topic[s] = "order" THEN told[s] ELSE passed[s])
                    /\ Numbered(s, passed[s], events, handed[s])
                    /\ Numbered(s, handed[s], outbox, version[s])
                    /\ version[s] = 0 /\ cached[s] = 0 /\ passed[s] = 0
  BY DEF NumbersInv, CacheInv
<1>1. Numbered(s, 0, <<>>, 0)
  BY NoItems
<1> QED
  BY <1>1 DEF Init, Zero

LEMMA NumbersUnchanged ==
  ASSUME NumbersInv, outbox' = outbox, events' = events, market' = market,
         told' = told, passed' = passed, handed' = handed, version' = version
  PROVE  NumbersInv'
BY DEF NumbersInv

\* The loop puts statuses into an empty outbox.
LEMMA StatusesNumbered ==
  ASSUME TypeOK, NumbersInv, outbox = <<>>, events' = events, market' = market,
         told' = told, passed' = passed, handed' = handed, version' = version,
         \A i \in 1..Len(outbox') : outbox'[i].of \notin Streams
  PROVE  NumbersInv'
<1> SUFFICES ASSUME NEW s \in Streams PROVE Numbered(s, handed[s], outbox', version[s])
  BY DEF NumbersInv
<1>1. handed[s] = version[s] /\ handed[s] \in Nat
  BY EmptyNumbered, Naturalness DEF NumbersInv
<1> QED
  BY <1>1, NoItems

LEMMA RetryNumbered ==
  ASSUME TypeOK, NumbersInv, outbox = <<>>, Retry, events' = events, market' = market,
         told' = told, passed' = passed, handed' = handed, version' = version
  PROVE  NumbersInv'
<1>1. Status("Disconnected").of \notin Streams /\ Status("Error").of \notin Streams
  BY StatusEvents, NamesAssumption
<1>2. \A i \in 1..Len(outbox') : outbox'[i].of \notin Streams
  BY <1>1 DEF Retry
<1> QED
  BY <1>2, StatusesNumbered

LEMMA DeliverNumbered == TypeOK /\ NumbersInv /\ Deliver => NumbersInv'
<1> SUFFICES ASSUME TypeOK, NumbersInv, Deliver, NEW s \in Streams
             PROVE  /\ Numbered(s, passed[s], events', handed'[s])
                    /\ Numbered(s, handed'[s], outbox', version[s])
  BY DEF NumbersInv, Deliver, reading
<1> DEFINE e == Head(outbox)
<1>0. /\ outbox \in Seq(Event) /\ outbox # <<>> /\ events \in Seq(Event)
      /\ events' = Append(events, e) /\ outbox' = Tail(outbox)
      /\ handed \in [Streams -> 0..MaxVersion]
      /\ handed' = IF e.of \in Streams THEN [handed EXCEPT ![e.of] = e.v] ELSE handed
  BY DEF TypeOK, Deliver
<1>1. e \in Event
  BY <1>0, TailElements
<1>2. /\ Numbered(s, passed[s], events, handed[s]) /\ Numbered(s, handed[s], outbox, version[s])
      /\ passed[s] \in Nat /\ handed[s] \in Nat /\ version[s] \in Nat
  BY Naturalness DEF NumbersInv
<1>3. CASE e.of = s
  <2>1. e.v = handed[s] + 1 /\ Numbered(s, handed[s] + 1, Tail(outbox), version[s])
    <3> DEFINE b == handed[s]
               c == version[s]
    <3>1. /\ b \in Nat /\ c \in Nat /\ Numbered(s, b, outbox, c)
          /\ outbox \in Seq(Event) /\ outbox # <<>> /\ Head(outbox).of = s
      BY <1>0, <1>2, <1>3
    <3> HIDE DEF b, c
    <3>2. e.v = b + 1 /\ Numbered(s, b + 1, Tail(outbox), c)
      BY <3>1, HeadNumbered
    <3> QED
      BY <3>2 DEF b, c
  <2>2. handed'[s] = handed[s] + 1
    BY <1>0, <1>3, <2>1
  <2>3. Numbered(s, passed[s], Append(events, e), handed[s] + 1)
    BY <1>0, <1>1, <1>2, <1>3, <2>1, AppendNumbered
  <2> QED
    BY <1>0, <2>1, <2>2, <2>3
<1>4. CASE e.of # s
  <2>1. Numbered(s, handed[s], Tail(outbox), version[s])
    BY <1>0, <1>2, <1>4, TailNumbered
  <2>2. handed'[s] = handed[s]
    BY <1>0, <1>4
  <2>3. Numbered(s, passed[s], Append(events, e), handed[s])
    BY <1>0, <1>1, <1>2, <1>4, AppendOther
  <2> QED
    BY <1>0, <2>1, <2>2, <2>3
<1> QED
  BY <1>3, <1>4

LEMMA PushNumbersInv ==
  ASSUME TypeOK, NumbersInv, NEW t \in Streams, NEW n \in 1..MaxItems, Push(t, n)
  PROVE  NumbersInv'
<1>1. CASE Filed(t) = Unnamed
  <2>1. /\ outbox = <<>> /\ outbox' = <<Status(Unnamed)>>
        /\ events' = events /\ market' = market /\ told' = told /\ passed' = passed
        /\ handed' = handed /\ version' = version
    BY <1>1 DEF Push, At, pipe, reading
  <2>2. \A i \in 1..Len(outbox') : outbox'[i].of \notin Streams
    BY <2>1, StatusEvents, NamesAssumption
  <2> QED
    BY <2>1, <2>2, StatusesNumbered
<1>2. CASE Filed(t) # Unnamed
  <2> DEFINE key == Filed(t)
  <2>0. /\ key \in Streams /\ version[key] \in Nat
        /\ outbox' = [i \in 1..n |-> [of |-> key, v |-> version[key] + i]] /\ Len(outbox') = n
        /\ version' = [version EXCEPT ![key] = @ + n]
    BY <1>2, PushTypes
  <2>1. /\ outbox = <<>> /\ events' = events /\ market' = market /\ told' = told
        /\ passed' = passed /\ handed' = handed
    BY DEF Push, At, pipe, reading
  <2> SUFFICES ASSUME NEW s \in Streams PROVE Numbered(s, handed[s], outbox', version'[s])
    BY <2>1 DEF NumbersInv
  <2>2. handed[s] = version[s] /\ handed[s] \in Nat
    BY <2>1, EmptyNumbered, Naturalness DEF NumbersInv
  <2>3. CASE s = key
    <3>1. version'[s] = handed[s] + n
      BY <2>0, <2>2, <2>3 DEF TypeOK
    <3>2. \A i \in 1..n : outbox'[i].of = key /\ outbox'[i].v = version[key] + i
      BY <2>0
    <3>3. Numbered(key, version[key], outbox', version[key] + n)
      <4> DEFINE b == version[key]
                 q == outbox'
      <4>1. /\ key \in Streams /\ b \in Nat /\ n \in Nat /\ Len(q) = n
            /\ \A i \in 1..n : q[i].of = key /\ q[i].v = b + i
        BY <2>0, <3>2
      <4> HIDE DEF key, b, q
      <4>2. Numbered(key, b, q, b + n)
        BY <4>1, PushNumbered
      <4> QED
        BY <4>2 DEF key, b, q
    <3> QED
      BY <2>2, <2>3, <3>1, <3>3
  <2>4. CASE s # key
    <3>1. version'[s] = handed[s]
      BY <2>0, <2>2, <2>4 DEF TypeOK
    <3>2. \A i \in 1..Len(outbox') : outbox'[i].of # s
      BY <2>0, <2>4
    <3> QED
      BY <2>2, <3>1, <3>2, NoItems
  <2> QED
    BY <2>3, <2>4
<1> QED
  BY <1>1, <1>2

LEMMA ConvertNumbered == TypeOK /\ NumbersInv /\ Convert => NumbersInv'
<1> SUFFICES ASSUME TypeOK, NumbersInv, Convert, NEW s \in Streams
             PROVE  /\ Numbered(s, told[s], market',
                                IF Topic[s] = "order" THEN told[s] ELSE passed'[s])
                    /\ Numbered(s, passed'[s], events', handed[s])
  BY DEF NumbersInv, Convert, task
<1> DEFINE e == Head(events)
<1>0. /\ events \in Seq(Event) /\ events # <<>> /\ events' = Tail(events)
      /\ market \in Seq(Event) /\ passed \in [Streams -> 0..MaxVersion]
  BY DEF TypeOK, Convert
<1>1. e \in Event
  BY <1>0, TailElements
<1>2. /\ Numbered(s, told[s], market, IF Topic[s] = "order" THEN told[s] ELSE passed[s])
      /\ Numbered(s, passed[s], events, handed[s])
      /\ told[s] \in Nat /\ passed[s] \in Nat /\ handed[s] \in Nat
  BY Naturalness DEF NumbersInv
<1>3. CASE e.of = s
  <2>1. /\ passed' = [passed EXCEPT ![s] = e.v]
        /\ IF Topic[s] = "order" THEN market' = market ELSE market' = Append(market, e)
    BY <1>3, ConvertFacts, NamesAssumption DEF IsMarketEvent
  <2>2. e.v = passed[s] + 1 /\ Numbered(s, passed[s] + 1, Tail(events), handed[s])
    <3> DEFINE b == passed[s]
               c == handed[s]
    <3>1. /\ b \in Nat /\ c \in Nat /\ Numbered(s, b, events, c)
          /\ events \in Seq(Event) /\ events # <<>> /\ Head(events).of = s
      BY <1>0, <1>2, <1>3
    <3> HIDE DEF b, c
    <3>2. e.v = b + 1 /\ Numbered(s, b + 1, Tail(events), c)
      BY <3>1, HeadNumbered
    <3> QED
      BY <3>2 DEF b, c
  <2>3. passed'[s] = passed[s] + 1
    BY <1>0, <2>1, <2>2
  <2>4. CASE Topic[s] = "order"
    BY <1>0, <1>2, <2>1, <2>2, <2>3, <2>4
  <2>5. CASE Topic[s] # "order"
    <3>1. Numbered(s, told[s], market, passed[s]) /\ market' = Append(market, e)
      BY <1>2, <2>1, <2>5
    <3>2. Numbered(s, told[s], Append(market, e), passed[s] + 1)
      BY <1>0, <1>1, <1>2, <1>3, <2>2, <3>1, AppendNumbered
    <3> QED
      BY <1>0, <2>2, <2>3, <2>5, <3>1, <3>2
  <2> QED
    BY <2>4, <2>5
<1>4. CASE e.of # s
  <2>1. passed'[s] = passed[s] /\ (market' = market \/ market' = Append(market, e))
    BY <1>0, <1>4, ConvertFacts
  <2>2. Numbered(s, passed[s], Tail(events), handed[s])
    BY <1>0, <1>2, <1>4, TailNumbered
  <2>3. Numbered(s, told[s], Append(market, e),
                 IF Topic[s] = "order" THEN told[s] ELSE passed[s])
    BY <1>0, <1>1, <1>2, <1>4, AppendOther
  <2> QED
    BY <1>0, <1>2, <2>1, <2>2, <2>3
<1> QED
  BY <1>3, <1>4

LEMMA ReadNumbered == TypeOK /\ NumbersInv /\ Read => NumbersInv'
<1> SUFFICES ASSUME TypeOK, NumbersInv, Read, NEW s \in Streams
             PROVE  Numbered(s, told'[s], market',
                             IF Topic[s] = "order" THEN told'[s] ELSE passed[s])
  BY DEF NumbersInv, Read, task, pipe
<1> DEFINE e == Head(market)
           c == IF Topic[s] = "order" THEN told[s] ELSE passed[s]
<1>0. /\ market \in Seq(Event) /\ market # <<>> /\ market' = Tail(market)
      /\ told \in [Streams -> 0..MaxVersion]
      /\ told' = IF e.of \in Streams THEN [told EXCEPT ![e.of] = e.v] ELSE told
  BY DEF TypeOK, Read
<1>1. Numbered(s, told[s], market, c) /\ told[s] \in Nat /\ c \in Nat
  BY Naturalness DEF NumbersInv
<1> HIDE DEF c
<1>2. CASE e.of = s
  <2>1. e.v = told[s] + 1 /\ told[s] + 1 <= c /\ Numbered(s, told[s] + 1, Tail(market), c)
    BY <1>0, <1>1, <1>2, HeadNumbered
  <2>2. told'[s] = told[s] + 1
    BY <1>0, <1>2, <2>1
  <2>3. Topic[s] # "order"
    BY <1>1, <2>1 DEF c
  <2> QED
    BY <1>0, <2>1, <2>2, <2>3 DEF c
<1>3. CASE e.of # s
  <2>1. told'[s] = told[s]
    BY <1>0, <1>3
  <2>2. Numbered(s, told[s], Tail(market), c)
    BY <1>0, <1>1, <1>3, TailNumbered
  <2> QED
    BY <1>0, <2>1, <2>2 DEF c
<1> QED
  BY <1>2, <1>3

LEMMA StepNumbersInv == TypeOK /\ NumbersInv /\ [Next]_vars => NumbersInv'
<1> SUFFICES ASSUME TypeOK, NumbersInv, [Next]_vars PROVE NumbersInv'
  OBVIOUS
<1>1. CASE Connected
  <2>1. Status("Connected").of \notin Streams
    BY StatusEvents, NamesAssumption
  <2>2. \A i \in 1..Len(outbox') : outbox'[i].of \notin Streams
    BY <1>1, <2>1 DEF Connected
  <2> QED
    BY <1>1, <2>2, StatusesNumbered DEF Connected, At, pipe, reading
<1>2. CASE ConnectFails \/ SessionBreaks \/ NoSenderLeft
  BY <1>2, RetryNumbered DEF ConnectFails, SessionBreaks, NoSenderLeft, At, pipe, reading
<1>3. CASE TakeCommand
  <2>1. CASE Head(commands) = "Shutdown"
    BY <1>3, <2>1, RetryNumbered DEF TakeCommand, At, pipe, reading
  <2>2. CASE Head(commands) # "Shutdown"
    BY <1>3, <2>2, NumbersUnchanged DEF TakeCommand, pipe, reading
  <2> QED
    BY <2>1, <2>2
<1>4. CASE TaskEnds \/ ConverterEnds \/ UNCHANGED vars
  BY <1>4, NumbersUnchanged DEF TaskEnds, ConverterEnds, vars, task, pipe, reading
<1>5. CASE CallerStep
  BY <1>5, NumbersUnchanged DEF CallerStep, Call, CallEnqueued, CallRefused, DropHandle,
                                task, pipe, reading
<1>6. CASE Deliver \/ Convert \/ Read
  BY <1>6, DeliverNumbered, ConvertNumbered, ReadNumbered
<1> QED
  BY <1>1, <1>2, <1>3, <1>4, <1>5, <1>6, PushNumbersInv DEF Next, LoopStep, ReaderStep

\* What a push does to the caches: that of a book follows its items one by one.
LEMMA PushCache ==
  ASSUME TypeOK, NEW t \in Streams, NEW n \in 1..MaxItems, Push(t, n), Filed(t) # Unnamed
  PROVE  /\ Filed(t) \in Streams /\ Topic[Filed(t)] # "market"
         /\ version' = [version EXCEPT ![Filed(t)] = @ + n]
         /\ IF Topic[Filed(t)] = "book"
              THEN n = 1 /\ cached' = [cached EXCEPT ![Filed(t)] = version[Filed(t)] + 1]
              ELSE cached' = cached
<1>1. Filed(t) \in Streams /\ version' = [version EXCEPT ![Filed(t)] = @ + n]
  BY PushTypes
<1>2. /\ Topic[Filed(t)] # "market"
      /\ Topic[Filed(t)] = "book" => Topic[t] = "book"
  BY BookAssumption DEF Filed, ParsedName
<1>3. Topic[t] = "book" => n = 1
  BY DEF Push, ItemsOf
<1>4. IF Topic[Filed(t)] = "book" THEN cached' = [cached EXCEPT ![Filed(t)] = version[Filed(t)] + 1]
                                  ELSE cached' = cached
  BY DEF Push, CacheItem
<1> QED
  BY <1>1, <1>2, <1>3, <1>4

LEMMA StepCacheInv == TypeOK /\ NumbersInv /\ CacheInv /\ [Next]_vars => CacheInv'
<1> SUFFICES ASSUME TypeOK, NumbersInv, CacheInv, [Next]_vars, NEW s \in Streams
             PROVE  /\ Topic[s] = "market" => version'[s] = 0
                    /\ Topic[s] = "book" => cached'[s] = version'[s]
                    /\ Topic[s] = "deal" => cached'[s] = passed'[s]
  BY DEF CacheInv
<1>0. /\ Topic[s] = "market" => version[s] = 0
      /\ Topic[s] = "book" => cached[s] = version[s]
      /\ Topic[s] = "deal" => cached[s] = passed[s]
      /\ cached \in [Streams -> 0..MaxVersion] /\ version \in [Streams -> 0..MaxVersion]
      /\ passed \in [Streams -> 0..MaxVersion]
  BY DEF CacheInv, TypeOK
<1>1. CASE version' = version /\ cached' = cached /\ passed' = passed
  BY <1>0, <1>1
<1>2. CASE Convert
  <2>1. version' = version
    BY <1>2 DEF Convert, task
  <2>2. CASE Head(events).of = s
    BY <1>0, <1>2, <2>1, <2>2, ConvertFacts
  <2>3. CASE Head(events).of # s
    <3>1. cached'[s] = cached[s] /\ passed'[s] = passed[s]
      BY <1>0, <1>2, <2>3, ConvertFacts
    <3> QED
      BY <1>0, <2>1, <3>1
  <2> QED
    BY <2>2, <2>3
<1>3. ASSUME NEW t \in Streams, NEW n \in 1..MaxItems, Push(t, n), Filed(t) # Unnamed
      PROVE  /\ Topic[s] = "market" => version'[s] = 0
             /\ Topic[s] = "book" => cached'[s] = version'[s]
             /\ Topic[s] = "deal" => cached'[s] = passed'[s]
  <2>1. passed' = passed
    BY <1>3 DEF Push, reading
  <2>2. CASE Filed(t) = s
    BY <1>0, <1>3, <2>1, <2>2, PushCache
  <2>3. CASE Filed(t) # s
    <3>1. cached'[s] = cached[s] /\ version'[s] = version[s]
      BY <1>0, <1>3, <2>3, PushCache
    <3> QED
      BY <1>0, <2>1, <3>1
  <2> QED
    BY <2>2, <2>3
<1>4. ASSUME NEW t \in Streams, NEW n \in 1..MaxItems, Push(t, n), Filed(t) = Unnamed
      PROVE  version' = version /\ cached' = cached /\ passed' = passed
  BY <1>4 DEF Push, reading
<1>5. CASE Connected \/ ConnectFails \/ SessionBreaks \/ Deliver \/ TaskEnds \/ NoSenderLeft
           \/ TakeCommand
  BY <1>1, <1>5 DEF Connected, ConnectFails, SessionBreaks, Deliver, TaskEnds, NoSenderLeft,
                    TakeCommand, reading
<1>6. CASE CallerStep
  BY <1>1, <1>6 DEF CallerStep, Call, CallEnqueued, CallRefused, DropHandle, task, reading
<1>7. CASE ConverterEnds \/ Read \/ UNCHANGED vars
  BY <1>1, <1>7 DEF ConverterEnds, Read, vars, task, reading
<1> QED
  BY <1>1, <1>2, <1>3, <1>4, <1>5, <1>6, <1>7 DEF Next, LoopStep, ReaderStep

LEMMA Invariance == Spec => []IInv
<1>1. Init => IInv
  BY InitTypeOK, InitBracketsInv, InitNumbersInv DEF IInv
<1>2. IInv /\ [Next]_vars => IInv'
  BY StepTypeOK, StepAttemptsInv, StepBracketsInv, StepNumbersInv, StepCacheInv DEF IInv
<1> QED
  BY <1>1, <1>2, PTL DEF Spec

(***************************************************************************)
(* The theorems                                                            *)
(***************************************************************************)

\* ws.rs and market.rs: in every state the variables are of their types, and no
\* channel holds more than its capacity.
THEOREM TypeCorrect == Spec => []TypeOK
<1>1. IInv => TypeOK
  BY DEF IInv
<1> QED
  BY <1>1, Invariance, PTL

\* run_ws_loop ends only after as many failed connects in a row as it may make,
\* whatever sessions, shutdowns and lost callers came before.
THEOREM GivesUpLateCorrect == Spec => []GivesUpLate
<1>1. IInv => GivesUpLate
  BY DEF IInv, AttemptsInv
<1> QED
  BY <1>1, Invariance, PTL

\* What the converter takes from the event channel tells it of a session in
\* brackets, however far the loop is ahead of it.
THEOREM NewsInBracketsCorrect == Spec => NewsInBrackets
<1> DEFINE Bracket ==
      /\ Head(events).of \in Streams \cup {Unnamed} => link = "Connected"
      /\ Head(events).of = "Connected" => link = "Disconnected"
      /\ link # "Error"
<1>1. IInv => (Taken => Bracket)
  <2> SUFFICES ASSUME IInv, events # <<>> PROVE Bracket
    BY DEF Taken
  <2>1. events \in Seq(Event) /\ Chain(link, events)
    BY DEF IInv, TypeOK, BracketsInv
  <2>2. Allowed(link, Head(events))
    BY <2>1, ChainTail
  <2> QED
    BY <2>2 DEF Allowed
<1>2. IInv /\ [Next]_vars => [Taken => Bracket]_events
  BY <1>1
<1> QED
  BY <1>2, Invariance, PTL DEF Spec, NewsInBrackets

\* The item the reader takes next is the one after the last it has taken, and the
\* caches hold it already.
LEMMA ReadIsTell ==
  ASSUME IInv, Read, Head(market).of \in Streams
  PROVE  F!Tell(Head(market).of)
<1>0. PICK s \in Streams : Head(market).of = s
  OBVIOUS
<1> DEFINE c == IF Topic[s] = "order" THEN told[s] ELSE passed[s]
<1>1. /\ market \in Seq(Event) /\ market # <<>>
      /\ told \in [Streams -> 0..MaxVersion]
      /\ told' = [told EXCEPT ![s] = Head(market).v] /\ cached' = cached
  BY <1>0 DEF IInv, TypeOK, Read
<1>2. told[s] \in Nat /\ c \in Nat /\ Numbered(s, told[s], market, c)
  BY Naturalness DEF IInv, NumbersInv
<1>3. Head(market).v = told[s] + 1 /\ told[s] + 1 <= c
  <2> DEFINE b == told[s]
  <2>1. /\ b \in Nat /\ c \in Nat /\ Numbered(s, b, market, c)
        /\ Head(market).of = s /\ market \in Seq(Event) /\ market # <<>>
    BY <1>0, <1>1, <1>2
  <2> HIDE DEF b, c
  <2>2. Head(market).v = b + 1 /\ b + 1 <= c /\ Numbered(s, b + 1, Tail(market), c)
    BY <2>1, HeadNumbered
  <2> QED
    BY <2>2 DEF b, c
<1>4. Topic[s] # "order" /\ told[s] < passed[s]
  BY <1>2, <1>3
<1>5. /\ passed[s] <= handed[s] /\ handed[s] <= version[s]
      /\ passed[s] \in Nat /\ handed[s] \in Nat /\ version[s] \in Nat /\ cached[s] \in Nat
  BY Naturalness DEF IInv, NumbersInv, Numbered
<1>6. Topic[s] \in {"market", "book", "deal"}
  BY <1>4, TopicAssumption DEF Topics
<1>7. told[s] < cached[s]
  BY <1>2, <1>4, <1>5, <1>6 DEF IInv, CacheInv
<1>8. told' = [told EXCEPT ![s] = @ + 1]
  BY <1>1, <1>3
<1> QED
  BY <1>0, <1>1, <1>7, <1>8 DEF F!Tell

\* A deal that is converted is the next of its stream to be cached.
LEMMA ConvertIsPublish ==
  ASSUME IInv, Convert, Head(events).of \in Streams, Topic[Head(events).of] = "deal"
  PROVE  F!Publish(Head(events).of)
<1>0. PICK s \in Streams : Head(events).of = s
  OBVIOUS
<1> DEFINE b == passed[s]
           c == handed[s]
<1>1. /\ events \in Seq(Event) /\ events # <<>> /\ told' = told
      /\ cached' = [cached EXCEPT ![s] = Head(events).v]
      /\ cached \in [Streams -> 0..MaxVersion] /\ cached[s] = b
  BY <1>0, ConvertFacts DEF IInv, TypeOK, Convert, CacheInv
<1>2. b \in Nat /\ c \in Nat /\ Numbered(s, b, events, c)
  BY Naturalness DEF IInv, NumbersInv
<1>3. Head(events).v = b + 1
  <2>1. /\ b \in Nat /\ c \in Nat /\ Numbered(s, b, events, c)
        /\ Head(events).of = s /\ events \in Seq(Event) /\ events # <<>>
    BY <1>0, <1>1, <1>2
  <2> HIDE DEF b, c
  <2>2. Head(events).v = b + 1 /\ b + 1 <= c /\ Numbered(s, b + 1, Tail(events), c)
    BY <2>1, HeadNumbered
  <2> QED
    BY <2>2
<1>4. cached' = [cached EXCEPT ![s] = @ + 1]
  BY <1>1, <1>3
<1> QED
  BY <1>0, <1>1, <1>4 DEF F!Publish

\* Every step of the loop, the callers, the converter and the reader is a step of
\* the abstract feed or leaves what it shows alone.
LEMMA StepOfFeed == IInv /\ [Next]_vars => [F!Next]_<<cached, told>>
<1> SUFFICES ASSUME IInv, [Next]_vars PROVE F!Next \/ UNCHANGED <<cached, told>>
  OBVIOUS
<1>0. TypeOK /\ CacheInv
  BY DEF IInv
<1>1. ASSUME NEW t \in Streams, NEW n \in 1..MaxItems, Push(t, n)
      PROVE  F!Next \/ UNCHANGED <<cached, told>>
  <2>1. told' = told
    BY <1>1 DEF Push, reading
  <2>2. CASE Filed(t) = Unnamed
    BY <1>1, <2>1, <2>2 DEF Push
  <2>3. CASE Filed(t) # Unnamed /\ Topic[Filed(t)] = "book"
    <3>1. Filed(t) \in Streams /\ cached' = [cached EXCEPT ![Filed(t)] = version[Filed(t)] + 1]
      BY <1>0, <1>1, <2>3, PushCache
    <3>2. cached[Filed(t)] = version[Filed(t)]
      BY <1>0, <2>3, <3>1 DEF CacheInv
    <3>3. F!Publish(Filed(t))
      BY <2>1, <3>1, <3>2 DEF F!Publish
    <3> QED
      BY <3>1, <3>3 DEF F!Next
  <2>4. CASE Filed(t) # Unnamed /\ Topic[Filed(t)] # "book"
    BY <1>0, <1>1, <2>1, <2>4, PushCache
  <2> QED
    BY <2>2, <2>3, <2>4
<1>2. CASE Convert
  <2>1. CASE Head(events).of \in Streams /\ Topic[Head(events).of] = "deal"
    BY <1>2, <2>1, ConvertIsPublish DEF F!Next
  <2>2. CASE ~(Head(events).of \in Streams /\ Topic[Head(events).of] = "deal")
    <3>1. cached' = cached
      BY <1>2, <2>2, ConvertFacts
    <3> QED
      BY <1>2, <3>1 DEF Convert
  <2> QED
    BY <2>1, <2>2
<1>3. CASE Read
  <2>1. CASE Head(market).of \in Streams
    BY <1>3, <2>1, ReadIsTell DEF F!Next
  <2>2. CASE Head(market).of \notin Streams
    BY <1>3, <2>2 DEF Read
  <2> QED
    BY <2>1, <2>2
<1>4. CASE Connected \/ ConnectFails \/ SessionBreaks \/ Deliver \/ TaskEnds \/ NoSenderLeft
           \/ TakeCommand
  BY <1>4 DEF Connected, ConnectFails, SessionBreaks, Deliver, TaskEnds, NoSenderLeft,
              TakeCommand, reading
<1>5. CASE CallerStep
  BY <1>5 DEF CallerStep, Call, CallEnqueued, CallRefused, DropHandle, reading
<1>6. CASE ConverterEnds \/ UNCHANGED vars
  BY <1>6 DEF ConverterEnds, vars, reading
<1> QED
  BY <1>1, <1>2, <1>3, <1>4, <1>5, <1>6 DEF Next, LoopStep, ReaderStep

\* LbankWebSocket with LbankMarketData refines the feed: each item of each stream
\* reaches the reader once and in order, through two bounded channels, reconnects
\* and the end of the loop, and never before the caches hold it or a newer one.
THEOREM RefinesFeed == Spec => ReadsAsFeed
<1>1. Init => F!Init
  BY DEF Init, F!Init, Zero
<1> QED
  BY <1>1, StepOfFeed, Invariance, PTL DEF Spec, ReadsAsFeed, F!Spec
================================================================================
