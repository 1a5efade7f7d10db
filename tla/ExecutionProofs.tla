--------------------------- MODULE ExecutionProofs ---------------------------
(***************************************************************************)
(* Theorems about the execution crate: OrderExecutor, for any number of    *)
(* closing calls, any volume and any timeout; PositionMonitor with its     *)
(* engine, for any positions, spreads, ratios and limits.  The two share   *)
(* no state: what the engine is told of the executor's orders comes from   *)
(* outside.                                                                *)
(***************************************************************************)
EXTENDS OrderExecutor, PositionMonitor, TLAPS

(***************************************************************************)
(* The order executor                                                      *)
(***************************************************************************)

OnItsWay(c, kind) == Request(c, kind) \in network
Answer(c, kind, a) == [from |-> c, kind |-> kind, answer |-> a] \in answers

\* Nothing is under way for a caller that has not started.
IdleInv ==
  \A c \in Callers :
    /\ pc[c] = "idle" =>
         \A k \in Kinds : ~OnItsWay(c, k) /\ \A a \in Answers : ~Answer(c, k, a)
    /\ outcome[c] # "none" => pc[c] = "done"

\* The position is opened by one request, which is gone when a closer starts.
OpenInv ==
  /\ \A c \in Closers : pc[c] # "idle" => outcome[Opener] = "ok"
  /\ pc[Opener] = "idle" => held = 0
  /\ OnItsWay(Opener, "open") =>
       held = 0 /\ outcome[Opener] # "ok" /\ \A a \in Answers : ~Answer(Opener, "open", a)
  /\ Answer(Opener, "open", "err") => held = 0
  /\ outcome[Opener] = "err" /\ Request(Opener, "open") \notin unanswered =>
       held = 0 /\ ~OnItsWay(Opener, "open")

\* A market order that went through has left nothing, and since nothing can be
\* opened any more it stays so.
MarketInv ==
  \A c \in Closers :
    /\ Answer(c, "market", "ok") => held = 0
    /\ outcome[c] = "ok" => held = 0

\* The GTC order of a call is neither on its way nor resting ...
NoGtc(c) == resting[c] = 0 /\ ~OnItsWay(c, "gtc")

\* ... or the call never learnt the order's id or the end of its cancel.
Lost(c) == {Request(c, "gtc"), Request(c, "cancel")} \cap unanswered # {}

GtcOf(c) ==
  /\ pc[c] = "idle" => resting[c] = 0
  /\ OnItsWay(c, "gtc") => resting[c] = 0
  /\ \A a \in Answers : Answer(c, "gtc", a) => ~OnItsWay(c, "gtc")
  /\ Answer(c, "gtc", "err") => resting[c] = 0
  /\ pc[c] \in {"polling", "cancel"} \/ OnItsWay(c, "cancel") => ~OnItsWay(c, "gtc")
  /\ \A a \in Answers : Answer(c, "cancel", a) => NoGtc(c)
  /\ pc[c] \in {"market", "done"} => NoGtc(c) \/ Lost(c)

GtcInv == \A c \in Closers : GtcOf(c)

\* Nothing is left of the position, or the exchange closes by another direction.
GoneOrBarred == held = 0 \/ CloseOnWire(Side) # closesBy

\* A refused market order means one of the two, and either stays.
AcceptInv ==
  \A c \in Closers :
    /\ Answer(c, "market", "err") => GoneOrBarred
    /\ outcome[c] = "err" /\ Request(c, "market") \notin unanswered => GoneOrBarred

IInv == TypeOK /\ IdleInv /\ OpenInv /\ MarketInv /\ GtcInv

USE CallersAssumption, VolumeAssumption, GtcPollsAssumption

(***************************************************************************)
(* What the building blocks do to requests and answers                     *)
(***************************************************************************)

\* Requests differ in their caller or their kind.
LEMMA RequestFacts ==
  ASSUME NEW c \in Callers, NEW k \in Kinds
  PROVE  /\ Request(c, k) \in Requests
         /\ \A d \in Callers, j \in Kinds : Request(c, k) = Request(d, j) <=> c = d /\ k = j
BY DEF Request, Requests

\* Sending adds one request and leaves the other callers where they are.
LEMMA SendFacts ==
  ASSUME TypeOK, NEW c \in Callers, NEW k \in Kinds, Send(c, k)
  PROVE  /\ network' \subseteq Requests
         /\ \A d \in Callers, j \in Kinds :
              OnItsWay(d, j)' <=> OnItsWay(d, j) \/ (d = c /\ j = k)
         /\ pc' \in [Callers -> Kinds \cup {"idle", "polling", "done"}]
         /\ pc'[c] = k
         /\ \A d \in Callers \ {c} : pc'[d] = pc[d]
BY RequestFacts DEF Send, OnItsWay, TypeOK

\* The end of an await takes its answer away; without one the caller is left
\* not knowing, and the history remembers it.
LEMMA AwaitFacts ==
  ASSUME TypeOK, NEW c \in Callers, NEW k \in Kinds, NEW a \in Answers, Await(c, k, a)
  PROVE  /\ pc[c] = k
         /\ answers' \subseteq answers
         /\ \A d \in Callers, j \in Kinds, b \in Answers : Answer(d, j, b)' => Answer(d, j, b)
         /\ unanswered \subseteq unanswered'
         /\ unanswered' \subseteq Requests
         /\ Answer(c, k, a) \/ a = "err"
         /\ Request(c, k) \notin unanswered' => Answer(c, k, a) /\ a # "no_id"
         /\ \A d \in Callers, j \in Kinds :
              Request(d, j) \in unanswered' => Request(d, j) \in unanswered \/ (d = c /\ j = k)
BY RequestFacts DEF Await, Answer, TypeOK, Requests, Request, Answers

\* Executing a request takes it off the network and adds its one answer.
Executed(c, k) ==
  /\ OnItsWay(c, k)
  /\ network' \subseteq Requests
  /\ \A d \in Callers, j \in Kinds : OnItsWay(d, j)' <=> OnItsWay(d, j) /\ ~(d = c /\ j = k)
  /\ answers' \subseteq [from : Callers, kind : Kinds, answer : Answers]
  /\ \A d \in Callers, j \in Kinds, a \in Answers :
       Answer(d, j, a)' => Answer(d, j, a) \/ (d = c /\ j = k)
  /\ UNCHANGED <<closesBy, pc, elapsed, outcome, unanswered>>

LEMMA ExecuteFacts ==
  ASSUME TypeOK, NEW c \in Callers, NEW k \in Kinds, NEW accepted \in BOOLEAN,
         Execute(Request(c, k), accepted)
  PROVE  /\ Executed(c, k)
         /\ accepted => (Answer(c, k, "err")' => Answer(c, k, "err"))
         /\ ~accepted => (Answer(c, k, "ok")' => Answer(c, k, "ok"))
<1>1. /\ Request(c, k) \in network
      /\ network' = network \ {Request(c, k)}
      /\ UNCHANGED <<closesBy, pc, elapsed, outcome, unanswered>>
  BY DEF Execute
<1>2. Request(c, k).from = c /\ Request(c, k).kind = k
  BY DEF Request
<1>3. PICK b \in Answers : /\ b = "err" <=> ~accepted
                           /\ answers' = answers \cup {[from |-> c, kind |-> k, answer |-> b]}
  BY <1>2 DEF Execute, Answers
<1>4. \A d \in Callers, j \in Kinds, a \in Answers :
        [from |-> d, kind |-> j, answer |-> a] = [from |-> c, kind |-> k, answer |-> b]
          => d = c /\ j = k /\ a = b
  OBVIOUS
<1>5. \A d \in Callers, j \in Kinds, a \in Answers :
        Answer(d, j, a)' => Answer(d, j, a) \/ (d = c /\ j = k /\ a = b)
  BY <1>3, <1>4 DEF Answer
<1>6. Executed(c, k)
  BY <1>1, <1>3, <1>5, RequestFacts DEF Executed, OnItsWay, TypeOK
<1> QED
  BY <1>3, <1>5, <1>6 DEF Answers

\* ExecuteFacts for each kind of request, with what it does to the books.
LEMMA OpenExecuted ==
  ASSUME TypeOK, ExecuteOpen
  PROVE  /\ Executed(Opener, "open") /\ UNCHANGED resting /\ held' \in {held, Volume}
         /\ (Answer(Opener, "open", "err")' => Answer(Opener, "open", "err")) \/ held' = held
<1>1. PICK accepted \in BOOLEAN :
        /\ Execute(Request(Opener, "open"), accepted)
        /\ held' = IF accepted THEN Volume ELSE held
        /\ UNCHANGED resting
  BY DEF ExecuteOpen
<1> QED
  BY <1>1, ExecuteFacts DEF Callers, Kinds

LEMMA GtcExecuted ==
  ASSUME TypeOK, NEW c \in Closers, ExecuteGtc(c)
  PROVE  /\ Executed(c, "gtc") /\ UNCHANGED held
         /\ resting' = resting \/ resting' = [resting EXCEPT ![c] = Volume]
         /\ resting' # resting => (Answer(c, "gtc", "err")' => Answer(c, "gtc", "err"))
<1>1. ClosingAccepted \in BOOLEAN
  BY DEF ClosingAccepted
<1> QED
  BY <1>1, ExecuteFacts DEF ExecuteGtc, Callers, Kinds

LEMMA CancelExecuted ==
  ASSUME TypeOK, NEW c \in Closers, ExecuteCancel(c)
  PROVE  Executed(c, "cancel") /\ resting' = [resting EXCEPT ![c] = 0] /\ UNCHANGED held
<1> DEFINE rests == resting[c] > 0
<1>1. rests \in BOOLEAN /\ Execute(Request(c, "cancel"), rests)
  BY DEF ExecuteCancel
<1>2. resting' = [resting EXCEPT ![c] = 0] /\ UNCHANGED held
  BY DEF ExecuteCancel
<1> HIDE DEF rests
<1> QED
  BY <1>1, <1>2, ExecuteFacts DEF Callers, Kinds

LEMMA MarketExecuted ==
  ASSUME TypeOK, NEW c \in Closers, ExecuteMarket(c)
  PROVE  /\ Executed(c, "market") /\ UNCHANGED resting
         /\ held' = 0 \/ (held' = held /\ ~ClosingAccepted)
         /\ held' # 0 => (Answer(c, "market", "ok")' => Answer(c, "market", "ok"))
<1>1. ClosingAccepted \in BOOLEAN
  BY DEF ClosingAccepted
<1> QED
  BY <1>1, ExecuteFacts DEF ExecuteMarket, Callers, Kinds

\* Of the three executions for a closer, what they have in common.
LEMMA CloserExecuted ==
  ASSUME TypeOK, NEW c \in Closers, ExecuteGtc(c) \/ ExecuteCancel(c) \/ ExecuteMarket(c)
  PROVE  /\ \E k \in Kinds : Executed(c, k)
         /\ held' \in {held, 0}
         /\ resting' \in [Closers -> 0..Volume]
         /\ \A d \in Closers \ {c} : resting'[d] = resting[d]
<1>0. resting \in [Closers -> 0..Volume] /\ {"open", "gtc", "cancel", "market"} = Kinds
  BY DEF TypeOK, Kinds
<1>1. CASE ExecuteGtc(c)
  <2>1. Executed(c, "gtc") /\ held' = held
        /\ (resting' = [resting EXCEPT ![c] = Volume] \/ resting' = resting)
    BY <1>1, GtcExecuted
  <2> QED
    BY <1>0, <2>1
<1>2. CASE ExecuteCancel(c)
  <2>1. Executed(c, "cancel") /\ held' = held /\ resting' = [resting EXCEPT ![c] = 0]
    BY <1>2, CancelExecuted
  <2> QED
    BY <1>0, <2>1
<1>3. CASE ExecuteMarket(c)
  <2>1. Executed(c, "market") /\ held' \in {held, 0} /\ resting' = resting
    BY <1>3, MarketExecuted
  <2> QED
    BY <1>0, <2>1
<1> QED
  BY <1>1, <1>2, <1>3

\* A call that returns is done and has the result.
LEMMA FinishFacts ==
  ASSUME TypeOK, NEW c \in Callers, NEW result \in {"ok", "err"}, Finish(c, result)
  PROVE  /\ pc' \in [Callers -> Kinds \cup {"idle", "polling", "done"}]
         /\ outcome' \in [Callers -> {"none", "ok", "err"}]
         /\ pc'[c] = "done" /\ outcome'[c] = result
         /\ \A d \in Callers \ {c} : pc'[d] = pc[d] /\ outcome'[d] = outcome[d]
BY DEF Finish, TypeOK

(***************************************************************************)
(* The invariant                                                           *)
(***************************************************************************)

\* Nothing has happened initially.
LEMMA InitIInv == Init => IInv
BY DEF Init, IInv, TypeOK, IdleInv, OpenInv, MarketInv, GtcInv, GtcOf, NoGtc, OnItsWay,
       Answer, Callers, Requests

\* A step of closer c, or of the exchange on its requests and orders.
CloserSteps(c) ==
  \/ PlaceGtc(c) \/ CloseAtMarket(c) \/ Poll(c) \/ CancelGtc(c)
  \/ ExecuteGtc(c) \/ ExecuteCancel(c) \/ ExecuteMarket(c) \/ FillGtc(c)
  \/ \E a \in Answers : GtcAnswered(c, a) \/ CancelAnswered(c, a) \/ MarketAnswered(c, a)

LEMMA StepCases ==
  ASSUME [Next]_vars
  PROVE  \/ PlaceOpen \/ ExecuteOpen \/ UNCHANGED vars
         \/ \E a \in Answers : OpenAnswered(a)
         \/ \E c \in Closers : CloserSteps(c)
BY DEF Next, ClientStep, ExchangeStep, CloserSteps

\* The exchange keeps to the direction it closes by.
LEMMA DirectionStays == ASSUME [Next]_vars PROVE closesBy' = closesBy
<1> USE DEF exchange
<1>1. CASE PlaceOpen \/ ExecuteOpen
  BY <1>1 DEF PlaceOpen, ExecuteOpen, Execute
<1>2. ASSUME NEW a \in Answers, OpenAnswered(a) PROVE closesBy' = closesBy
  BY <1>2 DEF OpenAnswered
<1>3. ASSUME NEW c \in Closers, CloserSteps(c) PROVE closesBy' = closesBy
  BY <1>3 DEF CloserSteps, PlaceGtc, CloseAtMarket, Poll, CancelGtc, ExecuteGtc, ExecuteCancel,
              ExecuteMarket, FillGtc, Execute, GtcAnswered, CancelAnswered, MarketAnswered
<1>4. CASE UNCHANGED vars
  BY <1>4 DEF vars
<1> QED
  BY <1>1, <1>2, <1>3, <1>4, StepCases

\* One lemma for each part of the invariant: every step preserves it.
LEMMA StepTypeOK == TypeOK /\ [Next]_vars => TypeOK'
<1> SUFFICES ASSUME TypeOK, [Next]_vars PROVE TypeOK'
  OBVIOUS
<1> USE DEF exchange
<1>0. Opener \in Callers /\ Closers \subseteq Callers /\ ClosingAccepted \in BOOLEAN
      /\ {"open", "gtc", "cancel", "market"} = Kinds
  BY DEF Callers, ClosingAccepted, Kinds
<1>1. CASE PlaceOpen
  BY <1>0, <1>1, SendFacts DEF PlaceOpen, TypeOK
<1>2. CASE ExecuteOpen
  BY <1>2, OpenExecuted DEF Executed, TypeOK
<1>3. ASSUME NEW a \in Answers, OpenAnswered(a) PROVE TypeOK'
  BY <1>0, <1>3, AwaitFacts, FinishFacts DEF OpenAnswered, TypeOK
<1>4. ASSUME NEW c \in Closers,
             \/ PlaceGtc(c) \/ CloseAtMarket(c) \/ Poll(c) \/ CancelGtc(c)
             \/ ExecuteGtc(c) \/ ExecuteCancel(c) \/ ExecuteMarket(c) \/ FillGtc(c)
      PROVE  TypeOK'
  <2>1. CASE PlaceGtc(c) \/ CloseAtMarket(c) \/ CancelGtc(c)
    BY <1>0, <2>1, SendFacts DEF PlaceGtc, CloseAtMarket, CancelGtc, TypeOK
  <2>2. CASE Poll(c)
    BY <2>2 DEF Poll, TypeOK
  <2>3. CASE FillGtc(c)
    BY <2>3 DEF FillGtc, TypeOK
  <2>4. CASE ExecuteGtc(c) \/ ExecuteCancel(c) \/ ExecuteMarket(c)
    BY <2>4, CloserExecuted DEF Executed, TypeOK
  <2> QED
    BY <1>4, <2>1, <2>2, <2>3, <2>4
<1>5. ASSUME NEW c \in Closers, NEW a \in Answers,
             GtcAnswered(c, a) \/ CancelAnswered(c, a) \/ MarketAnswered(c, a)
      PROVE  TypeOK'
  <2>1. CASE GtcAnswered(c, a)
    <3>1. pc' \in [Callers -> Kinds \cup {"idle", "polling", "done"}] /\ network' \subseteq Requests
      BY <1>0, <2>1, SendFacts DEF GtcAnswered, TypeOK
    <3> QED
      BY <1>0, <2>1, <3>1, AwaitFacts DEF GtcAnswered, TypeOK
  <2>2. CASE CancelAnswered(c, a)
    BY <1>0, <2>2, AwaitFacts, SendFacts DEF CancelAnswered, TypeOK
  <2>3. CASE MarketAnswered(c, a)
    BY <1>0, <2>3, AwaitFacts, FinishFacts DEF MarketAnswered, TypeOK
  <2> QED
    BY <1>5, <2>1, <2>2, <2>3
<1>6. CASE UNCHANGED vars
  BY <1>6 DEF vars, TypeOK
<1> QED
  BY <1>1, <1>2, <1>3, <1>4, <1>5, <1>6, StepCases DEF CloserSteps

\* Only the caller's own first request ends its idleness.
LEMMA StepIdleInv == TypeOK /\ IdleInv /\ [Next]_vars => IdleInv'
<1> SUFFICES ASSUME TypeOK, IdleInv, [Next]_vars PROVE IdleInv'
  OBVIOUS
<1> USE DEF exchange
<1>0. Opener \in Callers /\ Closers \subseteq Callers /\ ClosingAccepted \in BOOLEAN
      /\ {"open", "gtc", "cancel", "market"} = Kinds /\ Answers = {"ok", "no_id", "err"}
  BY DEF Callers, ClosingAccepted, Kinds, Answers
<1>1. CASE PlaceOpen
  BY <1>0, <1>1, SendFacts DEF PlaceOpen, IdleInv, Answer
<1>2. CASE ExecuteOpen
  BY <1>0, <1>2, OpenExecuted DEF Executed, IdleInv
<1>3. ASSUME NEW a \in Answers, OpenAnswered(a) PROVE IdleInv'
  BY <1>0, <1>3, AwaitFacts, FinishFacts DEF OpenAnswered, IdleInv, OnItsWay
<1>4. ASSUME NEW c \in Closers, PlaceGtc(c) \/ CloseAtMarket(c) \/ CancelGtc(c)
      PROVE  IdleInv'
  BY <1>0, <1>4, SendFacts DEF PlaceGtc, CloseAtMarket, CancelGtc, MayClose, IdleInv, Answer
<1>5. ASSUME NEW c \in Closers, Poll(c) \/ FillGtc(c) PROVE IdleInv'
  BY <1>5 DEF Poll, FillGtc, IdleInv, OnItsWay, Answer
<1>6. ASSUME NEW c \in Closers, ExecuteGtc(c) \/ ExecuteCancel(c) \/ ExecuteMarket(c)
      PROVE  IdleInv'
  BY <1>0, <1>6, GtcExecuted, CancelExecuted, MarketExecuted DEF Executed, IdleInv
<1>7. ASSUME NEW c \in Closers, NEW a \in Answers,
             GtcAnswered(c, a) \/ CancelAnswered(c, a) \/ MarketAnswered(c, a)
      PROVE  IdleInv'
  <2>1. CASE GtcAnswered(c, a) /\ a # "ok"
    BY <1>0, <2>1, AwaitFacts, SendFacts DEF GtcAnswered, IdleInv
  <2>2. CASE GtcAnswered(c, a) /\ a = "ok"
    BY <1>0, <2>2, AwaitFacts DEF GtcAnswered, IdleInv, OnItsWay, TypeOK
  <2>3. CASE CancelAnswered(c, a)
    BY <1>0, <2>3, AwaitFacts, SendFacts DEF CancelAnswered, IdleInv
  <2>4. CASE MarketAnswered(c, a)
    BY <1>0, <2>4, AwaitFacts, FinishFacts DEF MarketAnswered, IdleInv, OnItsWay
  <2> QED
    BY <1>7, <2>1, <2>2, <2>3, <2>4
<1>8. CASE UNCHANGED vars
  BY <1>8 DEF vars, IdleInv, OnItsWay, Answer
<1> QED
  BY <1>1, <1>2, <1>3, <1>4, <1>5, <1>6, <1>7, <1>8, StepCases DEF CloserSteps

\* What a step of one closer, or of the exchange for it, leaves alone.
Frame(c) ==
  /\ \A d \in Callers \ {c} :
       /\ pc'[d] = pc[d] /\ outcome'[d] = outcome[d]
       /\ \A k \in Kinds :
            /\ OnItsWay(d, k)' <=> OnItsWay(d, k)
            /\ Request(d, k) \in unanswered' <=> Request(d, k) \in unanswered
            /\ \A a \in Answers : Answer(d, k, a)' => Answer(d, k, a)
  /\ \A d \in Closers \ {c} : resting'[d] = resting[d]
  /\ held = 0 => held' = 0

\* Closers share the position and nothing else.
LEMMA CloserFrame ==
  ASSUME TypeOK, NEW c \in Closers, CloserSteps(c) PROVE Frame(c)
<1> USE DEF exchange
<1>0. c \in Callers /\ {"open", "gtc", "cancel", "market"} = Kinds
  BY DEF Callers, Kinds
<1>1. CASE PlaceGtc(c) \/ CloseAtMarket(c) \/ CancelGtc(c)
  BY <1>0, <1>1, SendFacts DEF PlaceGtc, CloseAtMarket, CancelGtc, Frame, Answer
<1>2. CASE Poll(c)
  BY <1>2 DEF Poll, Frame, Answer, OnItsWay
<1>3. CASE FillGtc(c)
  BY <1>3 DEF FillGtc, Frame, Answer, OnItsWay, TypeOK
<1>4. CASE ExecuteGtc(c) \/ ExecuteCancel(c) \/ ExecuteMarket(c)
  BY <1>4, CloserExecuted DEF Executed, Frame
<1>5. ASSUME NEW a \in Answers, GtcAnswered(c, a) \/ CancelAnswered(c, a) \/ MarketAnswered(c, a)
      PROVE  Frame(c)
  <2>1. CASE GtcAnswered(c, a) /\ a # "ok"
    BY <1>0, <2>1, AwaitFacts, SendFacts DEF GtcAnswered, Frame
  <2>2. CASE GtcAnswered(c, a) /\ a = "ok"
    <3>1. \A d \in Callers \ {c} : pc'[d] = pc[d]
      BY <2>2 DEF GtcAnswered, TypeOK
    <3> QED
      BY <1>0, <2>2, <3>1, AwaitFacts DEF GtcAnswered, Frame, OnItsWay
  <2>3. CASE CancelAnswered(c, a)
    BY <1>0, <2>3, AwaitFacts, SendFacts DEF CancelAnswered, Frame
  <2>4. CASE MarketAnswered(c, a)
    BY <1>0, <2>4, AwaitFacts, FinishFacts DEF MarketAnswered, Frame, OnItsWay
  <2> QED
    BY <1>5, <2>1, <2>2, <2>3, <2>4
<1> QED
  BY <1>1, <1>2, <1>3, <1>4, <1>5 DEF CloserSteps

\* The opener sends its request once, from idle.
LEMMA StepOpenInv == TypeOK /\ IdleInv /\ OpenInv /\ [Next]_vars => OpenInv'
<1> SUFFICES ASSUME TypeOK, IdleInv, OpenInv, [Next]_vars PROVE OpenInv'
  OBVIOUS
<1> USE DEF exchange
<1>0. /\ Opener \in Callers /\ Closers \subseteq Callers /\ Opener \notin Closers
      /\ {"open", "gtc", "cancel", "market"} = Kinds /\ Answers = {"ok", "no_id", "err"}
  BY DEF Callers, Kinds, Answers
<1>1. CASE PlaceOpen
  <2>1. pc[Opener] = "idle" /\ Send(Opener, "open")
        /\ UNCHANGED <<held, answers, outcome, unanswered>>
    BY <1>1 DEF PlaceOpen
  <2>2. outcome[Opener] = "none" /\ held = 0 /\ \A a \in Answers : ~Answer(Opener, "open", a)
    BY <1>0, <2>1 DEF IdleInv, OpenInv, TypeOK
  <2> QED
    BY <1>0, <2>1, <2>2, SendFacts DEF OpenInv, Answer
<1>2. CASE ExecuteOpen
  <2>1. pc[Opener] # "idle"
    BY <1>0, <1>2, OpenExecuted DEF Executed, IdleInv
  <2> QED
    BY <1>0, <1>2, <2>1, OpenExecuted DEF Executed, OpenInv
<1>3. ASSUME NEW a \in Answers, OpenAnswered(a) PROVE OpenInv'
  <2>1. outcome[Opener] # "ok"
    BY <1>0, <1>3, AwaitFacts DEF OpenAnswered, IdleInv
  <2> QED
    BY <1>0, <1>3, <2>1, AwaitFacts, FinishFacts DEF OpenAnswered, OpenInv, OnItsWay
<1>4. ASSUME NEW c \in Closers, CloserSteps(c) PROVE OpenInv'
  <2>1. pc'[c] # "idle" => outcome[Opener] = "ok"
    <3>1. CASE pc[c] # "idle"
      BY <3>1 DEF OpenInv
    <3>2. CASE PlaceGtc(c) \/ CloseAtMarket(c)
      BY <3>2 DEF PlaceGtc, CloseAtMarket, MayClose
    <3>3. CASE ExecuteGtc(c) \/ ExecuteCancel(c) \/ ExecuteMarket(c) \/ FillGtc(c)
      BY <1>0, <3>3, GtcExecuted, CancelExecuted, MarketExecuted DEF Executed, FillGtc, OpenInv
    <3> QED
      BY <1>4, <3>1, <3>2, <3>3
         DEF CloserSteps, Poll, CancelGtc, GtcAnswered, CancelAnswered, MarketAnswered, Await
  <2> QED
    BY <1>0, <1>4, <2>1, CloserFrame DEF Frame, OpenInv
<1>5. CASE UNCHANGED vars
  BY <1>5 DEF vars, OpenInv, OnItsWay, Answer
<1> QED
  BY <1>1, <1>2, <1>3, <1>4, <1>5, StepCases

\* While the opening order is on its way nobody has anything to close.
LEMMA NoCloserYet ==
  ASSUME IdleInv, OpenInv, OnItsWay(Opener, "open"), NEW c \in Closers
  PROVE  /\ pc[c] = "idle" /\ outcome[c] = "none"
         /\ \A k \in Kinds, a \in Answers : ~Answer(c, k, a)
BY DEF IdleInv, OpenInv, Callers, Kinds

\* Answers and results of "ok" appear only where the position is gone.
LEMMA StepMarketInv ==
  TypeOK /\ IdleInv /\ OpenInv /\ MarketInv /\ [Next]_vars => MarketInv'
<1> SUFFICES ASSUME TypeOK, IdleInv, OpenInv, MarketInv, [Next]_vars PROVE MarketInv'
  OBVIOUS
<1> USE DEF exchange
<1>0. /\ Opener \in Callers /\ Closers \subseteq Callers /\ Opener \notin Closers
      /\ {"open", "gtc", "cancel", "market"} = Kinds /\ Answers = {"ok", "no_id", "err"}
  BY DEF Callers, Kinds, Answers
<1>1. CASE PlaceOpen
  BY <1>1 DEF PlaceOpen, MarketInv, Answer
<1>2. CASE ExecuteOpen
  <2>1. OnItsWay(Opener, "open")
    BY <1>2, OpenExecuted DEF Executed
  <2> QED
    BY <1>0, <1>2, <2>1, OpenExecuted, NoCloserYet DEF Executed, MarketInv
<1>3. ASSUME NEW a \in Answers, OpenAnswered(a) PROVE MarketInv'
  BY <1>0, <1>3, AwaitFacts, FinishFacts DEF OpenAnswered, MarketInv
<1>4. ASSUME NEW c \in Closers, CloserSteps(c) PROVE MarketInv'
  <2>1. Frame(c)
    BY <1>4, CloserFrame
  <2>2. Answer(c, "market", "ok")' => held' = 0
    <3>1. CASE ExecuteMarket(c)
      BY <3>1, MarketExecuted DEF MarketInv
    <3>2. CASE ExecuteGtc(c) \/ ExecuteCancel(c)
      BY <1>0, <2>1, <3>2, GtcExecuted, CancelExecuted DEF Executed, Frame, MarketInv
    <3>3. CASE PlaceGtc(c) \/ CloseAtMarket(c) \/ Poll(c) \/ CancelGtc(c) \/ FillGtc(c)
      BY <2>1, <3>3
         DEF PlaceGtc, CloseAtMarket, Poll, CancelGtc, FillGtc, Frame, MarketInv, Answer
    <3>4. ASSUME NEW a \in Answers, GtcAnswered(c, a) \/ CancelAnswered(c, a) \/ MarketAnswered(c, a)
          PROVE  Answer(c, "market", "ok")' => held' = 0
      BY <1>0, <2>1, <3>4, AwaitFacts
         DEF GtcAnswered, CancelAnswered, MarketAnswered, Frame, MarketInv
    <3> QED
      BY <1>4, <3>1, <3>2, <3>3, <3>4 DEF CloserSteps
  <2>3. outcome'[c] = "ok" => held' = 0
    <3>1. CASE \E a \in Answers : MarketAnswered(c, a)
      BY <1>0, <3>1, AwaitFacts, FinishFacts DEF MarketAnswered, MarketInv
    <3>2. CASE outcome' = outcome
      BY <2>1, <3>2 DEF Frame, MarketInv
    <3>3. CASE ExecuteGtc(c) \/ ExecuteCancel(c) \/ ExecuteMarket(c)
      BY <3>2, <3>3, CloserExecuted DEF Executed
    <3> QED
      BY <1>4, <3>1, <3>2, <3>3
         DEF CloserSteps, PlaceGtc, CloseAtMarket, Poll, CancelGtc, FillGtc, GtcAnswered,
             CancelAnswered
  <2> QED
    BY <1>0, <2>1, <2>2, <2>3 DEF Frame, MarketInv
<1>5. CASE UNCHANGED vars
  BY <1>5 DEF vars, MarketInv, Answer
<1> QED
  BY <1>1, <1>2, <1>3, <1>4, <1>5, StepCases

\* A GTC order is sent once, before the cancel and the market order.
LEMMA StepGtcInv ==
  TypeOK /\ IdleInv /\ GtcInv /\ [Next]_vars => GtcInv'
<1> SUFFICES ASSUME TypeOK, IdleInv, GtcInv, [Next]_vars PROVE GtcInv'
  OBVIOUS
<1> USE DEF exchange
<1>0. /\ Opener \in Callers /\ Closers \subseteq Callers /\ Opener \notin Closers
      /\ {"open", "gtc", "cancel", "market"} = Kinds /\ Answers = {"ok", "no_id", "err"}
  BY DEF Callers, Kinds, Answers
<1>1. CASE PlaceOpen
  BY <1>0, <1>1, SendFacts DEF PlaceOpen, GtcInv, GtcOf, NoGtc, Lost, Answer
<1>2. CASE ExecuteOpen
  BY <1>0, <1>2, OpenExecuted DEF Executed, GtcInv, GtcOf, NoGtc, Lost
<1>3. ASSUME NEW a \in Answers, OpenAnswered(a) PROVE GtcInv'
  <2>1. \A c \in Closers : pc'[c] = pc[c]
    BY <1>0, <1>3, FinishFacts DEF OpenAnswered
  <2> QED
    BY <1>0, <1>3, <2>1, AwaitFacts DEF OpenAnswered, GtcInv, GtcOf, NoGtc, Lost, OnItsWay
<1>4. ASSUME NEW c \in Closers, CloserSteps(c) PROVE GtcInv'
  <2>1. \A d \in Closers \ {c} : GtcOf(d)'
    BY <1>0, <1>4, CloserFrame DEF Frame, GtcInv, GtcOf, NoGtc, Lost
  <2> SUFFICES GtcOf(c)'
    BY <2>1 DEF GtcInv
  <2>2. GtcOf(c) /\ resting \in [Closers -> 0..Volume]
    BY DEF GtcInv, TypeOK
  <2>3. CASE PlaceGtc(c) \/ CloseAtMarket(c)
    BY <1>0, <2>2, <2>3, SendFacts
       DEF PlaceGtc, CloseAtMarket, MayClose, IdleInv, GtcOf, NoGtc, Lost, Answer
  <2>4. CASE Poll(c)
    BY <2>2, <2>4 DEF Poll, GtcOf, NoGtc, Lost, OnItsWay, Answer
  <2>5. CASE CancelGtc(c)
    BY <1>0, <2>2, <2>5, SendFacts DEF CancelGtc, GtcOf, NoGtc, Lost, Answer
  <2>6. CASE FillGtc(c)
    <3>1. resting'[c] < resting[c] /\ resting'[c] \in Nat /\ resting[c] # 0
      BY <2>2, <2>6 DEF FillGtc
    <3> QED
      BY <2>2, <2>6, <3>1 DEF FillGtc, GtcOf, NoGtc, Lost, OnItsWay, Answer
  <2>7. CASE ExecuteGtc(c)
    BY <1>0, <2>2, <2>7, GtcExecuted DEF Executed, IdleInv, GtcOf, NoGtc, Lost
  <2>8. CASE ExecuteCancel(c)
    <3>1. resting'[c] = 0
      BY <2>2, <2>8, CancelExecuted
    <3> QED
      BY <1>0, <2>2, <2>8, <3>1, CancelExecuted DEF Executed, GtcOf, NoGtc, Lost
  <2>9. CASE ExecuteMarket(c)
    BY <1>0, <2>2, <2>9, MarketExecuted DEF Executed, GtcOf, NoGtc, Lost
  <2>10. ASSUME NEW a \in Answers, GtcAnswered(c, a) PROVE GtcOf(c)'
    <3>1. CASE a = "ok"
      <4>1. pc'[c] = "polling"
        BY <1>0, <2>10, <3>1 DEF GtcAnswered, TypeOK
      <4> QED
        BY <1>0, <2>2, <2>10, <3>1, <4>1, AwaitFacts DEF GtcAnswered, GtcOf, NoGtc, OnItsWay
    <3>2. CASE a # "ok"
      <4>1. Request(c, "gtc") \in unanswered' \/ NoGtc(c)
        BY <1>0, <2>2, <2>10, <3>2, AwaitFacts DEF GtcAnswered, GtcOf, NoGtc
      <4>2. pc'[c] = "market" /\ \A k \in Kinds : k # "market" => (OnItsWay(c, k)' <=> OnItsWay(c, k))
        BY <1>0, <2>10, <3>2, SendFacts DEF GtcAnswered
      <4> QED
        BY <1>0, <2>2, <2>10, <4>1, <4>2, AwaitFacts DEF GtcAnswered, GtcOf, NoGtc, Lost
    <3> QED
      BY <3>1, <3>2
  <2>11. ASSUME NEW a \in Answers, CancelAnswered(c, a) PROVE GtcOf(c)'
    <3>1. Request(c, "cancel") \in unanswered' \/ NoGtc(c)
      BY <1>0, <2>2, <2>11, AwaitFacts DEF CancelAnswered, GtcOf
    <3>2. pc'[c] = "market" /\ \A k \in Kinds : k # "market" => (OnItsWay(c, k)' <=> OnItsWay(c, k))
      BY <1>0, <2>11, SendFacts DEF CancelAnswered
    <3> QED
      BY <1>0, <2>2, <2>11, <3>1, <3>2, AwaitFacts DEF CancelAnswered, GtcOf, NoGtc, Lost
  <2>12. ASSUME NEW a \in Answers, MarketAnswered(c, a) PROVE GtcOf(c)'
    <3>1. pc[c] = "market" /\ pc'[c] = "done"
      BY <1>0, <2>12, AwaitFacts, FinishFacts DEF MarketAnswered
    <3> QED
      BY <1>0, <2>2, <2>12, <3>1, AwaitFacts DEF MarketAnswered, GtcOf, NoGtc, Lost, OnItsWay
  <2> QED
    BY <1>4, <2>3, <2>4, <2>5, <2>6, <2>7, <2>8, <2>9, <2>10, <2>11, <2>12
       DEF CloserSteps
<1>5. CASE UNCHANGED vars
  BY <1>5 DEF vars, GtcInv, GtcOf, NoGtc, Lost, OnItsWay, Answer
<1> QED
  BY <1>1, <1>2, <1>3, <1>4, <1>5, StepCases

\* The invariant holds throughout.
LEMMA Invariance == Spec => []IInv
<1>1. IInv /\ [Next]_vars => IInv'
  BY StepTypeOK, StepIdleInv, StepOpenInv, StepMarketInv, StepGtcInv DEF IInv
<1> QED
  BY InitIInv, <1>1, PTL DEF Spec

(***************************************************************************)
(* Theorems                                                                *)
(***************************************************************************)

\* The exchange's books, the requests and the callers keep their types
\* (order_executor.rs:146-393, client.rs:78-131).
THEOREM TypeCorrect == Spec => []TypeOK
<1>1. IInv => TypeOK
  BY DEF IInv
<1> QED
  BY <1>1, Invariance, PTL

\* A close that reports success has left nothing of the position, whatever the
\* network lost or delayed and whatever other closes did meanwhile
\* (order_executor.rs:242-300, 313-366).
THEOREM CloseReportSoundCorrect == Spec => []CloseReportSound
<1>1. IInv => CloseReportSound
  BY DEF IInv, MarketInv, CloseReportSound
<1> QED
  BY <1>1, Invariance, PTL

\* A call that has returned has no GTC order resting, except one whose id or
\* whose cancel it never learnt (order_executor.rs:213-235, 288-299).
THEOREM NoForgottenGtcCorrect == Spec => []NoForgottenGtc
<1>1. IInv => NoForgottenGtc
  <2> SUFFICES ASSUME IInv, NEW c \in Closers, outcome[c] # "none", resting[c] > 0
               PROVE  Lost(c)
    BY DEF NoForgottenGtc, Lost
  <2>1. pc[c] = "done"
    BY DEF IInv, IdleInv, Callers
  <2> QED
    BY <2>1 DEF IInv, GtcInv, GtcOf, NoGtc
<1> QED
  BY <1>1, Invariance, PTL

\* Refusals appear only where the position is gone or the direction is barred.
LEMMA StepAcceptInv == IInv /\ AcceptInv /\ [Next]_vars => AcceptInv'
<1> SUFFICES ASSUME IInv, AcceptInv, [Next]_vars PROVE AcceptInv'
  OBVIOUS
<1> USE DEF exchange
<1>0. /\ Opener \in Callers /\ Closers \subseteq Callers /\ Opener \notin Closers
      /\ {"open", "gtc", "cancel", "market"} = Kinds /\ Answers = {"ok", "no_id", "err"}
      /\ TypeOK /\ IdleInv /\ OpenInv /\ MarketInv
  BY DEF Callers, Kinds, Answers, IInv
<1>a. closesBy' = closesBy
  BY DirectionStays
<1> USE <1>a DEF GoneOrBarred
<1>1. CASE PlaceOpen
  BY <1>1 DEF PlaceOpen, AcceptInv, Answer
<1>2. CASE ExecuteOpen
  <2>1. OnItsWay(Opener, "open")
    BY <1>0, <1>2, OpenExecuted DEF Executed
  <2> QED
    BY <1>0, <1>2, <2>1, OpenExecuted, NoCloserYet DEF Executed, AcceptInv
<1>3. ASSUME NEW a \in Answers, OpenAnswered(a) PROVE AcceptInv'
  BY <1>0, <1>3, AwaitFacts, FinishFacts DEF OpenAnswered, AcceptInv
<1>4. ASSUME NEW c \in Closers, CloserSteps(c) PROVE AcceptInv'
  <2>1. Frame(c)
    BY <1>0, <1>4, CloserFrame
  <2>2. Answer(c, "market", "err")' => GoneOrBarred'
    <3>1. CASE ExecuteMarket(c)
      <4>1. ~ClosingAccepted => GoneOrBarred
        BY <1>0 DEF ClosingAccepted, GoneOrBarred, TypeOK
      <4> QED
        BY <1>0, <3>1, <4>1, MarketExecuted
    <3>2. CASE ExecuteGtc(c) \/ ExecuteCancel(c)
      BY <1>0, <2>1, <3>2, GtcExecuted, CancelExecuted DEF Executed, Frame, AcceptInv
    <3>3. CASE PlaceGtc(c) \/ CloseAtMarket(c) \/ Poll(c) \/ CancelGtc(c) \/ FillGtc(c)
      BY <2>1, <3>3
         DEF PlaceGtc, CloseAtMarket, Poll, CancelGtc, FillGtc, Frame, AcceptInv, Answer
    <3>4. ASSUME NEW a \in Answers, GtcAnswered(c, a) \/ CancelAnswered(c, a) \/ MarketAnswered(c, a)
          PROVE  Answer(c, "market", "err")' => GoneOrBarred'
      BY <1>0, <2>1, <3>4, AwaitFacts
         DEF GtcAnswered, CancelAnswered, MarketAnswered, Frame, AcceptInv
    <3> QED
      BY <1>4, <3>1, <3>2, <3>3, <3>4 DEF CloserSteps
  <2>3. outcome'[c] = "err" /\ Request(c, "market") \notin unanswered' => GoneOrBarred'
    <3>1. ASSUME NEW a \in Answers, MarketAnswered(c, a)
          PROVE  outcome'[c] = "err" /\ Request(c, "market") \notin unanswered' => GoneOrBarred'
      BY <1>0, <3>1, AwaitFacts, FinishFacts DEF MarketAnswered, AcceptInv
    <3>2. CASE outcome' = outcome /\ unanswered \subseteq unanswered'
      BY <2>1, <3>2 DEF Frame, AcceptInv
    <3>3. CASE ExecuteGtc(c) \/ ExecuteCancel(c) \/ ExecuteMarket(c)
      BY <1>0, <3>2, <3>3, CloserExecuted DEF Executed
    <3>4. ASSUME NEW a \in Answers, GtcAnswered(c, a) \/ CancelAnswered(c, a)
          PROVE  outcome' = outcome /\ unanswered \subseteq unanswered'
      BY <1>0, <3>4, AwaitFacts DEF GtcAnswered, CancelAnswered
    <3> QED
      BY <1>4, <3>1, <3>2, <3>3, <3>4
         DEF CloserSteps, PlaceGtc, CloseAtMarket, Poll, CancelGtc, FillGtc
  <2> QED
    BY <1>0, <2>1, <2>2, <2>3 DEF Frame, AcceptInv
<1>5. CASE UNCHANGED vars
  BY <1>5 DEF vars, AcceptInv, Answer
<1> QED
  BY <1>1, <1>2, <1>3, <1>4, <1>5, StepCases

\* Whatever direction the exchange closes by: a failed open that opened comes from
\* a lost answer, and a failed close of a standing position from a lost answer of
\* its market order or from a direction the exchange does not take
\* (order_executor.rs:110, 163-185, 313-366, client.rs:93-131, 502, 549).
THEOREM FailureExplainedCorrect == Spec => []FailureExplained
<1>1. Init => AcceptInv
  BY DEF Init, AcceptInv, Answer, Callers
<1>2. IInv /\ AcceptInv /\ [Next]_vars => AcceptInv'
  BY StepAcceptInv
<1>3. IInv /\ AcceptInv => FailureExplained
  BY DEF IInv, TypeOK, OpenInv, AcceptInv, GoneOrBarred, FailureExplained
<1> QED
  BY <1>1, <1>2, <1>3, Invariance, PTL DEF Spec

(***************************************************************************)
(* The position monitor                                                    *)
(***************************************************************************)

Pending == {ExitPending[m] : m \in Method}

\* What a pass relies on between its scan and its writes.  Only the monitor
\* makes positions pending, and it does so through exits (one entry for each
\* position) before it looks for timeouts, so none of the positions it still
\* has to write in the first half of the pass is pending already.
PassInv ==
  /\ step # "exits" => exits = {}
  /\ step # "timeouts" => timedOut = {}
  /\ \A e \in exits : state[e[1]] \notin Pending
  /\ \A e, f \in exits : e[1] = f[1] => e = f

MonitorIInv == MonitorTypeOK /\ PassInv

USE SpreadsAssumption, LimitsAssumption

\* The states by name, for the provers.
LEMMA PendingStates ==
  /\ ExitPending["GtcLimit"] = "ExitGtcLimit"
  /\ ExitPending["TakerIoc"] = "ExitTakerIoc"
  /\ ExitPending["ForcedMarket"] = "ExitForcedMarket"
  /\ Pending = {"ExitGtcLimit", "ExitTakerIoc", "ExitForcedMarket"}
  /\ OrderState = {"None", "Submitted", "PartiallyFilled", "Filled", "Cancelled",
                   "Rejected", "ExitGtcLimit", "ExitTakerIoc", "ExitForcedMarket",
                   "ExitFilled"}
BY DEF ExitPending, Pending, Method, OrderState, EntryState, ExitState

\* A scan proposes one method for a position.
LEMMA OneDecision ==
  ASSUME NEW id \in Ids, NEW s, NEW m \in Decision(id, s), NEW n \in Decision(id, s)
  PROVE  m = n
BY DEF Decision

LEMMA OlderAge == ASSUME NEW n \in Ages PROVE Older(n) \in Ages
BY DEF Older

LEMMA MonitorInitIInv == MonitorInit => MonitorIInv
BY DEF MonitorInit, EngineInit, MonitorIInv, MonitorTypeOK, EngineTypeOK, PassInv, Ages, OrderState,
       EntryState

LEMMA MonitorStepTypeOK == MonitorTypeOK /\ [MonitorNext]_monitorVars => MonitorTypeOK'
<1> SUFFICES ASSUME MonitorTypeOK, [MonitorNext]_monitorVars PROVE MonitorTypeOK'
  OBVIOUS
<1> USE DEF MonitorTypeOK, EngineTypeOK
<1>1. CASE StartPass
  BY <1>1 DEF StartPass, engine
<1>2. CASE CheckExitConditions
  BY <1>2 DEF CheckExitConditions, ExitsDue, engine
<1>3. CASE RecordDueExit
  BY <1>3, PendingStates DEF RecordDueExit, RecordExit, Method
<1>4. CASE CheckGtcTimeout
  BY <1>4 DEF CheckGtcTimeout, GtcTimedOut, engine
<1>5. CASE RecordTakerExit
  BY <1>5, PendingStates DEF RecordTakerExit, RecordExit, Method
<1>6. CASE EndPass
  BY <1>6 DEF EndPass, engine
<1>7. CASE Shutdown
  BY <1>7 DEF Shutdown, engine, pass
<1>8. ASSUME NEW s \in Spreads, UpdateSpread(s) PROVE MonitorTypeOK'
  BY <1>8 DEF UpdateSpread, engine, pass
<1>9. ASSUME NEW id \in Ids, Trade(id) PROVE MonitorTypeOK'
  <2>1. ASSUME NEW s \in EntrySpreads, OpenPosition(id, s) PROVE EngineTypeOK'
    BY <2>1, PendingStates DEF OpenPosition, NewPosition
  <2>2. ASSUME NEW s \in EntryState, UpdatePosition(id, s) PROVE EngineTypeOK'
    BY <2>2 DEF UpdatePosition, OrderState
  <2>3. ASSUME ClosePosition(id) PROVE EngineTypeOK'
    BY <2>3, PendingStates DEF ClosePosition
  <2> QED
    BY <1>9, <2>1, <2>2, <2>3 DEF Trade, pass
<1>10. CASE Tick
  BY <1>10, OlderAge DEF Tick, Age, Ages, pass
<1>11. CASE UNCHANGED monitorVars
  BY <1>11 DEF monitorVars, engine, pass
<1> QED
  BY <1>1, <1>2, <1>3, <1>4, <1>5, <1>6, <1>7, <1>8, <1>9, <1>10, <1>11
     DEF MonitorNext, Pass

LEMMA StepPassInv == MonitorIInv /\ [MonitorNext]_monitorVars => PassInv'
<1> SUFFICES ASSUME MonitorIInv, [MonitorNext]_monitorVars PROVE PassInv'
  OBVIOUS
<1> USE DEF MonitorIInv, MonitorTypeOK, EngineTypeOK, PassInv
<1>1. CASE CheckExitConditions
  <2>1. \A e \in exits' : state[e[1]] \notin Pending
    BY <1>1, PendingStates DEF CheckExitConditions, ExitsDue, Monitored
  <2>2. \A e, f \in exits' : e[1] = f[1] => e = f
    BY <1>1, OneDecision DEF CheckExitConditions, ExitsDue
  <2> QED
    BY <1>1, <2>1, <2>2 DEF CheckExitConditions, engine
<1>2. CASE RecordDueExit
  <2>1. PICK e \in exits : RecordExit(e[1], e[2]) /\ exits' = exits \ {e}
    BY <1>2 DEF RecordDueExit
  <2>2. \A f \in exits' : f[1] # e[1]
    BY <2>1
  <2> QED
    BY <1>2, <2>1, <2>2 DEF RecordDueExit, RecordExit
<1>3. CASE StartPass \/ CheckGtcTimeout \/ EndPass
  BY <1>3 DEF StartPass, CheckGtcTimeout, EndPass, engine
<1>4. CASE RecordTakerExit
  BY <1>4 DEF RecordTakerExit, RecordExit
<1>5. CASE Shutdown \/ Tick \/ \E s \in Spreads : UpdateSpread(s)
  BY <1>5 DEF Shutdown, Tick, Age, UpdateSpread, engine, pass
<1>6. ASSUME NEW id \in Ids, Trade(id) PROVE PassInv'
  <2>1. state'[id] \notin Pending /\ \A i \in Ids \ {id} : state'[i] = state[i]
    BY <1>6, PendingStates DEF Trade, OpenPosition, NewPosition, UpdatePosition, ClosePosition,
                               EntryState
  <2> QED
    BY <1>6, <2>1 DEF Trade, pass
<1>7. CASE UNCHANGED monitorVars
  BY <1>7 DEF monitorVars, engine, pass
<1> QED
  BY <1>1, <1>2, <1>3, <1>4, <1>5, <1>6, <1>7 DEF MonitorNext, Pass

LEMMA MonitorInvariance == MonitorSpec => []MonitorIInv
<1>1. MonitorIInv /\ [MonitorNext]_monitorVars => MonitorIInv'
  BY MonitorStepTypeOK, StepPassInv DEF MonitorIInv
<1> QED
  BY MonitorInitIInv, <1>1, PTL DEF MonitorSpec

\* The tracked positions and the monitor's locals keep their types
\* (state_machine.rs:60-87, monitor.rs:62-94).
THEOREM MonitorTypeCorrect == MonitorSpec => []MonitorTypeOK
<1>1. MonitorIInv => MonitorTypeOK
  BY DEF MonitorIInv
<1> QED
  BY <1>1, MonitorInvariance, PTL

\* A pending exit by taker or by force is never replaced by a resting order,
\* however opens, order updates and closes interleave with the monitor's pass
\* (state_machine.rs:267-287, monitor.rs:62-94).
THEOREM ExitsEscalateCorrect == MonitorSpec => ExitsEscalate
<1>1. ASSUME MonitorIInv, [MonitorNext]_monitorVars, NEW id \in Ids,
             state[id] \in {ExitPending["TakerIoc"], ExitPending["ForcedMarket"]}
      PROVE  state'[id] # ExitPending["GtcLimit"]
  <2> USE <1>1, PendingStates DEF MonitorIInv, MonitorTypeOK, EngineTypeOK, PassInv
  <2>1. CASE RecordDueExit
    BY <2>1 DEF RecordDueExit, RecordExit
  <2>2. CASE RecordTakerExit
    BY <2>2 DEF RecordTakerExit, RecordExit
  <2>3. CASE \E i \in Ids : Trade(i)
    BY <2>3 DEF Trade, OpenPosition, NewPosition, UpdatePosition, ClosePosition, EntryState
  <2>4. CASE state' = state
    BY <2>4
  <2> QED
    BY <2>1, <2>2, <2>3, <2>4
       DEF MonitorNext, Pass, StartPass, CheckExitConditions, CheckGtcTimeout, EndPass,
           Shutdown, UpdateSpread, Tick, Age, monitorVars, engine
<1>2. MonitorIInv /\ [MonitorNext]_monitorVars
        => [\A id \in Ids :
              state[id] \in {ExitPending["TakerIoc"], ExitPending["ForcedMarket"]}
                => state'[id] # ExitPending["GtcLimit"]]_monitorVars
  BY <1>1
<1> QED
  BY <1>2, MonitorInvariance, PTL DEF MonitorSpec, ExitsEscalate

\* The orders in which the two ask their questions make no difference before the
\* holding time is over.
LEMMA DecisionsAgree ==
  ASSUME NEW id \in Ids, NEW s \in Spreads,
         NEW useMethod1 \in BOOLEAN, NEW gtcPending \in BOOLEAN,
         EngineTypeOK
  PROVE  LET decided == DecideExit(id, s, useMethod1, gtcPending)
             scanned == Decision(id, s)
             preset == ~useMethod1 /\ gtcPending
         IN /\ decided = {} <=> scanned = {}
            /\ age[id] < MaxHolding =>
                 decided = IF preset /\ scanned = {"GtcLimit"} THEN {"TakerIoc"} ELSE scanned
<1> DEFINE preset == ~useMethod1 /\ gtcPending
<1>1. /\ age[id] \in Nat
      /\ TriggerTp(useMethod1, gtcPending) = IF preset THEN "TakerIoc" ELSE "GtcLimit"
  BY DEF EngineTypeOK, Ages, TriggerTp
<1> DEFINE tp == TakeProfit(id, s)
           sl == StopLoss(id, s)
           due == age[id] >= MaxHolding
<1>2. MaxHolding \in Nat /\ (due <=> ~(age[id] < MaxHolding))
  BY <1>1
<1>3. DecideExit(id, s, useMethod1, gtcPending)
        = IF tp THEN {IF preset THEN "TakerIoc" ELSE "GtcLimit"}
          ELSE IF sl \/ due THEN {"ForcedMarket"} ELSE {}
  BY <1>1 DEF DecideExit
<1>4. Decision(id, s)
        = IF due THEN {"ForcedMarket"}
          ELSE IF tp THEN {"GtcLimit"} ELSE IF sl THEN {"ForcedMarket"} ELSE {}
  BY DEF Decision
<1> HIDE DEF tp, sl, due
<1>d. {"ForcedMarket"} # {"GtcLimit"}
  OBVIOUS
<1>5. CASE due
  BY <1>2, <1>3, <1>4, <1>5
<1>6. CASE ~due
  BY <1>2, <1>3, <1>4, <1>6, <1>d
<1> QED
  BY <1>5, <1>6

\* The exit strategy, with either setting of use_method_1, and the engine's scan
\* leave a position in the same situations, and before the holding time is over by
\* the same method but for Method 2's taker in place of a GTC order that is pending;
\* for any spreads and ratios (exit.rs:24-87, state_machine.rs:341-361).
THEOREM ExitStrategyAgreesCorrect == MonitorSpec => []ExitStrategyAgrees
<1>1. MonitorTypeOK => ExitStrategyAgrees
  BY DecisionsAgree DEF MonitorTypeOK, ExitStrategyAgrees
<1> QED
  BY <1>1, MonitorTypeCorrect, PTL
=============================================================================
