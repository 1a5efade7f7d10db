---------------------------- MODULE OrderExecutor ----------------------------
(***************************************************************************)
(* crates/execution/src/order_executor.rs with the client calls it makes   *)
(* (exchange-adapter-lbank/src/client.rs) against the exchange: opening a  *)
(* position and closing it by Method 1 (a resting limit order, GTC, then a *)
(* market order after a timeout), by stop-loss or by force.                *)
(*                                                                         *)
(* One trade unit, opened by Opener and closed by Closers: each closer is  *)
(* one call, several of them are a take-profit, a stop-loss and a repeated *)
(* attempt that overlap or follow one another.                             *)
(*                                                                         *)
(* A call is a future that awaits one HTTP request at a time.  The request *)
(* may reach the exchange or not, its answer may be lost, and the client   *)
(* gives up after its own timeout (proxy.rs), when the request may still   *)
(* be executed later.  The exchange is external: it is modelled as the     *)
(* comments of client.rs describe it, but for the direction it takes for   *)
(* closing (closesBy), which may be the one or the other.                  *)
(***************************************************************************)
EXTENDS Naturals

CONSTANTS
  Closers, Opener,  \* the callers
  Volume,           \* volume of the position
  GtcPolls,       \* gtc_timeout_secs, in polls of 200 ms
  Side,             \* direction of the position
  CloseDirections   \* directions the exchange may want for closing it

Direction == {"Long", "Short"}

ASSUME CallersAssumption == Opener \notin Closers
ASSUME VolumeAssumption == Volume \in Nat \ {0}
ASSUME GtcPollsAssumption == GtcPolls \in Nat
ASSUME SideAssumption == Side \in Direction /\ CloseDirections \subseteq Direction

Callers == Closers \cup {Opener}
Kinds == {"open", "gtc", "cancel", "market"}
Answers == {"ok", "no_id", "err"}
Requests == [from : Callers, kind : Kinds]

VARIABLES
  held,        \* exchange: volume of the position
  resting,     \* exchange: unfilled volume of each closer's GTC order
  closesBy,    \* exchange: the direction it closes the position by, for good
  network,     \* requests on their way to the exchange
  answers,     \* answers on their way back
  pc,          \* request a caller awaits, or "idle", "polling", "done"
  elapsed,     \* polls since the GTC order was placed
  outcome,     \* what the call returned
  unanswered   \* history: requests whose order id the caller never learnt

vars == <<held, resting, closesBy, network, answers, pc, elapsed, outcome, unanswered>>
exchange == <<held, resting, closesBy>>

TypeOK ==
  /\ held \in 0..Volume
  /\ resting \in [Closers -> 0..Volume]
  /\ closesBy \in CloseDirections
  /\ network \subseteq Requests
  /\ answers \subseteq [from : Callers, kind : Kinds, answer : Answers]
  /\ pc \in [Callers -> Kinds \cup {"idle", "polling", "done"}]
  /\ elapsed \in [Closers -> 0..GtcPolls]
  /\ outcome \in [Callers -> {"none", "ok", "err"}]
  /\ unanswered \subseteq Requests

Init ==
  /\ held = 0
  /\ resting = [c \in Closers |-> 0]
  /\ closesBy \in CloseDirections
  /\ network = {}
  /\ answers = {}
  /\ pc = [c \in Callers |-> "idle"]
  /\ elapsed = [c \in Closers |-> 0]
  /\ outcome = [c \in Callers |-> "none"]
  /\ unanswered = {}

(***************************************************************************)
(* Directions                                                              *)
(***************************************************************************)

Opposite(d) == CHOOSE e \in Direction : e # d

\* What the executor hands to the client ...
DirectionToLbank(d, isClose) == IF isClose THEN Opposite(d) ELSE d

\* ... and what limit_close and market_close then put on the wire.
CloseOnWire(d) == Opposite(DirectionToLbank(d, TRUE))

(***************************************************************************)
(* Requests and answers                                                    *)
(***************************************************************************)

Request(c, kind) == [from |-> c, kind |-> kind]

Send(c, kind) ==
  /\ network' = network \cup {Request(c, kind)}
  /\ pc' = [pc EXCEPT ![c] = kind]

Finish(c, result) ==
  /\ pc' = [pc EXCEPT ![c] = "done"]
  /\ outcome' = [outcome EXCEPT ![c] = result]

\* The await of a request ends: with an answer of the exchange, or, as an
\* error, because the client gave up.
Await(c, kind, answer) ==
  /\ pc[c] = kind
  /\ LET got == [from |-> c, kind |-> kind, answer |-> answer]
         known == answer \in {"ok", "err"} /\ got \in answers
     IN /\ got \in answers \/ answer = "err"
        /\ answers' = answers \ {got}
        /\ unanswered' = unanswered \cup (IF known THEN {} ELSE {Request(c, kind)})

(***************************************************************************)
(* open_position                                                           *)
(***************************************************************************)

PlaceOpen ==
  /\ pc[Opener] = "idle"
  /\ Send(Opener, "open")
  /\ UNCHANGED <<exchange, answers, elapsed, outcome, unanswered>>

\* A response without an order id is an error to the caller.
OpenAnswered(answer) ==
  /\ Await(Opener, "open", answer)
  /\ Finish(Opener, IF answer = "ok" THEN "ok" ELSE "err")
  /\ UNCHANGED <<exchange, network, elapsed>>

(***************************************************************************)
(* close_position_method1, stop_loss, force_close                          *)
(***************************************************************************)

\* Callers close what they were told was opened.
MayClose(c) == pc[c] = "idle" /\ outcome[Opener] = "ok"

PlaceGtc(c) ==
  /\ MayClose(c)
  /\ Send(c, "gtc")
  /\ UNCHANGED <<exchange, answers, elapsed, outcome, unanswered>>

\* Without an order id, or on an error, the market order follows at once.
GtcAnswered(c, answer) ==
  /\ Await(c, "gtc", answer)
  /\ IF answer = "ok"
       THEN pc' = [pc EXCEPT ![c] = "polling"] /\ UNCHANGED network
       ELSE Send(c, "market")
  /\ UNCHANGED <<exchange, elapsed, outcome>>

\* Mutant: the loop runs once more after the timeout.
PollOnceMore(c) ==
  /\ pc[c] = "polling"
  /\ elapsed[c] <= GtcPolls
  /\ elapsed' = [elapsed EXCEPT ![c] = @ + 1]
  /\ UNCHANGED <<exchange, network, answers, pc, outcome, unanswered>>

\* Mutant: start_time is taken inside the loop.
PollRestartsClock(c) ==
  /\ pc[c] = "polling"
  /\ elapsed[c] < GtcPolls
  /\ elapsed' = [elapsed EXCEPT ![c] = 0]
  /\ UNCHANGED <<exchange, network, answers, pc, outcome, unanswered>>

\* One turn of the waiting loop: check_order_filled is a stub that always
\* answers "not filled", so the loop only lets time pass.
Poll(c) ==
  /\ pc[c] = "polling"
  /\ elapsed[c] < GtcPolls
  /\ elapsed' = [elapsed EXCEPT ![c] = @ + 1]
  /\ UNCHANGED <<exchange, network, answers, pc, outcome, unanswered>>

\* Mutant: the market order without the cancel before it.
MarketWithoutCancel(c) ==
  /\ pc[c] = "polling"
  /\ elapsed[c] >= GtcPolls
  /\ Send(c, "market")
  /\ UNCHANGED <<exchange, answers, elapsed, outcome, unanswered>>

CancelGtc(c) ==
  /\ pc[c] = "polling"
  /\ elapsed[c] >= GtcPolls
  /\ Send(c, "cancel")
  /\ UNCHANGED <<exchange, answers, elapsed, outcome, unanswered>>

\* Mutant: a failed cancel is returned with `?`.
CancelFailureReturns(c, answer) ==
  /\ Await(c, "cancel", answer)
  /\ IF answer = "err"
       THEN Finish(c, "err") /\ UNCHANGED network
       ELSE Send(c, "market") /\ UNCHANGED outcome
  /\ UNCHANGED <<exchange, elapsed>>

\* A failed cancel is only logged.
CancelAnswered(c, answer) ==
  /\ Await(c, "cancel", answer)
  /\ Send(c, "market")
  /\ UNCHANGED <<exchange, elapsed, outcome>>

\* stop_loss and force_close are the market order alone.
CloseAtMarket(c) ==
  /\ MayClose(c)
  /\ Send(c, "market")
  /\ UNCHANGED <<exchange, answers, elapsed, outcome, unanswered>>

\* Mutant: an error of the market order is taken for "already closed".
MarketErrorIgnored(c, answer) ==
  /\ Await(c, "market", answer)
  /\ Finish(c, "ok")
  /\ UNCHANGED <<exchange, network, elapsed>>

MarketAnswered(c, answer) ==
  /\ Await(c, "market", answer)
  /\ Finish(c, IF answer = "ok" THEN "ok" ELSE "err")
  /\ UNCHANGED <<exchange, network, elapsed>>

(***************************************************************************)
(* The exchange and the network (external)                                 *)
(***************************************************************************)

\* A request is executed and answered; an answer to a new order should carry
\* its id, but the code reckons with an empty one.
Execute(r, accepted) ==
  /\ r \in network
  /\ network' = network \ {r}
  /\ \E a \in IF ~accepted THEN {"err"}
              ELSE IF r.kind = "cancel" THEN {"ok"} ELSE {"ok", "no_id"} :
       answers' = answers \cup {[from |-> r.from, kind |-> r.kind, answer |-> a]}
  /\ UNCHANGED <<closesBy, pc, elapsed, outcome, unanswered>>

ExecuteOpen ==
  \E accepted \in BOOLEAN :
    /\ Execute(Request(Opener, "open"), accepted)
    /\ held' = IF accepted THEN Volume ELSE held
    /\ UNCHANGED resting

ClosingAccepted == held > 0 /\ CloseOnWire(Side) = closesBy

ExecuteGtc(c) ==
  /\ Execute(Request(c, "gtc"), ClosingAccepted)
  /\ resting' = IF ClosingAccepted THEN [resting EXCEPT ![c] = Volume] ELSE resting
  /\ UNCHANGED held

ExecuteCancel(c) ==
  /\ Execute(Request(c, "cancel"), resting[c] > 0)
  /\ resting' = [resting EXCEPT ![c] = 0]
  /\ UNCHANGED held

ExecuteMarket(c) ==
  /\ Execute(Request(c, "market"), ClosingAccepted)
  /\ held' = IF ClosingAccepted THEN 0 ELSE held
  /\ UNCHANGED resting

\* Part or all of a resting order is filled.
FillGtc(c) ==
  /\ \E v \in {w \in 1..Volume : w <= held /\ w <= resting[c]} :
       /\ held' = held - v
       /\ resting' = [resting EXCEPT ![c] = @ - v]
  /\ UNCHANGED <<closesBy, network, answers, pc, elapsed, outcome, unanswered>>

(***************************************************************************)
(* The specification                                                       *)
(***************************************************************************)

ClientStep(c) ==
  \/ \E a \in Answers : \/ GtcAnswered(c, a)
                        \/ CancelAnswered(c, a)
                        \/ MarketAnswered(c, a)
  \/ Poll(c)
  \/ CancelGtc(c)

ExchangeStep(c) ==
  ExecuteGtc(c) \/ ExecuteCancel(c) \/ ExecuteMarket(c) \/ FillGtc(c)

Next ==
  \/ PlaceOpen
  \/ \E a \in Answers : OpenAnswered(a)
  \/ ExecuteOpen
  \/ \E c \in Closers : PlaceGtc(c) \/ CloseAtMarket(c) \/ ClientStep(c) \/ ExchangeStep(c)

Spec == Init /\ [][Next]_vars

\* The runtime polls a future whose timer or request is done, and no request
\* outlives the client's timeout.  Nothing is assumed of the exchange.
FairSpec ==
  /\ Spec
  /\ WF_vars(\E a \in Answers : OpenAnswered(a))
  /\ \A c \in Closers : WF_vars(ClientStep(c))

(***************************************************************************)
(* Properties                                                              *)
(***************************************************************************)

\* A close that reports CloseSuccess has left nothing of the position, however
\* its GTC order was filled meanwhile and whatever other closers did.
CloseReportSound ==
  \A c \in Closers : outcome[c] = "ok" => held = 0

\* A call does not return with its GTC order still resting, unless the caller
\* never learnt the order's id or how its cancel ended.
NoForgottenGtc ==
  \A c \in Closers :
    outcome[c] # "none" /\ resting[c] > 0
      => {Request(c, "gtc"), Request(c, "cancel")} \cap unanswered # {}

\* A failure is reported falsely for two reasons only.  An open that fails
\* although it opened never had its answer; a close that fails while the
\* position stands never had the answer of its market order, or the exchange
\* closes by another direction than the executor and the client put on the wire
\* between them: no failed GTC order and no failed cancel ends the call before
\* the market order was tried.
FailureExplained ==
  /\ outcome[Opener] = "err" /\ held > 0 => Request(Opener, "open") \in unanswered
  /\ \A c \in Closers :
       outcome[c] = "err" /\ held > 0 =>
         Request(c, "market") \in unanswered \/ CloseOnWire(Side) # closesBy

\* Every call returns: the waiting loop ends whatever its polls answer.
CallsEnd == \A c \in Callers : pc[c] # "idle" ~> pc[c] = "done"
=============================================================================
