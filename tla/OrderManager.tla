----------------------------- MODULE OrderManager -----------------------------
(***************************************************************************)
(* crates/exchange-adapter-lbank/src/orders.rs: the orders the manager     *)
(* tracks, which two sources write: the HTTP answers to its own requests   *)
(* and the order stream of the web socket (handle_order_update).           *)
(*                                                                         *)
(* Each method takes the lock of the map for a statement or a block and    *)
(* never across an await, so a method is cut at its awaits.  A market and  *)
(* a limit order differ only in the call they make.  Symbols, prices and   *)
(* the events handed on by try_send are left out.                          *)
(*                                                                         *)
(* The exchange and the network are external.  Reports of an order arrive  *)
(* in order or, when the connection breaks, not at all; they carry one of  *)
(* the numeric codes of OrderState::from.  Each order is submitted once    *)
(* (uuid v4) and, to keep the model finite, cancelled at most once.        *)
(***************************************************************************)
EXTENDS Naturals, Sequences

CONSTANTS
  Orders,    \* client order ids
  Volume,    \* volume of an order
  Lifetime   \* the hour of cleanup_old_orders, in ticks

ASSUME VolumeAssumption == Volume \in Nat \ {0}
ASSUME LifetimeAssumption == Lifetime \in Nat

\* OrderState::from; the codes 0, 4, 5, 7 and 8 belong to orders of other kinds.
StateOf == [partial_fill   |-> "PartiallyFilled",   \* 2
            filled         |-> "Filled",            \* 1
            part_cancelled |-> "Cancelled",         \* 3
            cancelled      |-> "Cancelled"]         \* 6

Codes == DOMAIN StateOf
Report == [code : Codes, filled : 0..Volume]

ActiveState == {"Pending", "Submitted", "PartiallyFilled"}
OverState == {"Filled", "Cancelled"}
TrackedState == {"Untracked"} \cup ActiveState \cup OverState

Messages == {"place", "placed", "placed_full", "place_refused",
             "cancel", "cancel_done", "cancel_refused"}

VARIABLES
  state,    \* orders[o].state, "Untracked" when the map has no such order
  known,    \* orders[o].exchange_order_id is there
  filled,   \* orders[o].filled_volume
  quiet,    \* time since orders[o].last_update, up to Lifetime
  pc,       \* where the calls about an order are
  wire,     \* HTTP requests and answers under way
  reports,  \* reports on the order stream
  live,     \* exchange: the order's state
  done,     \* exchange: the volume filled
  missed    \* history: a report was lost or came before its order was known

manager == <<state, known, filled, quiet>>
exchange == <<live, done>>
vars == <<manager, pc, wire, reports, exchange, missed>>

TypeOK ==
  /\ state \in [Orders -> TrackedState]
  /\ known \in [Orders -> BOOLEAN]
  /\ filled \in [Orders -> 0..Volume]
  /\ quiet \in [Orders -> 0..Lifetime]
  /\ pc \in [Orders -> {"new", "placing", "failed", "placed", "cancelling", "returned"}]
  /\ wire \in [Orders -> SUBSET Messages]
  /\ reports \in [Orders -> Seq(Report)]
  /\ live \in [Orders -> {"none", "open", "filled", "cancelled"}]
  /\ done \in [Orders -> 0..Volume]
  /\ missed \in [Orders -> BOOLEAN]

Init ==
  /\ state = [o \in Orders |-> "Untracked"]
  /\ known = [o \in Orders |-> FALSE]
  /\ filled = [o \in Orders |-> 0]
  /\ quiet = [o \in Orders |-> 0]
  /\ pc = [o \in Orders |-> "new"]
  /\ wire = [o \in Orders |-> {}]
  /\ reports = [o \in Orders |-> <<>>]
  /\ live = [o \in Orders |-> "none"]
  /\ done = [o \in Orders |-> 0]
  /\ missed = [o \in Orders |-> FALSE]

(***************************************************************************)
(* submit_market_order, submit_limit_order, update_order                   *)
(***************************************************************************)

Goto(o, from, to) == pc[o] = from /\ pc' = [pc EXCEPT ![o] = to]

Write(o, s, volume) ==
  /\ state' = [state EXCEPT ![o] = s]
  /\ filled' = [filled EXCEPT ![o] = volume]
  /\ quiet' = [quiet EXCEPT ![o] = 0]

Submit(o) ==
  /\ Goto(o, "new", "placing")
  /\ Write(o, "Pending", 0)
  /\ wire' = [wire EXCEPT ![o] = @ \cup {"place"}]
  /\ UNCHANGED <<known, reports, exchange, missed>>

\* Takes answer a off the wire.
Receive(o, a) ==
  /\ a \in wire[o]
  /\ wire' = [wire EXCEPT ![o] = @ \ {a}]

\* The answer brings the exchange's id of the order; volume_remain "0" says that
\* it was filled at once.
Placed(o) ==
  /\ Goto(o, "placing", "placed")
  /\ \/ Receive(o, "placed") /\ Write(o, "Submitted", filled[o])
     \/ Receive(o, "placed_full") /\ Write(o, "Filled", Volume)
  /\ known' = [known EXCEPT ![o] = TRUE]
  /\ UNCHANGED <<reports, exchange, missed>>

\* Refused, or given up by the client: `?` returns and leaves the order behind
\* as it is.
PlaceFails(o) ==
  /\ Goto(o, "placing", "failed")
  /\ Receive(o, "place_refused") \/ UNCHANGED wire
  /\ UNCHANGED <<manager, reports, exchange, missed>>

(***************************************************************************)
(* handle_order_update                                                     *)
(***************************************************************************)

\* Mutant: the report's volume is taken for what was filled since the last one.
HandleAsIncrement(o) ==
  /\ reports[o] # <<>>
  /\ reports' = [reports EXCEPT ![o] = Tail(@)]
  /\ IF known[o]
       THEN /\ Write(o, StateOf[Head(reports[o]).code], filled[o] + Head(reports[o]).filled)
            /\ UNCHANGED missed
       ELSE /\ missed' = [missed EXCEPT ![o] = TRUE]
            /\ UNCHANGED <<state, filled, quiet>>
  /\ UNCHANGED <<known, pc, wire, exchange>>

\* The next report of order o is written over whatever is tracked.  Orders are
\* found by the exchange's id: without it the report is dropped.
HandleOrderUpdate(o) ==
  /\ reports[o] # <<>>
  /\ reports' = [reports EXCEPT ![o] = Tail(@)]
  /\ IF known[o]
       THEN /\ Write(o, StateOf[Head(reports[o]).code], Head(reports[o]).filled)
            /\ UNCHANGED missed
       ELSE /\ missed' = [missed EXCEPT ![o] = TRUE]
            /\ UNCHANGED <<state, filled, quiet>>
  /\ UNCHANGED <<known, pc, wire, exchange>>

(***************************************************************************)
(* cancel_order                                                            *)
(***************************************************************************)

\* Without an exchange id the call returns Ok and does nothing.
CancelOrder(o) ==
  /\ known[o]
  /\ Goto(o, "placed", "cancelling")
  /\ wire' = [wire EXCEPT ![o] = @ \cup {"cancel"}]
  /\ UNCHANGED <<manager, reports, exchange, missed>>

\* The write of a cancel, into an entry that may be gone by now.
MarkCancelled(o) ==
  IF state[o] # "Untracked" THEN Write(o, "Cancelled", filled[o])
                            ELSE UNCHANGED <<state, filled, quiet>>

\* Mutant: the error of a refused cancel is not looked at.
CancelUnlooked(o) ==
  /\ Goto(o, "cancelling", "returned")
  /\ \/ Receive(o, "cancel_done") /\ MarkCancelled(o)
     \/ Receive(o, "cancel_refused") /\ MarkCancelled(o)
     \/ UNCHANGED <<state, filled, quiet, wire>>
  /\ UNCHANGED <<known, reports, exchange, missed>>

\* Cancelled is written over whatever the stream has reported meanwhile; a
\* refused or unanswered cancel returns its error.
CancelAnswered(o) ==
  /\ Goto(o, "cancelling", "returned")
  /\ \/ Receive(o, "cancel_done") /\ MarkCancelled(o)
     \/ Receive(o, "cancel_refused") /\ UNCHANGED <<state, filled, quiet>>
     \/ UNCHANGED <<state, filled, quiet, wire>>
  /\ UNCHANGED <<known, reports, exchange, missed>>

(***************************************************************************)
(* cleanup_old_orders and time                                             *)
(***************************************************************************)

\* Mutant: is_active that forgets to leave out filled orders.
ActiveOrFilled(o) == state[o] \in ActiveState \cup {"Filled"}

Active(o) == state[o] \in ActiveState

\* Mutant: retain without `|| o.is_active()`.
KeptWhileFresh(o) == quiet[o] < Lifetime

Kept(o) == quiet[o] < Lifetime \/ Active(o)

CleanupOldOrders ==
  /\ state' = [o \in Orders |-> IF Kept(o) THEN state[o] ELSE "Untracked"]
  /\ known' = [o \in Orders |-> Kept(o) /\ known[o]]
  /\ filled' = [o \in Orders |-> IF Kept(o) THEN filled[o] ELSE 0]
  /\ UNCHANGED <<quiet, pc, wire, reports, exchange, missed>>

\* Mutant: an age past every limit.
OlderUnbounded(n) == IF n <= Lifetime THEN n + 1 ELSE n

Older(n) == IF n < Lifetime THEN n + 1 ELSE n

Tick ==
  /\ quiet' = [o \in Orders |-> IF state[o] = "Untracked" THEN quiet[o] ELSE Older(quiet[o])]
  /\ UNCHANGED <<state, known, filled, pc, wire, reports, exchange, missed>>

(***************************************************************************)
(* The exchange and the network (external)                                 *)
(***************************************************************************)

\* What is told of an order with volume v filled.
FillReport(v) == [code |-> IF v = Volume THEN "filled" ELSE "partial_fill", filled |-> v]
CancelReport(v) == [code |-> IF v = 0 THEN "cancelled" ELSE "part_cancelled", filled |-> v]

Swap(o, message, other) ==
  /\ message \in wire[o]
  /\ wire' = [wire EXCEPT ![o] = (@ \ {message}) \cup {other}]

\* A new order trades against the book at once as far as it can.
ExecutePlace(o) ==
  /\ \E v \in 0..Volume :
       /\ Swap(o, "place", IF v = Volume THEN "placed_full" ELSE "placed")
       /\ done' = [done EXCEPT ![o] = v]
       /\ live' = [live EXCEPT ![o] = IF v = Volume THEN "filled" ELSE "open"]
       /\ reports' = [reports EXCEPT ![o] = [i \in 1..v |-> FillReport(i)]]
  /\ UNCHANGED <<manager, pc, missed>>

RefusePlace(o) ==
  /\ Swap(o, "place", "place_refused")
  /\ UNCHANGED <<manager, pc, reports, exchange, missed>>

Fill(o) ==
  /\ live[o] = "open"
  /\ done' = [done EXCEPT ![o] = @ + 1]
  /\ live' = [live EXCEPT ![o] = IF done[o] + 1 = Volume THEN "filled" ELSE "open"]
  /\ reports' = [reports EXCEPT ![o] = Append(@, FillReport(done[o] + 1))]
  /\ UNCHANGED <<manager, pc, wire, missed>>

ExecuteCancel(o) ==
  /\ IF live[o] = "open"
       THEN /\ Swap(o, "cancel", "cancel_done")
            /\ live' = [live EXCEPT ![o] = "cancelled"]
            /\ reports' = [reports EXCEPT ![o] = Append(@, CancelReport(done[o]))]
       ELSE Swap(o, "cancel", "cancel_refused") /\ UNCHANGED <<live, reports>>
  /\ UNCHANGED <<manager, pc, done, missed>>

\* The connection breaks: what was on the stream is not repeated.
LoseReports(o) ==
  /\ reports[o] # <<>>
  /\ reports' = [reports EXCEPT ![o] = <<>>]
  /\ missed' = [missed EXCEPT ![o] = TRUE]
  /\ UNCHANGED <<manager, pc, wire, exchange>>

(***************************************************************************)
(* The specification                                                       *)
(***************************************************************************)

ManagerStep(o) ==
  \/ Submit(o) \/ Placed(o) \/ PlaceFails(o)
  \/ HandleOrderUpdate(o)
  \/ CancelOrder(o) \/ CancelAnswered(o)

ExchangeStep(o) ==
  \/ ExecutePlace(o) \/ RefusePlace(o) \/ Fill(o) \/ ExecuteCancel(o)
  \/ LoseReports(o)

Next ==
  \/ \E o \in Orders : ManagerStep(o) \/ ExchangeStep(o)
  \/ CleanupOldOrders
  \/ Tick

Spec == Init /\ [][Next]_vars

\* Time passes, and whoever uses the manager (the repository has no caller yet)
\* hands on the stream's reports and calls the clean-up again and again.
FairSpec ==
  /\ Spec
  /\ WF_vars(CleanupOldOrders)
  /\ WF_vars(Tick)
  /\ \A o \in Orders : WF_vars(HandleOrderUpdate(o))

(***************************************************************************)
(* Properties                                                              *)
(***************************************************************************)

\* An order that is open at the exchange is listed as active and is never
\* cleaned up, whichever of its answers, reports and cancels were lost or late.
NoOpenOrderForgotten == \A o \in Orders : live[o] = "open" => Active(o)

\* The manager never tells of a fill that did not happen: neither the answer, nor
\* a late report, nor a cancel makes the filled volume larger than it is.
FillsSound ==
  \A o \in Orders :
    /\ filled[o] <= done[o]
    /\ state[o] = "Filled" => live[o] = "filled"

\* Once nothing of an order is under way, what is tracked is what the exchange
\* holds, in whatever order answers and reports were written, unless a report
\* was lost or came before the exchange's id.
UnderWay(o) ==
  pc[o] \in {"placing", "cancelling"} \/ reports[o] # <<>> \/ "cancel" \in wire[o]

CaughtUp ==
  \A o \in Orders :
    known[o] /\ ~UnderWay(o) /\ ~missed[o] =>
      /\ filled[o] = done[o]
      /\ state[o] = "Filled" <=> live[o] = "filled"
      /\ state[o] = "Cancelled" <=> live[o] = "cancelled"

\* An order that is over leaves the map in the end, although late reports may
\* take a filled order back to PartiallyFilled for a while.  Only when the report
\* that would end this is lost may it stay for ever.
OverOrdersLeave ==
  \A o \in Orders :
    state[o] \in OverState ~> state[o] = "Untracked" \/ missed[o]
=============================================================================
