-------------------------- MODULE ExecutionEngine --------------------------
(***************************************************************************)
(* crates/execution/src/state_machine.rs: the tracked positions and the    *)
(* operations on them.  Each operation holds the write lock of the map for *)
(* its whole body, so it is one step; the two scans (check_exit_conditions *)
(* and check_gtc_timeout) are the operators ExitsDue and GtcTimedOut, which *)
(* the monitor evaluates at a moment and acts upon later.                  *)
(*                                                                         *)
(* PnL, volumes, the texts of the events and the event channel itself are  *)
(* left out.  PendingSubmit and TimeoutForced are never assigned.          *)
(***************************************************************************)
EXTENDS Integers

CONSTANTS
  Ids,         \* position ids, each used once (uuid v4)
  Spreads,     \* spreads of the market, in bps
  EntrySpreads,  \* spreads positions are opened at
  TpRatio, SlRatio,
  MaxHolding,  \* max_holding_secs, in ticks
  GtcTimeout   \* gtc_timeout_secs, in ticks

ASSUME SpreadsAssumption == Spreads \cup EntrySpreads \cup {TpRatio, SlRatio} \subseteq Int
ASSUME LimitsAssumption == {MaxHolding, GtcTimeout} \subseteq Nat

Method == {"GtcLimit", "TakerIoc", "ForcedMarket"}

\* OrderState::ExitPending(method)
ExitPending == [GtcLimit     |-> "ExitGtcLimit",
                TakerIoc     |-> "ExitTakerIoc",
                ForcedMarket |-> "ExitForcedMarket"]

EntryState == {"Submitted", "PartiallyFilled", "Filled", "Cancelled", "Rejected"}
ExitState == {ExitPending[m] : m \in Method} \cup {"ExitFilled"}
OrderState == {"None"} \cup EntryState \cup ExitState

VARIABLES
  state,     \* positions[id].state, "None" before the position is opened
  age,       \* time since entry_time
  spread0,   \* entry_spread_bps
  reported,  \* external: last state of the entry order an order update told
  closed     \* external: the exit order was filled and the engine was told

engine == <<state, age, spread0, reported, closed>>

Ages == 0..(IF MaxHolding >= GtcTimeout THEN MaxHolding ELSE GtcTimeout)

EngineTypeOK ==
  /\ state \in [Ids -> OrderState]
  /\ age \in [Ids -> Ages]
  /\ spread0 \in [Ids -> EntrySpreads \cup {0}]
  /\ reported \in [Ids -> EntryState]
  /\ closed \in [Ids -> BOOLEAN]

EngineInit ==
  /\ state = [id \in Ids |-> "None"]
  /\ age = [id \in Ids |-> 0]
  /\ spread0 = [id \in Ids |-> 0]
  /\ reported = [id \in Ids |-> "Submitted"]
  /\ closed = [id \in Ids |-> FALSE]

(***************************************************************************)
(* Operations                                                              *)
(***************************************************************************)

\* TrackedPosition::new
NewPosition(id, spread) ==
  /\ state' = [state EXCEPT ![id] = "Submitted"]
  /\ spread0' = [spread0 EXCEPT ![id] = spread]

OpenPosition(id, spread) ==
  /\ state[id] = "None"
  /\ NewPosition(id, spread)
  /\ UNCHANGED <<age, reported, closed>>

\* What an exchange may report next of the entry order.
NextReport(s) ==
  CASE s = "Submitted" -> {"PartiallyFilled", "Filled", "Cancelled", "Rejected"}
    [] s = "PartiallyFilled" -> {"Filled", "Cancelled"}
    [] OTHER -> {}

\* update_position writes the reported state over whatever is there: reports
\* of the entry order keep arriving while the position is on its way out.
UpdatePosition(id, s) ==
  /\ state[id] # "None"
  /\ s \in NextReport(reported[id])
  /\ reported' = [reported EXCEPT ![id] = s]
  /\ state' = [state EXCEPT ![id] = s]
  /\ UNCHANGED <<age, spread0, closed>>

\* record_exit does not look at the state it replaces.
RecordExit(id, method) ==
  /\ state' = [state EXCEPT ![id] = ExitPending[method]]
  /\ UNCHANGED <<age, spread0, reported, closed>>

\* Told when the exit order is filled, at most once per position.
ClosePosition(id) ==
  /\ state[id] \in ExitState
  /\ ~closed[id]
  /\ closed' = [closed EXCEPT ![id] = TRUE]
  /\ state' = [state EXCEPT ![id] = "ExitFilled"]
  /\ UNCHANGED <<age, spread0, reported>>

\* Mutant: an age past every limit.
OlderUnbounded(n) == IF n <= MaxHolding + GtcTimeout THEN n + 1 ELSE n

Older(n) == IF n + 1 \in Ages THEN n + 1 ELSE n

Age ==
  /\ age' = [id \in Ids |-> IF state[id] = "None" THEN 0 ELSE Older(age[id])]
  /\ UNCHANGED <<state, spread0, reported, closed>>

(***************************************************************************)
(* The scans                                                               *)
(***************************************************************************)

\* Mutant: the state filter of get_active_positions, which lets ExitPending in.
MonitoredIfActive(id) ==
  state[id] \in {"Submitted", "PartiallyFilled"} \cup {ExitPending[m] : m \in Method}

Monitored(id) == state[id] \in {"Submitted", "PartiallyFilled"}

TakeProfit(id, spread) == spread <= spread0[id] * (1 - TpRatio)
StopLoss(id, spread) == spread >= spread0[id] * (1 + SlRatio)

\* Mutant: take-profit and stop-loss only, without the holding time.
DecisionWithoutHolding(id, spread) ==
  IF TakeProfit(id, spread) THEN {"GtcLimit"}
  ELSE IF StopLoss(id, spread) THEN {"ForcedMarket"} ELSE {}

\* check_exit_conditions: the method to leave a position by, holding time
\* before take-profit before stop-loss.
Decision(id, spread) ==
  IF age[id] >= MaxHolding THEN {"ForcedMarket"}
  ELSE IF TakeProfit(id, spread) THEN {"GtcLimit"}
  ELSE IF StopLoss(id, spread) THEN {"ForcedMarket"} ELSE {}

ExitsDue(spread) ==
  {e \in Ids \X Method : Monitored(e[1]) /\ e[2] \in Decision(e[1], spread)}

\* exit.rs, ExitStrategy: the same question with the holding time last, and with
\* a second method, in which a GTC order may be resting since the entry.
TriggerTp(useMethod1, gtcPending) ==
  IF ~useMethod1 /\ gtcPending THEN "TakerIoc" ELSE "GtcLimit"

DecideExit(id, spread, useMethod1, gtcPending) ==
  IF TakeProfit(id, spread) THEN {TriggerTp(useMethod1, gtcPending)}
  ELSE IF StopLoss(id, spread) \/ age[id] >= MaxHolding THEN {"ForcedMarket"} ELSE {}

\* Mutant: the state filter of check_exit_conditions.
GtcTimedOutIfMonitored == {id \in Ids : Monitored(id) /\ age[id] >= GtcTimeout}

\* check_gtc_timeout measures from entry_time.
GtcTimedOut ==
  {id \in Ids : state[id] = ExitPending["GtcLimit"] /\ age[id] >= GtcTimeout}
=============================================================================
