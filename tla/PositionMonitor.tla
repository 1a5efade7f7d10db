-------------------------- MODULE PositionMonitor --------------------------
(***************************************************************************)
(* crates/execution/src/monitor.rs over the execution engine: the loop     *)
(* that leaves positions on take-profit, stop-loss, holding time and GTC   *)
(* timeout, beside the threads that open, update and close positions.      *)
(*                                                                         *)
(* A pass (check_positions) reads the spread, takes the exits that are due *)
(* under one read lock, records them one by one under write locks of their *)
(* own, then does the same for the GTC timeouts: what other threads do     *)
(* between the scan and the write is not looked at again.                  *)
(***************************************************************************)
EXTENDS ExecutionEngine

VARIABLES
  spread,    \* current_spread: one for all positions, 0 until it is set
  running,   \* FALSE once the shutdown signal was taken
  step,      \* next step of the pass
  seen,      \* spread the pass has read
  exits,     \* exits of the scan that are still to be recorded
  timedOut   \* GTC timeouts still to be recorded

pass == <<step, seen, exits, timedOut>>
monitorVars == <<engine, spread, running, pass>>

MonitorTypeOK ==
  /\ EngineTypeOK
  /\ spread \in Spreads \cup {0}
  /\ running \in BOOLEAN
  /\ step \in {"wait", "scan", "exits", "timeouts"}
  /\ seen \in Spreads \cup {0}
  /\ exits \subseteq Ids \X Method
  /\ timedOut \subseteq Ids

MonitorInit ==
  /\ EngineInit
  /\ spread = 0
  /\ running = TRUE
  /\ step = "wait"
  /\ seen = 0
  /\ exits = {}
  /\ timedOut = {}

(***************************************************************************)
(* A pass                                                                  *)
(***************************************************************************)

\* The ticker fires.
StartPass ==
  /\ running
  /\ step = "wait"
  /\ step' = "scan"
  /\ seen' = spread
  /\ UNCHANGED <<engine, spread, running, exits, timedOut>>

CheckExitConditions ==
  /\ step = "scan"
  /\ step' = "exits"
  /\ exits' = ExitsDue(seen)
  /\ seen' = 0
  /\ UNCHANGED <<engine, spread, running, timedOut>>

\* The map is iterated in no particular order.
RecordDueExit ==
  /\ step = "exits"
  /\ \E e \in exits : RecordExit(e[1], e[2]) /\ exits' = exits \ {e}
  /\ UNCHANGED <<spread, running, step, seen, timedOut>>

CheckGtcTimeout ==
  /\ step = "exits"
  /\ exits = {}
  /\ step' = "timeouts"
  /\ timedOut' = GtcTimedOut
  /\ UNCHANGED <<engine, spread, running, seen, exits>>

RecordTakerExit ==
  /\ step = "timeouts"
  /\ \E id \in timedOut : RecordExit(id, "TakerIoc") /\ timedOut' = timedOut \ {id}
  /\ UNCHANGED <<spread, running, step, seen, exits>>

EndPass ==
  /\ step = "timeouts"
  /\ timedOut = {}
  /\ step' = "wait"
  /\ UNCHANGED <<engine, spread, running, seen, exits, timedOut>>

\* select! sees the signal only between passes.
Shutdown ==
  /\ step = "wait"
  /\ running
  /\ running' = FALSE
  /\ UNCHANGED <<engine, spread, pass>>

Pass ==
  \/ StartPass
  \/ CheckExitConditions
  \/ RecordDueExit
  \/ CheckGtcTimeout
  \/ RecordTakerExit
  \/ EndPass

(***************************************************************************)
(* The threads beside it, and the specification                            *)
(***************************************************************************)

UpdateSpread(s) ==
  /\ spread' = s
  /\ UNCHANGED <<engine, running, pass>>

Trade(id) ==
  /\ \/ \E s \in EntrySpreads : OpenPosition(id, s)
     \/ \E s \in EntryState : UpdatePosition(id, s)
     \/ ClosePosition(id)
  /\ UNCHANGED <<spread, running, pass>>

Tick == Age /\ UNCHANGED <<spread, running, pass>>

MonitorNext ==
  \/ Pass
  \/ Shutdown
  \/ \E s \in Spreads : UpdateSpread(s)
  \/ \E id \in Ids : Trade(id)
  \/ Tick

MonitorSpec == MonitorInit /\ [][MonitorNext]_monitorVars

\* Time passes, and the runtime keeps polling the monitor task; nobody is
\* obliged to trade, to report or to shut down.
FairMonitorSpec == MonitorSpec /\ WF_monitorVars(Pass) /\ WF_monitorVars(Tick)

(***************************************************************************)
(* Properties                                                              *)
(***************************************************************************)

\* An exit by taker or by force is not taken back to a resting order while it
\* is pending: a GTC decision of an older scan never reaches such a position.
ExitsEscalate ==
  [][\A id \in Ids :
       state[id] \in {ExitPending["TakerIoc"], ExitPending["ForcedMarket"]}
         => state'[id] # ExitPending["GtcLimit"]]_monitorVars

\* A position whose entry order still stands leaves that state by the holding
\* limit at the latest (unless the monitor is shut down).
OverdueEntryLeaves ==
  \A id \in Ids :
    (Monitored(id) /\ age[id] >= MaxHolding) ~> (~Monitored(id) \/ ~running)

\* A resting exit order is given up once its timeout is over.
GtcExitEnds ==
  \A id \in Ids :
    (state[id] = ExitPending["GtcLimit"] /\ age[id] >= GtcTimeout)
      ~> (state[id] # ExitPending["GtcLimit"] \/ ~running)

\* The exit strategy (exit.rs) and the engine's scan are two codings of one rule.
\* With either setting of use_method_1 they call for an exit in the same
\* situations, and until the holding time is over (then the engine forces what
\* the strategy may rest) by the same method, with one exception: at a
\* take-profit with a GTC order pending, Method 2 asks for a taker (exit.rs:73-78)
\* where the engine, which knows no methods, asks for one more GTC order.
ExitStrategyAgrees ==
  \A id \in Ids, s \in Spreads, useMethod1, gtcPending \in BOOLEAN :
    LET decided == DecideExit(id, s, useMethod1, gtcPending)
        scanned == Decision(id, s)
        preset == ~useMethod1 /\ gtcPending
    IN /\ decided = {} <=> scanned = {}
       /\ age[id] < MaxHolding =>
            decided = IF preset /\ scanned = {"GtcLimit"} THEN {"TakerIoc"} ELSE scanned
=============================================================================
