------------------------------ MODULE RiskGate ------------------------------
(***************************************************************************)
(* crates/risk-gate: the gate traders ask before they open a position.     *)
(*                                                                         *)
(* check is six reads, each under a lock of its own; the caller looks at   *)
(* the collected results (all_passed), places its order and only then      *)
(* calls record_position_open.  Nothing is reserved in between, so the     *)
(* limits are checked against what other traders may still change.         *)
(*                                                                         *)
(* The circuit breaker is the module CircuitBreaker, with the traders as   *)
(* its threads: a trader at a breaker step of the gate performs the steps  *)
(* of the breaker's operation one by one.  The sixth check, the API quota, *)
(* sums a map that nothing ever writes (record_request has no caller and   *)
(* the field is private), so it always allows and is not a step here.      *)
(* A position keeps its notional, the only field a check reads.            *)
(***************************************************************************)
EXTENDS CircuitBreaker, FiniteSets, FiniteSetsExt

CONSTANTS
  Symbols, NoSymbol,
  Sizes, Prices,  \* volumes a trader may open and the prices they fill at
  Configs, NoConfig,  \* risk configurations a hot reload may install
  NoPosition   \* no entry in the tracker

ASSUME TradersAssumption == IsFiniteSet(Traders)
ASSUME SymbolsAssumption == IsFiniteSet(Symbols)
ASSUME SizesAssumption == Sizes \subseteq Nat /\ Prices \subseteq Nat /\ NoPosition \notin Nat

\* max_concurrent_positions, max_position_usd, max_total_exposure_usd and
\* cooldown_after_sl_secs (in ticks).  The breaker's two fields are not read:
\* RiskGate::new makes the breaker with its defaults.
RiskConfig == [concurrent : Nat \ {0}, position : Nat, exposure : Nat, cooldown : Nat]

ASSUME ConfigsAssumption == Configs # {} /\ Configs \subseteq RiskConfig

\* Position::new: what a position of this size counts for.
Notional(size, price) == size * price

Notionals == {Notional(size, price) : size \in Sizes, price \in Prices}

VARIABLES
  config,      \* the ArcSwap
  positions,   \* position_tracker: notional per symbol, or NoPosition
  cooldown,    \* ticks until cooldowns[symbol], 0 when absent or past
  step,        \* next step of each trader's call
  sym,         \* symbol of the call
  loaded,      \* configuration the running check loaded
  passed,      \* every result pushed so far allows
  barred       \* history: the grounds for refusal that held at every moment
               \* since the trader's check began

tracked == <<config, positions, cooldown>>
calls == <<step, sym, loaded, passed>>
vars == <<tracked, calls, barred, breakerVars>>

Active == {s \in Symbols : positions[s] # NoPosition}
ExposureOf(held) ==
  MapThenSumSet(LAMBDA s : held[s], {s \in Symbols : held[s] # NoPosition})
TotalExposure == ExposureOf(positions)

\* The tracker: an entry of the same symbol is replaced.
TrackerAdd(s, notional) == positions' = [positions EXCEPT ![s] = notional]
TrackerRemove(s) == positions' = [positions EXCEPT ![s] = NoPosition]

CheckSteps == {"breaker", "cooldown", "concurrent", "position", "exposure"}
CloseSteps == {"sl_cooldown", "sl_loss"}
Steps == {"idle", "admitted", "reset"} \cup CheckSteps \cup CloseSteps

Grounds == {"breaker", "cooldown", "concurrent", "position", "exposure"}

TypeOK ==
  /\ config \in Configs
  /\ positions \in [Symbols -> Notionals \cup {NoPosition}]
  /\ cooldown \in [Symbols -> Nat]
  /\ step \in [Traders -> Steps]
  /\ sym \in [Traders -> Symbols \cup {NoSymbol}]
  /\ loaded \in [Traders -> Configs \cup {NoConfig}]
  /\ passed \in [Traders -> BOOLEAN]
  /\ barred \in [Traders -> SUBSET Grounds]
  /\ BreakerTypeOK

Init ==
  /\ config \in Configs
  /\ positions = [s \in Symbols |-> NoPosition]
  /\ cooldown = [s \in Symbols |-> 0]
  /\ step = [t \in Traders |-> "idle"]
  /\ sym = [t \in Traders |-> NoSymbol]
  /\ loaded = [t \in Traders |-> NoConfig]
  /\ passed = [t \in Traders |-> FALSE]
  /\ barred = [t \in Traders |-> {}]
  /\ BreakerInit

(***************************************************************************)
(* check                                                                   *)
(***************************************************************************)

\* The next step of a call; a call that ends forgets its locals.
Goto(t, to) ==
  /\ step' = [step EXCEPT ![t] = to]
  /\ IF to = "idle"
       THEN /\ sym' = [sym EXCEPT ![t] = NoSymbol]
            /\ loaded' = [loaded EXCEPT ![t] = NoConfig]
            /\ passed' = [passed EXCEPT ![t] = FALSE]
       ELSE UNCHANGED <<sym, loaded, passed>>

\* A result is pushed: the call goes on whatever it says.
Push(t, allowed, to) ==
  /\ step' = [step EXCEPT ![t] = to]
  /\ passed' = [passed EXCEPT ![t] = @ /\ allowed]
  /\ UNCHANGED <<sym, loaded>>

Enter(t, s) ==
  /\ step[t] = "idle"
  /\ step' = [step EXCEPT ![t] = "breaker"]
  /\ sym' = [sym EXCEPT ![t] = s]
  /\ loaded' = [loaded EXCEPT ![t] = config]
  /\ passed' = [passed EXCEPT ![t] = TRUE]
  /\ UNCHANGED <<tracked, breakerVars>>

\* circuit_breaker.check(), one of its steps at a time.
CheckBreaker(t) ==
  /\ step[t] = "breaker"
  /\ \/ /\ CheckAllows(t) \/ CheckHalfOpens(t)
        /\ Push(t, TRUE, "cooldown")
     \/ CheckDenies(t) /\ Push(t, FALSE, "cooldown")
     \/ /\ CheckReadsOpen(t) \/ CheckFindsPauseElapsed(t)
        /\ UNCHANGED calls
  /\ UNCHANGED tracked

CheckCooldown(t) ==
  /\ step[t] = "cooldown"
  /\ Push(t, cooldown[sym[t]] = 0, "concurrent")
  /\ UNCHANGED <<tracked, breakerVars>>

\* Mutant: > instead of >= against the limit.
CheckConcurrentOneMore(t) ==
  /\ step[t] = "concurrent"
  /\ Push(t, Cardinality(Active) <= loaded[t].concurrent, "position")
  /\ UNCHANGED <<tracked, breakerVars>>

CheckConcurrentPositions(t) ==
  /\ step[t] = "concurrent"
  /\ Push(t, Cardinality(Active) < loaded[t].concurrent, "position")
  /\ UNCHANGED <<tracked, breakerVars>>

\* Mutant: the configuration is loaded again instead of taken from the call.
CheckPositionReloads(t) ==
  /\ step[t] = "position"
  /\ Push(t, sym[t] \in Active => positions[sym[t]] < config.position, "exposure")
  /\ UNCHANGED <<tracked, breakerVars>>

CheckPositionLimit(t) ==
  /\ step[t] = "position"
  /\ Push(t, sym[t] \in Active => positions[sym[t]] < loaded[t].position, "exposure")
  /\ UNCHANGED <<tracked, breakerVars>>

\* The last check that can refuse; the caller then asks all_passed.
CheckTotalExposure(t) ==
  /\ step[t] = "exposure"
  /\ IF passed[t] /\ TotalExposure < loaded[t].exposure
       THEN Push(t, TRUE, "admitted")
       ELSE Goto(t, "idle")
  /\ UNCHANGED <<tracked, breakerVars>>

(***************************************************************************)
(* record_position_open, record_position_close, resets and reloads         *)
(***************************************************************************)

\* The order was filled.
RecordPositionOpen(t, notional) ==
  /\ step[t] = "admitted"
  /\ TrackerAdd(sym[t], notional)
  /\ Goto(t, "idle")
  /\ UNCHANGED <<config, cooldown, breakerVars>>

\* The order came to nothing: the gate is not told.
GiveUp(t) ==
  /\ step[t] = "admitted"
  /\ Goto(t, "idle")
  /\ UNCHANGED <<tracked, breakerVars>>

\* record_position_close removes the entry first; with was_stop_loss it goes
\* on to the cooldown and to the breaker.
RecordClose(t, s) ==
  /\ step[t] = "idle"
  /\ s \in Active
  /\ TrackerRemove(s)
  /\ UNCHANGED <<config, cooldown, calls, breakerVars>>

RecordStopLossClose(t, s) ==
  /\ step[t] = "idle"
  /\ s \in Active
  /\ TrackerRemove(s)
  /\ step' = [step EXCEPT ![t] = "sl_cooldown"]
  /\ sym' = [sym EXCEPT ![t] = s]
  /\ UNCHANGED <<config, cooldown, loaded, passed, breakerVars>>

SetCooldown(t) ==
  /\ step[t] = "sl_cooldown"
  /\ cooldown' = [cooldown EXCEPT ![sym[t]] = config.cooldown]
  /\ Goto(t, "sl_loss")
  /\ UNCHANGED <<config, positions, breakerVars>>

\* The steps of circuit_breaker.record_loss() and reset().
RecordStopLoss(t) ==
  /\ step[t] = "sl_loss"
  /\ RecordLoss(t)
  /\ IF pc'[t] = "idle" THEN Goto(t, "idle") ELSE UNCHANGED calls
  /\ UNCHANGED tracked

\* Manual intervention, from any thread.
ResetCircuitBreaker(t) ==
  /\ step[t] \in {"idle", "reset"}
  /\ Reset(t)
  /\ Goto(t, IF pc'[t] = "idle" THEN "idle" ELSE "reset")
  /\ UNCHANGED tracked

UpdateConfig(c) ==
  /\ config' = c
  /\ UNCHANGED <<positions, cooldown, calls, breakerVars>>

Tick ==
  /\ BreakerTick
  /\ cooldown' = [s \in Symbols |-> IF cooldown[s] > 0 THEN cooldown[s] - 1 ELSE 0]
  /\ UNCHANGED <<config, positions, calls>>

(***************************************************************************)
(* The specification                                                       *)
(***************************************************************************)

\* What speaks, at this moment, against an entry of trader t.
StandsAgainst(t, g) ==
  LET s == sym[t]
      c == loaded[t]
  IN CASE g = "breaker"    -> state = "Open" /\ openedAt # Pause
       [] g = "cooldown"   -> cooldown[s] > 0
       [] g = "concurrent" -> Cardinality(Active) >= c.concurrent
       [] g = "position"   -> s \in Active /\ positions[s] >= c.position
       [] g = "exposure"   -> ~(TotalExposure < c.exposure)

RefusalGrounds(t) == {g \in Grounds : StandsAgainst(t, g)}

Observe ==
  barred' = [t \in Traders |->
    IF step'[t] \notin CheckSteps \cup {"admitted"} THEN {}
    ELSE IF step[t] = "idle" THEN RefusalGrounds(t)'
    ELSE IF step[t] \in CheckSteps THEN {g \in barred[t] : StandsAgainst(t, g)'}
    ELSE barred[t]]

CheckAction(t) ==
  \/ \E s \in Symbols : Enter(t, s)
  \/ CheckBreaker(t)
  \/ CheckCooldown(t)
  \/ CheckConcurrentPositions(t)
  \/ CheckPositionLimit(t)
  \/ CheckTotalExposure(t)

RecordAction(t) ==
  \/ \E n \in Notionals : RecordPositionOpen(t, n)
  \/ GiveUp(t)
  \/ \E s \in Symbols : RecordClose(t, s) \/ RecordStopLossClose(t, s)
  \/ SetCooldown(t)
  \/ RecordStopLoss(t)
  \/ ResetCircuitBreaker(t)

Next ==
  /\ \/ \E t \in Traders : CheckAction(t) \/ RecordAction(t)
     \/ \E c \in Configs : UpdateConfig(c)
     \/ Tick
  /\ Observe

Spec == Init /\ [][Next]_vars

(***************************************************************************)
(* Properties                                                              *)
(***************************************************************************)

\* check and record_position_open are not one step, so the tracker may grow
\* past max_concurrent_positions of every configuration there is, but only by
\* what the other traders had already been granted: at most one position each.
Overshoot ==
  \E c \in Configs : Cardinality(Active) < c.concurrent + Cardinality(Traders)

\* No trader is admitted against a limit that stood during its whole check:
\* an open breaker whose pause runs, a cooldown, a full tracker, a full
\* symbol, a full exposure.
NoEntryAgainstStandingLimit ==
  \A t \in Traders : step[t] = "admitted" => barred[t] = {}
=============================================================================
