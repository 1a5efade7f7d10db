--------------------------- MODULE RiskGateProofs ---------------------------
(***************************************************************************)
(* Theorems about CircuitBreaker on its own and about RiskGate around it,  *)
(* for any threads, threshold, pause and bound on the loss counter, any    *)
(* finite number of traders and symbols, any sizes and any set of          *)
(* configurations a reload may install.                                    *)
(***************************************************************************)
EXTENDS RiskGate, FiniteSetTheorems, TLAPS

(***************************************************************************)
(* The circuit breaker                                                     *)
(***************************************************************************)

HoldsLosses(t) == pc[t] \in {"loss_state", "loss_now", "loss_stamp", "win_state"}
Resetting == \E t \in Traders : pc[t] = "reset_losses"
Tripped == state \in {"Open", "HalfOpen"}

\* Who holds which lock is told by where each thread is in its call.
LockInv ==
  /\ \A t \in Traders : lossesLock = t <=> HoldsLosses(t)
  /\ \A t \in Traders : t \in stampReaders <=> pc[t] = "half_open"

\* What a thread relies on between two of its steps: a tripped breaker can
\* only have been overwritten by a reset that still has to clear the losses,
\* and the stamp a check has compared cannot change while it is read-locked.
StepInv ==
  /\ \A t \in Traders : pc[t] = "win_state" => losses = 0
  /\ \A t \in Traders :
       pc[t] \in {"loss_now", "loss_stamp"}
         => losses >= Threshold /\ (Tripped \/ Resetting)
  /\ \A t \in Traders : pc[t] = "half_open" => openedAt = Pause

BreakerIInv == BreakerTypeOK /\ LockInv /\ StepInv /\ TripHolds

USE ThresholdAssumption, PauseAssumption,
    NoInstantAssumption, NoThreadAssumption

LEMMA OlderAge ==
  ASSUME NEW a \in Age \cup {NoInstant}
  PROVE  Older(a) \in Age \cup {NoInstant} /\ (a = Pause => Older(a) = Pause)
BY DEF Older, Age

LEMMA BreakerInitIInv == BreakerInit => BreakerIInv
BY DEF BreakerInit, BreakerIInv, BreakerTypeOK, LockInv, StepInv, TripHolds, HoldsLosses, Age,
       CircuitState, PcValues

LEMMA BreakerStepTypeOK == BreakerTypeOK /\ [BreakerNext]_breakerVars => BreakerTypeOK'
<1> SUFFICES ASSUME BreakerTypeOK, [BreakerNext]_breakerVars PROVE BreakerTypeOK'
  OBVIOUS
<1> USE DEF BreakerTypeOK, CircuitState, PcValues
<1>1. CASE BreakerTick
  BY <1>1, OlderAge DEF BreakerTick
<1>2. ASSUME NEW t \in Traders, Check(t) PROVE BreakerTypeOK'
  BY <1>2 DEF Check, CheckAllows, CheckReadsOpen, CheckDenies,
              CheckFindsPauseElapsed, CheckHalfOpens, BreakerGoto, shared
<1>3. ASSUME NEW t \in Traders, RecordLoss(t) PROVE BreakerTypeOK'
  <2>1. CASE LossCounts(t)
    BY <2>1 DEF LossCounts, BreakerGoto
  <2>2. CASE LossTrips(t)
    BY <2>2 DEF LossTrips, BreakerGoto, Age
  <2>3. CASE LossWarns(t)
    BY <2>3 DEF LossWarns, BreakerGoto
  <2>4. CASE LossReadsClock(t)
    BY <2>4 DEF LossReadsClock, BreakerGoto, shared, Age
  <2>5. CASE LossStamps(t)
    BY <2>5 DEF LossStamps, BreakerGoto
  <2> QED
    BY <1>3, <2>1, <2>2, <2>3, <2>4, <2>5 DEF RecordLoss
<1>4. ASSUME NEW t \in Traders, RecordWin(t) \/ Reset(t) PROVE BreakerTypeOK'
  BY <1>4 DEF RecordWin, WinClearsLosses, WinNormalises, Reset, ResetNormalises,
              ResetClearsLosses, ResetClearsStamp, BreakerGoto
<1>5. CASE UNCHANGED breakerVars
  BY <1>5 DEF breakerVars, shared
<1> QED
  BY <1>1, <1>2, <1>3, <1>4, <1>5 DEF BreakerNext

LEMMA BreakerStepIInv == BreakerIInv /\ [BreakerNext]_breakerVars => BreakerIInv'
<1> SUFFICES ASSUME BreakerIInv, [BreakerNext]_breakerVars PROVE LockInv' /\ StepInv' /\ TripHolds'
  BY BreakerStepTypeOK DEF BreakerIInv
<1> USE DEF BreakerIInv, BreakerTypeOK, LockInv, StepInv, TripHolds, HoldsLosses, Tripped,
            Resetting
<1>1. CASE BreakerTick
  BY <1>1, OlderAge DEF BreakerTick
<1>2. ASSUME NEW t \in Traders, Check(t) PROVE LockInv' /\ StepInv' /\ TripHolds'
  <2>1. CASE CheckAllows(t)
    BY <2>1 DEF CheckAllows, BreakerGoto, shared
  <2>2. CASE CheckReadsOpen(t)
    BY <2>2 DEF CheckReadsOpen, BreakerGoto, shared
  <2>3. CASE CheckDenies(t)
    BY <2>3 DEF CheckDenies, BreakerGoto, shared
  <2>4. CASE CheckFindsPauseElapsed(t)
    BY <2>4 DEF CheckFindsPauseElapsed, PauseElapsed, BreakerGoto
  <2>5. CASE CheckHalfOpens(t)
    BY <2>5 DEF CheckHalfOpens, BreakerGoto
  <2> QED
    BY <1>2, <2>1, <2>2, <2>3, <2>4, <2>5 DEF Check
<1>3. ASSUME NEW t \in Traders, RecordLoss(t) PROVE LockInv' /\ StepInv' /\ TripHolds'
  <2>1. CASE LossCounts(t)
    BY <2>1 DEF LossCounts, BreakerGoto
  <2>2. CASE LossTrips(t)
    BY <2>2 DEF LossTrips, BreakerGoto
  <2>3. CASE LossWarns(t)
    BY <2>3 DEF LossWarns, BreakerGoto
  <2>4. CASE LossReadsClock(t)
    BY <2>4 DEF LossReadsClock, BreakerGoto, shared
  <2>5. CASE LossStamps(t)
    BY <2>5 DEF LossStamps, BreakerGoto
  <2> QED
    BY <1>3, <2>1, <2>2, <2>3, <2>4, <2>5 DEF RecordLoss
<1>4. ASSUME NEW t \in Traders, RecordWin(t) PROVE LockInv' /\ StepInv' /\ TripHolds'
  <2>1. CASE WinClearsLosses(t)
    BY <2>1 DEF WinClearsLosses, BreakerGoto
  <2>2. CASE WinNormalises(t)
    BY <2>2 DEF WinNormalises, BreakerGoto
  <2> QED
    BY <1>4, <2>1, <2>2 DEF RecordWin
<1>5. ASSUME NEW t \in Traders, Reset(t) PROVE LockInv' /\ StepInv' /\ TripHolds'
  <2>1. CASE ResetNormalises(t)
    BY <2>1 DEF ResetNormalises, BreakerGoto
  <2>2. CASE ResetClearsLosses(t)
    BY <2>2 DEF ResetClearsLosses, BreakerGoto
  <2>3. CASE ResetClearsStamp(t)
    BY <2>3 DEF ResetClearsStamp, BreakerGoto
  <2> QED
    BY <1>5, <2>1, <2>2, <2>3 DEF Reset
<1>6. CASE UNCHANGED breakerVars
  BY <1>6 DEF breakerVars, shared
<1> QED
  BY <1>1, <1>2, <1>3, <1>4, <1>5, <1>6 DEF BreakerNext

LEMMA BreakerInvariance == BreakerSpec => []BreakerIInv
BY BreakerInitIInv, BreakerStepIInv, PTL DEF BreakerSpec

\* Every field of the breaker and every thread's place in its call keeps its
\* type (circuit_breaker.rs:16-22).
THEOREM BreakerTypeCorrect == BreakerSpec => []BreakerTypeOK
<1>1. BreakerIInv => BreakerTypeOK
  BY DEF BreakerIInv
<1> QED
  BY <1>1, BreakerInvariance, PTL

\* A breaker that has counted Threshold losses is Open or HalfOpen whenever no
\* record_loss, record_win or half-done reset is under way: no interleaving of
\* record_loss with check, record_win and reset loses the trip altogether.
THEOREM TripHoldsCorrect == BreakerSpec => []TripHolds
<1>1. BreakerIInv => TripHolds
  BY DEF BreakerIInv
<1> QED
  BY <1>1, BreakerInvariance, PTL

\* check writes HalfOpen only while the recorded stamp is Pause old
\* (circuit_breaker.rs:43-51).
THEOREM HalfOpenCorrect == BreakerSpec => HalfOpenOnElapsedStamp
<1>1. BreakerIInv /\ [BreakerNext]_breakerVars
        => [state' = "HalfOpen" /\ state # "HalfOpen" => openedAt = Pause]_breakerVars
  <2> SUFFICES ASSUME BreakerIInv, BreakerNext, state' = "HalfOpen", state # "HalfOpen"
               PROVE  openedAt = Pause
    OBVIOUS
  <2>1. PICK t \in Traders : Check(t) \/ RecordLoss(t) \/ RecordWin(t) \/ Reset(t)
    BY DEF BreakerNext, BreakerTick
  <2>2. CheckHalfOpens(t)
    BY <2>1 DEF Check, CheckAllows, CheckReadsOpen, CheckDenies,
                CheckFindsPauseElapsed, RecordLoss, LossCounts, LossTrips,
                LossWarns, LossReadsClock, LossStamps, RecordWin, WinClearsLosses,
                WinNormalises, Reset, ResetNormalises, ResetClearsLosses,
                ResetClearsStamp, shared
  <2> QED
    BY <2>2 DEF CheckHalfOpens, BreakerGoto, BreakerIInv, StepInv
<1> QED
  BY <1>1, BreakerInvariance, PTL DEF BreakerSpec, HalfOpenOnElapsedStamp

(***************************************************************************)
(* The gate: its inductive invariant                                       *)
(***************************************************************************)

\* The traders that have passed the count of positions and may still record
\* one: what the tracker can grow by.
Granted == {t \in Traders : passed[t] /\ step[t] \in {"position", "exposure", "admitted"}}

\* Active positions and granted ones together stay below some limit plus the
\* number of traders.
GrantInv ==
  \E c \in Configs :
    Cardinality(Active) + Cardinality(Granted) < c.concurrent + Cardinality(Traders)

\* A ground that has stood since trader t entered has not been looked at yet,
\* or has failed the call.
EntryInv(t) ==
  /\ step[t] = "admitted" => passed[t]
  /\ step[t] \in CheckSteps => loaded[t] \in Configs
  /\ passed[t] =>
       /\ "breaker" \in barred[t] => step[t] = "breaker"
       /\ "cooldown" \in barred[t] => step[t] \in {"breaker", "cooldown"}
       /\ "concurrent" \in barred[t] => step[t] \in {"breaker", "cooldown", "concurrent"}
       /\ "position" \in barred[t] => step[t] \in CheckSteps \ {"exposure"}
       /\ "exposure" \in barred[t] => step[t] \in CheckSteps

IInv == TypeOK /\ GrantInv /\ \A t \in Traders : EntryInv(t)

\* What a position counts for is a natural number, and none is "no position".
LEMMA NotionalsAreNat == Notionals \subseteq Nat /\ NoPosition \notin Notionals
<1>1. ASSUME NEW size \in Sizes, NEW price \in Prices PROVE Notional(size, price) \in Nat
  <2>1. size \in Nat /\ price \in Nat
    BY SizesAssumption
  <2> QED
    BY <2>1 DEF Notional
<1> QED
  BY <1>1, SizesAssumption DEF Notionals

USE TradersAssumption, SymbolsAssumption, NotionalsAreNat, ConfigsAssumption
USE DEF RiskConfig, TrackerAdd, TrackerRemove

(***************************************************************************)
(* Types                                                                   *)
(***************************************************************************)

\* The steps of the breaker's operations keep its fields in range.
LEMMA BreakerTypes ==
  ASSUME BreakerTypeOK,
         \/ BreakerTick \/ UNCHANGED breakerVars
         \/ \E t \in Traders : Check(t) \/ RecordLoss(t) \/ Reset(t)
  PROVE  BreakerTypeOK'
BY BreakerStepTypeOK DEF BreakerNext

\* The history of grounds keeps its type whatever the step.
LEMMA BarredTypes ==
  ASSUME Observe, barred \in [Traders -> SUBSET Grounds]
  PROVE  barred' \in [Traders -> SUBSET Grounds]
<1>1. \A t \in Traders : RefusalGrounds(t)' \subseteq Grounds
  BY DEF RefusalGrounds
<1> DEFINE old(t) == RefusalGrounds(t)'
           stands(t, g) == StandsAgainst(t, g)'
<1>2. \A t \in Traders : old(t) \subseteq Grounds
  BY <1>1
<1>3. barred' = [t \in Traders |->
         IF step'[t] \notin CheckSteps \cup {"admitted"} THEN {}
         ELSE IF step[t] = "idle" THEN old(t)
         ELSE IF step[t] \in CheckSteps THEN {g \in barred[t] : stands(t, g)}
         ELSE barred[t]]
  BY DEF Observe
<1> HIDE DEF old, stands
<1> QED
  BY <1>2, <1>3

\* Moving a call to its next step keeps the types of its locals.
LEMMA CallTypes ==
  ASSUME TypeOK, NEW t \in Traders, NEW to \in Steps, NEW allowed \in BOOLEAN,
         Goto(t, to) \/ Push(t, allowed, to) \/ (step' = step /\ UNCHANGED <<sym, loaded, passed>>)
  PROVE  /\ step' \in [Traders -> Steps]
         /\ sym' \in [Traders -> Symbols \cup {NoSymbol}]
         /\ loaded' \in [Traders -> Configs \cup {NoConfig}]
         /\ passed' \in [Traders -> BOOLEAN]
<1> USE DEF TypeOK
<1>1. CASE Goto(t, to)
  <2>1. CASE to = "idle"
    BY <1>1, <2>1 DEF Goto
  <2>2. CASE to # "idle"
    BY <1>1, <2>2 DEF Goto
  <2> QED
    BY <2>1, <2>2
<1>2. CASE Push(t, allowed, to)
  <2>1. (passed[t] /\ allowed) \in BOOLEAN
    OBVIOUS
  <2> QED
    BY <1>2, <2>1 DEF Push
<1>3. CASE step' = step /\ UNCHANGED <<sym, loaded, passed>>
  BY <1>3
<1> QED
  BY <1>1, <1>2, <1>3

LEMMA StepTypeOK == TypeOK /\ [Next]_vars => TypeOK'
<1> SUFFICES ASSUME TypeOK, [Next]_vars PROVE TypeOK'
  OBVIOUS
<1>1. CASE UNCHANGED vars
  BY <1>1, BreakerTypes DEF TypeOK, vars, tracked, calls, breakerVars
<1>2. CASE Next
  <2>1. barred' \in [Traders -> SUBSET Grounds]
    BY <1>2, BarredTypes DEF Next, TypeOK
  <2> DEFINE Rest == /\ config' \in Configs
                     /\ positions' \in [Symbols -> Notionals \cup {NoPosition}]
                     /\ cooldown' \in [Symbols -> Nat]
                     /\ step' \in [Traders -> Steps]
                     /\ sym' \in [Traders -> Symbols \cup {NoSymbol}]
                     /\ loaded' \in [Traders -> Configs \cup {NoConfig}]
                     /\ passed' \in [Traders -> BOOLEAN]
                     /\ BreakerTypeOK'
  <2> USE DEF TypeOK, tracked
  <2>2. ASSUME NEW t \in Traders, CheckAction(t) PROVE Rest
    <3>1. ASSUME NEW s \in Symbols, Enter(t, s) PROVE Rest
      BY <3>1, BreakerTypes DEF Enter, Steps, CheckSteps, breakerVars
    <3>2. CASE CheckBreaker(t)
      <4>1. Check(t)
        BY <3>2 DEF CheckBreaker, Check
      <4>2. \/ Push(t, TRUE, "cooldown") \/ Push(t, FALSE, "cooldown")
            \/ UNCHANGED <<step, sym, loaded, passed>>
        BY <3>2 DEF CheckBreaker, calls
      <4>3. "cooldown" \in Steps
        BY DEF Steps, CheckSteps
      <4> QED
        BY <3>2, <4>1, <4>2, <4>3, CallTypes, BreakerTypes DEF CheckBreaker
    <3>3. CASE CheckCooldown(t)
      BY <3>3, CallTypes, BreakerTypes DEF CheckCooldown, Steps, CheckSteps
    <3>4. CASE CheckConcurrentPositions(t)
      <4>1. (Cardinality(Active) < loaded[t].concurrent) \in BOOLEAN
        OBVIOUS
      <4>2. "position" \in Steps
        BY DEF Steps, CheckSteps
      <4>3. PICK allowed \in BOOLEAN : Push(t, allowed, "position")
        BY <3>4, <4>1 DEF CheckConcurrentPositions
      <4> QED
        BY <3>4, <4>2, <4>3, CallTypes, BreakerTypes DEF CheckConcurrentPositions
    <3>5. CASE CheckPositionLimit(t)
      BY <3>5, CallTypes, BreakerTypes DEF CheckPositionLimit, Steps, CheckSteps
    <3>6. CASE CheckTotalExposure(t)
      BY <3>6, CallTypes, BreakerTypes DEF CheckTotalExposure, Steps
    <3> QED
      BY <2>2, <3>1, <3>2, <3>3, <3>4, <3>5, <3>6 DEF CheckAction
  <2>3. ASSUME NEW t \in Traders, RecordAction(t) PROVE Rest
    <3>0. "idle" \in Steps /\ "reset" \in Steps /\ "sl_loss" \in Steps /\ "sl_cooldown" \in Steps
      BY DEF Steps, CloseSteps
    <3>1. ASSUME NEW n \in Notionals, RecordPositionOpen(t, n) PROVE Rest
      BY <3>0, <3>1, CallTypes, BreakerTypes DEF RecordPositionOpen
    <3>2. CASE GiveUp(t)
      BY <3>0, <3>2, CallTypes, BreakerTypes DEF GiveUp
    <3>3. ASSUME NEW s \in Symbols, RecordClose(t, s) PROVE Rest
      BY <3>3, BreakerTypes DEF RecordClose, calls
    <3>4. ASSUME NEW s \in Symbols, RecordStopLossClose(t, s) PROVE Rest
      BY <3>0, <3>4, BreakerTypes DEF RecordStopLossClose
    <3>5. CASE SetCooldown(t)
      <4>1. cooldown' \in [Symbols -> Nat]
        BY <3>5 DEF SetCooldown
      <4> QED
        BY <3>0, <3>5, <4>1, CallTypes, BreakerTypes DEF SetCooldown
    <3>6. CASE RecordStopLoss(t)
      <4>1. Goto(t, "idle") \/ UNCHANGED <<step, sym, loaded, passed>>
        BY <3>6 DEF RecordStopLoss, calls
      <4> QED
        BY <3>0, <3>6, <4>1, CallTypes, BreakerTypes DEF RecordStopLoss
    <3>7. CASE ResetCircuitBreaker(t)
      BY <3>0, <3>7, CallTypes, BreakerTypes DEF ResetCircuitBreaker
    <3> QED
      BY <2>3, <3>1, <3>2, <3>3, <3>4, <3>5, <3>6, <3>7 DEF RecordAction
  <2>4. ASSUME NEW c \in Configs, UpdateConfig(c) PROVE Rest
    BY <2>4, BreakerTypes DEF UpdateConfig, calls
  <2>5. ASSUME Tick PROVE Rest
    BY <2>5, BreakerTypes DEF Tick, calls
  <2>6. Rest
    BY <1>2, <2>2, <2>3, <2>4, <2>5 DEF Next
  <2> QED
    BY <2>1, <2>6
<1> QED
  BY <1>1, <1>2

(***************************************************************************)
(* Grounds of refusal                                                      *)
(***************************************************************************)

\* What a ground says after a step.
LEMMA GroundMeans ==
  ASSUME NEW t \in Traders
  PROVE  /\ "breaker" \in RefusalGrounds(t)' => state' = "Open"
         /\ "cooldown" \in RefusalGrounds(t)' => cooldown'[sym'[t]] > 0
         /\ "concurrent" \in RefusalGrounds(t)'
              => Cardinality(Active') >= loaded'[t].concurrent
         /\ "position" \in RefusalGrounds(t)'
              => sym'[t] \in Active' /\ positions'[sym'[t]] >= loaded'[t].position
         /\ "exposure" \in RefusalGrounds(t)' => ~(TotalExposure' < loaded'[t].exposure)
BY DEF RefusalGrounds, StandsAgainst

\* A ground that stood throughout stood before the step, and stands after it
\* while the call is in its checks.
LEMMA BarredShrinks ==
  ASSUME Observe, NEW t \in Traders, TypeOK
  PROVE  /\ step'[t] \notin CheckSteps \cup {"admitted"} => barred'[t] = {}
         /\ step[t] \in CheckSteps => /\ barred'[t] \subseteq barred[t]
                                     /\ barred'[t] \subseteq RefusalGrounds(t)'
         /\ step[t] = "admitted" => barred'[t] \subseteq barred[t]
<1> DEFINE now(u) == RefusalGrounds(u)'
           stands(u, g) == StandsAgainst(u, g)'
<1>1. barred' = [u \in Traders |->
         IF step'[u] \notin CheckSteps \cup {"admitted"} THEN {}
         ELSE IF step[u] = "idle" THEN now(u)
         ELSE IF step[u] \in CheckSteps THEN {g \in barred[u] : stands(u, g)}
         ELSE barred[u]]
  BY DEF Observe
<1>4. now(t) = {g \in Grounds : stands(t, g)}
  BY DEF RefusalGrounds
<1>5. barred[t] \subseteq Grounds
  BY DEF TypeOK
<1> HIDE DEF now, stands
<1>2. "admitted" \notin CheckSteps /\ "idle" \notin CheckSteps
  BY DEF CheckSteps
<1>3. now(t) = RefusalGrounds(t)'
  BY DEF now
<1> QED
  BY <1>1, <1>2, <1>3, <1>4, <1>5

\* A step of somebody else.
LEMMA EntryKept ==
  ASSUME TypeOK, Observe, NEW t \in Traders, EntryInv(t),
         step'[t] = step[t], loaded'[t] = loaded[t], passed'[t] = passed[t]
  PROVE  EntryInv(t)'
BY BarredShrinks DEF EntryInv, CheckSteps

\* A step that leaves the checks, for good or for anything but an admission.
LEMMA EntryLeft ==
  ASSUME TypeOK, Observe, NEW t \in Traders, step'[t] \notin CheckSteps \cup {"admitted"}
  PROVE  EntryInv(t)'
BY BarredShrinks DEF EntryInv

LEMMA StepEntryInv ==
  ASSUME TypeOK, TypeOK', Next, NEW t \in Traders, EntryInv(t)
  PROVE  EntryInv(t)'
<1>0. Observe
  BY DEF Next
<1>1. ASSUME NEW u \in Traders, CheckAction(u), u # t PROVE EntryInv(t)'
  <2>1. step'[t] = step[t] /\ loaded'[t] = loaded[t] /\ passed'[t] = passed[t]
    <3> USE DEF TypeOK
    <3>1. ASSUME NEW s \in Symbols, Enter(u, s) PROVE <2>1
      BY <1>1, <3>1 DEF Enter
    <3>2. CASE CheckBreaker(u)
      BY <1>1, <3>2 DEF CheckBreaker, Push, calls
    <3>3. CASE CheckCooldown(u) \/ CheckConcurrentPositions(u) \/ CheckPositionLimit(u)
      BY <1>1, <3>3 DEF CheckCooldown, CheckConcurrentPositions, CheckPositionLimit, Push
    <3>4. CASE CheckTotalExposure(u)
      BY <1>1, <3>4 DEF CheckTotalExposure, Push, Goto
    <3> QED
      BY <1>1, <3>1, <3>2, <3>3, <3>4 DEF CheckAction
  <2> QED
    BY <1>0, <2>1, EntryKept
<1>2. ASSUME CheckAction(t) PROVE EntryInv(t)'
  <2> USE DEF TypeOK
  <2>1. ASSUME NEW s \in Symbols, Enter(t, s) PROVE EntryInv(t)'
    BY <2>1 DEF Enter, EntryInv, CheckSteps
  <2>2. CASE CheckBreaker(t)
    <3>1. CASE UNCHANGED calls
      BY <1>0, <3>1, EntryKept DEF calls
    <3>2. CASE Push(t, TRUE, "cooldown") /\ state' # "Open"
      BY <1>0, <2>2, <3>2, GroundMeans, BarredShrinks DEF CheckBreaker, Push, EntryInv, CheckSteps
    <3>3. CASE Push(t, FALSE, "cooldown")
      BY <2>2, <3>3 DEF CheckBreaker, Push, EntryInv, CheckSteps
    <3>4. CheckAllows(t) \/ CheckHalfOpens(t) => state' # "Open"
      BY DEF CheckAllows, CheckHalfOpens, shared
    <3> QED
      BY <2>2, <3>1, <3>2, <3>3, <3>4 DEF CheckBreaker
  <2>3. CASE CheckCooldown(t)
    <3>1. step'[t] = "concurrent" /\ loaded'[t] = loaded[t] /\ step[t] = "cooldown"
      BY <2>3 DEF CheckCooldown, Push
    <3>2. passed'[t] => passed[t] /\ cooldown[sym[t]] = 0
      BY <2>3 DEF CheckCooldown, Push
    <3>3. cooldown' = cooldown /\ sym' = sym
      BY <2>3 DEF CheckCooldown, Push, tracked
    <3>4. passed'[t] => ~(cooldown'[sym'[t]] > 0)
      BY <3>2, <3>3
    <3> QED
      BY <1>0, <3>1, <3>2, <3>4, GroundMeans, BarredShrinks DEF EntryInv, CheckSteps
  <2>4. CASE CheckConcurrentPositions(t)
    <3>1. step'[t] = "position" /\ loaded'[t] = loaded[t] /\ step[t] = "concurrent"
      BY <2>4 DEF CheckConcurrentPositions, Push
    <3>2. Active' = Active
      BY <2>4 DEF CheckConcurrentPositions, tracked, Active
    <3>3. passed'[t] => passed[t] /\ Cardinality(Active) < loaded[t].concurrent
      BY <2>4 DEF CheckConcurrentPositions, Push
    <3>4. Cardinality(Active) \in Nat
      BY FS_Subset, FS_CardinalityType DEF Active
    <3>5. loaded[t].concurrent \in Nat
      BY <3>1 DEF EntryInv, CheckSteps
    <3>6. passed'[t] => ~(Cardinality(Active') >= loaded'[t].concurrent)
      BY <3>1, <3>2, <3>3, <3>4, <3>5
    <3> QED
      BY <1>0, <3>1, <3>3, <3>6, GroundMeans, BarredShrinks DEF EntryInv, CheckSteps
  <2>5. CASE CheckPositionLimit(t)
    <3>1. step'[t] = "exposure" /\ loaded'[t] = loaded[t] /\ step[t] = "position" /\ sym' = sym
      BY <2>5 DEF CheckPositionLimit, Push
    <3>2. positions' = positions /\ Active' = Active
      BY <2>5 DEF CheckPositionLimit, tracked, Active
    <3>3. passed'[t] => passed[t] /\ (sym[t] \in Active => positions[sym[t]] < loaded[t].position)
      BY <2>5 DEF CheckPositionLimit, Push
    <3>4. sym[t] \in Active => positions[sym[t]] \in Nat
      BY DEF Active
    <3>5. loaded[t].position \in Nat
      BY <3>1 DEF EntryInv, CheckSteps
    <3>6. passed'[t] => ~(sym'[t] \in Active' /\ positions'[sym'[t]] >= loaded'[t].position)
      BY <3>1, <3>2, <3>3, <3>4, <3>5
    <3> QED
      BY <1>0, <3>1, <3>3, <3>6, GroundMeans, BarredShrinks DEF EntryInv, CheckSteps
  <2>6. CASE CheckTotalExposure(t)
    <3>1. CASE passed[t] /\ TotalExposure < loaded[t].exposure
      <4>1. step'[t] = "admitted" /\ loaded'[t] = loaded[t] /\ step[t] = "exposure" /\ passed'[t]
        BY <2>6, <3>1 DEF CheckTotalExposure, Push
      <4>2. TotalExposure' = TotalExposure
        BY <2>6 DEF CheckTotalExposure, tracked, TotalExposure
      <4> QED
        BY <1>0, <3>1, <4>1, <4>2, GroundMeans, BarredShrinks DEF EntryInv, CheckSteps
    <3>2. CASE ~(passed[t] /\ TotalExposure < loaded[t].exposure)
      BY <1>0, <2>6, <3>2, EntryLeft DEF CheckTotalExposure, Goto, CheckSteps
    <3> QED
      BY <3>1, <3>2
  <2> QED
    BY <1>2, <2>1, <2>2, <2>3, <2>4, <2>5, <2>6 DEF CheckAction
<1>3. ASSUME NEW u \in Traders, RecordAction(u) PROVE EntryInv(t)'
  <2> USE DEF TypeOK
  <2>1. \/ step'[t] = step[t] /\ loaded'[t] = loaded[t] /\ passed'[t] = passed[t]
        \/ step'[t] \in {"idle", "reset"} \cup CloseSteps
    <3>1. ASSUME NEW n \in Notionals, RecordPositionOpen(u, n) PROVE <2>1
      BY <3>1 DEF RecordPositionOpen, Goto
    <3>2. CASE GiveUp(u)
      BY <3>2 DEF GiveUp, Goto
    <3>3. ASSUME NEW s \in Symbols, RecordClose(u, s) PROVE <2>1
      BY <3>3 DEF RecordClose, calls
    <3>4. ASSUME NEW s \in Symbols, RecordStopLossClose(u, s) PROVE <2>1
      BY <3>4 DEF RecordStopLossClose, CloseSteps
    <3>5. CASE SetCooldown(u)
      BY <3>5 DEF SetCooldown, Goto, CloseSteps
    <3>6. CASE RecordStopLoss(u)
      BY <3>6 DEF RecordStopLoss, Goto, calls
    <3>7. CASE ResetCircuitBreaker(u)
      <4>1. PICK to \in {"idle", "reset"} : Goto(u, to)
        BY <3>7 DEF ResetCircuitBreaker
      <4> QED
        BY <4>1 DEF Goto
    <3> QED
      BY <1>3, <3>1, <3>2, <3>3, <3>4, <3>5, <3>6, <3>7 DEF RecordAction
  <2>2. ({"idle", "reset"} \cup CloseSteps) \cap (CheckSteps \cup {"admitted"}) = {}
    BY DEF CloseSteps, CheckSteps
  <2> QED
    BY <1>0, <2>1, <2>2, EntryKept, EntryLeft
<1>4. ASSUME NEW c \in Configs, UpdateConfig(c) PROVE EntryInv(t)'
  BY <1>0, <1>4, EntryKept DEF UpdateConfig, calls
<1>5. ASSUME Tick PROVE EntryInv(t)'
  BY <1>0, <1>5, EntryKept DEF Tick, calls
<1> QED
  BY <1>1, <1>2, <1>3, <1>4, <1>5 DEF Next

(***************************************************************************)
(* The overshoot                                                           *)
(***************************************************************************)

\* Active positions and granted ones are counted by natural numbers.
LEMMA Counted ==
  /\ IsFiniteSet(Active) /\ IsFiniteSet(Granted)
  /\ Cardinality(Active) \in Nat /\ Cardinality(Granted) \in Nat
  /\ Cardinality(Traders) \in Nat
  /\ Cardinality(Granted) <= Cardinality(Traders)
<1>1. Active \in SUBSET Symbols /\ Granted \in SUBSET Traders
  BY DEF Active, Granted
<1> QED
  BY <1>1, FS_Subset, FS_CardinalityType

\* Smaller sets keep the bound.
LEMMA GrantShrinks ==
  ASSUME GrantInv, Active' \subseteq Active, Granted' \subseteq Granted
  PROVE  GrantInv'
<1>1. PICK c \in Configs :
        Cardinality(Active) + Cardinality(Granted) < c.concurrent + Cardinality(Traders)
  BY DEF GrantInv
<1>2. /\ Cardinality(Active') <= Cardinality(Active) /\ Cardinality(Active') \in Nat
      /\ Cardinality(Granted') <= Cardinality(Granted) /\ Cardinality(Granted') \in Nat
  BY Counted, FS_Subset, FS_CardinalityType
<1>3. c.concurrent \in Nat
  OBVIOUS
<1>4. Cardinality(Active') + Cardinality(Granted') < c.concurrent + Cardinality(Traders)
  BY <1>1, <1>2, <1>3, Counted
<1> QED
  BY <1>4 DEF GrantInv

\* An open turns a granted position into an active one.
LEMMA OpenKeepsGrant ==
  ASSUME TypeOK, GrantInv, NEW t \in Traders, NEW n \in Notionals, EntryInv(t),
         RecordPositionOpen(t, n)
  PROVE  GrantInv'
<1>1. PICK c \in Configs :
        Cardinality(Active) + Cardinality(Granted) < c.concurrent + Cardinality(Traders)
  BY DEF GrantInv
<1>2. Active' \subseteq Active \cup {sym[t]}
  BY DEF RecordPositionOpen, Active, TypeOK
<1>3. t \in Granted /\ Granted' \subseteq Granted \ {t}
  BY DEF RecordPositionOpen, Goto, Granted, EntryInv, TypeOK
<1>4. /\ IsFiniteSet(Active \cup {sym[t]})
      /\ Cardinality(Active \cup {sym[t]}) \in Nat
      /\ Cardinality(Active \cup {sym[t]}) <= Cardinality(Active) + 1
  <2>1. /\ IsFiniteSet(Active \cup {sym[t]})
        /\ Cardinality(Active \cup {sym[t]})
             = IF sym[t] \in Active THEN Cardinality(Active) ELSE Cardinality(Active) + 1
    BY Counted, FS_AddElement
  <2> QED
    BY <2>1, Counted
<1>5. /\ IsFiniteSet(Granted \ {t})
      /\ Cardinality(Granted \ {t}) = Cardinality(Granted) - 1
  BY <1>3, Counted, FS_RemoveElement
<1>6. /\ Cardinality(Active') <= Cardinality(Active) + 1 /\ Cardinality(Active') \in Nat
      /\ Cardinality(Granted') <= Cardinality(Granted) - 1 /\ Cardinality(Granted') \in Nat
  <2>1. /\ Cardinality(Active') \in Nat
        /\ Cardinality(Active') <= Cardinality(Active \cup {sym[t]})
    BY <1>2, <1>4, FS_Subset, FS_CardinalityType
  <2>2. /\ Cardinality(Granted') \in Nat
        /\ Cardinality(Granted') <= Cardinality(Granted \ {t})
    BY <1>3, <1>5, FS_Subset, FS_CardinalityType
  <2> QED
    BY <1>4, <1>5, <2>1, <2>2, Counted
<1>7. c.concurrent \in Nat
  OBVIOUS
<1>8. Cardinality(Active') + Cardinality(Granted') < c.concurrent + Cardinality(Traders)
  BY <1>1, <1>6, <1>7, Counted
<1> QED
  BY <1>8 DEF GrantInv

\* A passed count grants one more, but there are no more than the traders.
LEMMA CountGrants ==
  ASSUME TypeOK, GrantInv, NEW t \in Traders, EntryInv(t), CheckConcurrentPositions(t)
  PROVE  GrantInv'
<1>1. Active' = Active
  BY DEF CheckConcurrentPositions, tracked, Active
<1>2. CASE passed[t] /\ Cardinality(Active) < loaded[t].concurrent
  <2>1. loaded[t] \in Configs
    BY DEF CheckConcurrentPositions, EntryInv, CheckSteps
  <2>2. loaded[t].concurrent \in Nat
    BY <2>1
  <2>3. Granted' \in SUBSET Traders
    BY DEF Granted
  <2>4. Cardinality(Granted') \in Nat /\ Cardinality(Granted') <= Cardinality(Traders)
    BY <2>3, FS_Subset, FS_CardinalityType
  <2>5. Cardinality(Active') + Cardinality(Granted')
          < loaded[t].concurrent + Cardinality(Traders)
    BY <1>1, <1>2, <2>2, <2>4, Counted
  <2> QED
    BY <2>1, <2>5 DEF GrantInv
<1>3. CASE ~(passed[t] /\ Cardinality(Active) < loaded[t].concurrent)
  <2>1. Granted' \subseteq Granted
    BY <1>3 DEF CheckConcurrentPositions, Push, Granted, TypeOK
  <2> QED
    BY <1>1, <2>1, GrantShrinks
<1> QED
  BY <1>2, <1>3

LEMMA StepGrantInv ==
  ASSUME TypeOK, GrantInv, \A t \in Traders : EntryInv(t), Next
  PROVE  GrantInv'
<1>1. ASSUME NEW t \in Traders, CheckAction(t) PROVE GrantInv'
  <2>1. CASE CheckConcurrentPositions(t)
    BY <2>1, CountGrants
  <2>2. CASE ~CheckConcurrentPositions(t)
    <3> USE DEF Granted, TypeOK
    <3>1. Active' = Active
      BY <1>1, <2>2 DEF CheckAction, Enter, CheckBreaker, CheckCooldown, CheckPositionLimit,
                 CheckTotalExposure, tracked, Active
    <3>2. ASSUME NEW s \in Symbols, Enter(t, s) PROVE Granted' \subseteq Granted
      BY <3>2 DEF Enter
    <3>3. CASE CheckBreaker(t)
      BY <3>1, <3>3, GrantShrinks DEF CheckBreaker, Push, calls
    <3>4. CASE CheckCooldown(t) \/ CheckPositionLimit(t)
      BY <3>1, <3>4, GrantShrinks DEF CheckCooldown, CheckPositionLimit, Push
    <3>5. CASE CheckTotalExposure(t)
      BY <3>1, <3>5, GrantShrinks DEF CheckTotalExposure, Push, Goto
    <3> QED
      BY <1>1, <2>2, <3>1, <3>2, <3>3, <3>4, <3>5, GrantShrinks DEF CheckAction
  <2> QED
    BY <2>1, <2>2
<1>2. ASSUME NEW t \in Traders, RecordAction(t) PROVE GrantInv'
  <2>1. ASSUME NEW n \in Notionals, RecordPositionOpen(t, n) PROVE GrantInv'
    BY <2>1, OpenKeepsGrant
  <2> USE DEF Granted, TypeOK
  <2>2. CASE GiveUp(t)
    BY <2>2, GrantShrinks DEF GiveUp, Goto, Active, tracked
  <2>3. ASSUME NEW s \in Symbols, RecordClose(t, s) PROVE GrantInv'
    BY <2>3, GrantShrinks DEF RecordClose, Active, calls
  <2>4. ASSUME NEW s \in Symbols, RecordStopLossClose(t, s) PROVE GrantInv'
    BY <2>4, GrantShrinks DEF RecordStopLossClose, Active
  <2>5. CASE SetCooldown(t)
    BY <2>5, GrantShrinks DEF SetCooldown, Goto, Active
  <2>6. CASE RecordStopLoss(t)
    BY <2>6, GrantShrinks DEF RecordStopLoss, Goto, calls, tracked, Active
  <2>7. CASE ResetCircuitBreaker(t)
    BY <2>7, GrantShrinks DEF ResetCircuitBreaker, Goto, tracked, Active
  <2> QED
    BY <1>2, <2>1, <2>2, <2>3, <2>4, <2>5, <2>6, <2>7 DEF RecordAction
<1>3. ASSUME NEW c \in Configs, UpdateConfig(c) PROVE GrantInv'
  BY <1>3, GrantShrinks DEF UpdateConfig, calls, Granted, Active
<1>4. ASSUME Tick PROVE GrantInv'
  BY <1>4, GrantShrinks DEF Tick, calls, Granted, Active
<1> QED
  BY <1>1, <1>2, <1>3, <1>4 DEF Next

(***************************************************************************)
(* The theorems                                                            *)
(***************************************************************************)

LEMMA InitIInv == Init => IInv
<1> SUFFICES ASSUME Init PROVE IInv
  OBVIOUS
<1>1. TypeOK
  BY DEF Init, TypeOK, Steps, Grounds, BreakerInit, BreakerTypeOK, Age,
         CircuitState, PcValues
<1>2. GrantInv
  <2>1. Active = {} /\ Granted = {}
    BY DEF Init, Active, Granted
  <2>2. config \in Configs /\ config.concurrent \in Nat \ {0}
    BY DEF Init
  <2>3. Cardinality(Active) + Cardinality(Granted) < config.concurrent + Cardinality(Traders)
    BY <2>1, <2>2, Counted, FS_EmptySet
  <2> QED
    BY <2>2, <2>3 DEF GrantInv
<1>3. \A t \in Traders : EntryInv(t)
  BY DEF Init, EntryInv, CheckSteps
<1> QED
  BY <1>1, <1>2, <1>3 DEF IInv

LEMMA StepIInv == IInv /\ [Next]_vars => IInv'
<1> SUFFICES ASSUME IInv, [Next]_vars PROVE IInv'
  OBVIOUS
<1>1. TypeOK'
  BY StepTypeOK DEF IInv
<1>2. CASE UNCHANGED vars
  BY <1>1, <1>2, GrantShrinks DEF IInv, vars, tracked, calls, EntryInv, Granted, Active
<1>3. CASE Next
  BY <1>1, <1>3, StepGrantInv, StepEntryInv DEF IInv
<1> QED
  BY <1>2, <1>3

LEMMA Invariance == Spec => []IInv
BY InitIInv, StepIInv, PTL DEF Spec

\* Whatever step the gate takes, its breaker takes a step of one of its own
\* operations or none.
LEMMA GateStepsBreaker == [Next]_vars => [BreakerNext]_breakerVars
<1> SUFFICES ASSUME Next PROVE BreakerNext \/ UNCHANGED breakerVars
  BY DEF vars
<1>1. ASSUME NEW t \in Traders, CheckAction(t) PROVE Check(t) \/ UNCHANGED breakerVars
  BY <1>1 DEF CheckAction, Enter, CheckBreaker, CheckCooldown, CheckConcurrentPositions,
              CheckPositionLimit, CheckTotalExposure, Check
<1>2. ASSUME NEW t \in Traders, RecordAction(t)
      PROVE  RecordLoss(t) \/ Reset(t) \/ UNCHANGED breakerVars
  BY <1>2 DEF RecordAction, RecordPositionOpen, GiveUp, RecordClose, RecordStopLossClose,
              SetCooldown, RecordStopLoss, ResetCircuitBreaker
<1>3. ASSUME NEW c \in Configs, UpdateConfig(c) PROVE UNCHANGED breakerVars
  BY <1>3 DEF UpdateConfig
<1>4. CASE Tick
  BY <1>4 DEF Tick, BreakerNext
<1> QED
  BY <1>1, <1>2, <1>3, <1>4 DEF Next, BreakerNext

\* The gate keeps to what CircuitBreaker models: behind its check, its
\* record_position_close and its reset_circuit_breaker the breaker behaves as it does
\* when its threads call it on their own, so what is proved of it holds in the gate.
THEOREM GateUsesBreaker == Spec => BreakerSpec
<1>1. Init => BreakerInit
  BY DEF Init
<1> QED
  BY <1>1, GateStepsBreaker, PTL DEF Spec, BreakerSpec

\* In the gate, too, a counted trip holds (gate.rs:148): no interleaving of stop-losses,
\* checks and manual resets of any number of traders loses it.
THEOREM TripHoldsInGate == Spec => []TripHolds
BY GateUsesBreaker, TripHoldsCorrect

\* The gate's structures, the breaker's fields and every trader's place in its
\* call keep their types (gate.rs:36-42, position.rs:9-19).
THEOREM TypeCorrect == Spec => []TypeOK
<1>1. IInv => TypeOK
  BY DEF IInv
<1> QED
  BY <1>1, Invariance, PTL

\* However checks, records and reloads of any number of traders interleave,
\* the tracker holds fewer positions than some configured limit plus the
\* number of traders: each trader adds at most one to what the count saw.
THEOREM OvershootCorrect == Spec => []Overshoot
<1>1. IInv => Overshoot
  <2> SUFFICES ASSUME IInv PROVE Overshoot
    OBVIOUS
  <2>1. PICK c \in Configs :
          Cardinality(Active) + Cardinality(Granted) < c.concurrent + Cardinality(Traders)
    BY DEF IInv, GrantInv
  <2>2. c.concurrent \in Nat
    OBVIOUS
  <2>3. Cardinality(Active) < c.concurrent + Cardinality(Traders)
    BY <2>1, <2>2, Counted
  <2> QED
    BY <2>3 DEF Overshoot
<1> QED
  BY <1>1, Invariance, PTL

\* check reads its structures one after the other, yet no ground that stood
\* from its first step to its last is missed (gate.rs:61-84).
THEOREM NoEntryAgainstStandingLimitCorrect == Spec => []NoEntryAgainstStandingLimit
<1>1. IInv => NoEntryAgainstStandingLimit
  BY DEF IInv, TypeOK, Grounds, EntryInv, CheckSteps, NoEntryAgainstStandingLimit
<1> QED
  BY <1>1, Invariance, PTL
=============================================================================
