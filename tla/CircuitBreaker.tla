--------------------------- MODULE CircuitBreaker ---------------------------
(***************************************************************************)
(* crates/risk-gate/src/circuit_breaker.rs: the breaker that pauses        *)
(* trading after a run of losses.                                          *)
(*                                                                         *)
(* Its three fields live under three separate RwLocks, so an operation is  *)
(* a sequence of lock-sized steps and operations of several threads        *)
(* interleave between them.  A statement such as *self.state.write() = s   *)
(* takes and drops its lock within one step; the guards that outlive a     *)
(* statement are modelled: record_loss and record_win keep the losses lock *)
(* for the whole call (lossesLock), check keeps the opened_at read guard   *)
(* while it writes state (stampReaders).                                   *)
(*                                                                         *)
(* Instants are kept as ages, saturating at Pause: the only question the   *)
(* code asks of an instant is whether Pause has elapsed since.  The        *)
(* counter of losses stops at Threshold, the only value it is compared     *)
(* with; losses themselves go on.                                          *)
(***************************************************************************)
EXTENDS Naturals

CONSTANTS
  Traders,     \* threads that call the breaker
  Threshold,   \* losses that trip it (circuit_breaker.rs:103: 5)
  Pause,       \* pause after a trip, in ticks (circuit_breaker.rs:103: 300 s)
  NoInstant,   \* None, where an Option<Instant> is expected
  NoThread     \* nobody, where the holder of a lock is expected

ASSUME ThresholdAssumption == Threshold \in Nat \ {0}
ASSUME PauseAssumption == Pause \in Nat \ {0}

ASSUME NoInstantAssumption == NoInstant \notin Nat
ASSUME NoThreadAssumption == NoThread \notin Traders

Age == 0..Pause
CircuitState == {"Normal", "Warning", "Open", "HalfOpen"}

VARIABLES
  state,         \* self.state
  losses,        \* *self.consecutive_losses
  openedAt,      \* age of *self.opened_at, or NoInstant
  lossesLock,    \* holder of the consecutive_losses write guard
  stampReaders,  \* threads holding the opened_at read guard
  pc,            \* next step of each thread's call; "idle" between calls
  stamp          \* age of the Instant::now() a record_loss is about to store

shared == <<state, losses, openedAt, lossesLock, stampReaders>>
breakerVars == <<shared, pc, stamp>>

PcValues == {"idle", "check_stamp", "half_open",
             "loss_state", "loss_now", "loss_stamp", "win_state",
             "reset_losses", "reset_stamp"}

BreakerTypeOK ==
  /\ state \in CircuitState
  /\ losses \in 0..Threshold
  /\ openedAt \in Age \cup {NoInstant}
  /\ lossesLock \in Traders \cup {NoThread}
  /\ stampReaders \in SUBSET Traders
  /\ pc \in [Traders -> PcValues]
  /\ stamp \in [Traders -> Age \cup {NoInstant}]

BreakerInit ==
  /\ state = "Normal"
  /\ losses = 0
  /\ openedAt = NoInstant
  /\ lossesLock = NoThread
  /\ stampReaders = {}
  /\ pc = [t \in Traders |-> "idle"]
  /\ stamp = [t \in Traders |-> NoInstant]

\* A call starts at "idle" and returns to it.
BreakerGoto(t, from, to) ==
  /\ pc[t] = from
  /\ pc' = [pc EXCEPT ![t] = to]

(***************************************************************************)
(* check allows, denies or goes on; the names say which.                   *)
(***************************************************************************)

\* Any state but Open answers at once; Open goes on to the time stamp.
CheckAllows(t) ==
  /\ state \in {"Normal", "Warning", "HalfOpen"}
  /\ BreakerGoto(t, "idle", "idle")
  /\ UNCHANGED <<shared, stamp>>

CheckReadsOpen(t) ==
  /\ state = "Open"
  /\ BreakerGoto(t, "idle", "check_stamp")
  /\ UNCHANGED <<shared, stamp>>

PauseElapsed == openedAt = Pause

\* Mutant: a refused check starts the pause anew.
CheckDeniesRestartsPause(t) ==
  /\ ~PauseElapsed
  /\ BreakerGoto(t, "check_stamp", "idle")
  /\ openedAt' = IF openedAt = NoInstant THEN openedAt ELSE 0
  /\ UNCHANGED <<state, losses, lossesLock, stampReaders, stamp>>

CheckDenies(t) ==
  /\ ~PauseElapsed
  /\ BreakerGoto(t, "check_stamp", "idle")
  /\ UNCHANGED <<shared, stamp>>

\* The read guard of opened_at stays alive until the call returns.
\* Mutant: the time is compared without keeping the read guard.
CheckComparesUnlocked(t) ==
  /\ PauseElapsed
  /\ BreakerGoto(t, "check_stamp", "half_open")
  /\ UNCHANGED <<shared, stamp>>

CheckFindsPauseElapsed(t) ==
  /\ PauseElapsed
  /\ BreakerGoto(t, "check_stamp", "half_open")
  /\ stampReaders' = stampReaders \cup {t}
  /\ UNCHANGED <<state, losses, openedAt, lossesLock, stamp>>

\* Mutant: half-opening asks for the losses lock under the read guard, the
\* opposite order of record_loss.
CheckHalfOpensUnderLosses(t) ==
  /\ lossesLock = NoThread
  /\ BreakerGoto(t, "half_open", "idle")
  /\ state' = "HalfOpen"
  /\ stampReaders' = stampReaders \ {t}
  /\ UNCHANGED <<losses, openedAt, lossesLock, stamp>>

\* The write is unconditional: whatever state holds by now is overwritten.
CheckHalfOpens(t) ==
  /\ BreakerGoto(t, "half_open", "idle")
  /\ state' = "HalfOpen"
  /\ stampReaders' = stampReaders \ {t}
  /\ UNCHANGED <<losses, openedAt, lossesLock, stamp>>

(***************************************************************************)
(* record_loss                                                             *)
(***************************************************************************)

\* However many losses were counted, one more is counted and goes on to trip
\* and to stamp anew.
LossCounts(t) ==
  /\ lossesLock = NoThread
  /\ BreakerGoto(t, "idle", "loss_state")
  /\ lossesLock' = t
  /\ losses' = IF losses < Threshold THEN losses + 1 ELSE losses
  /\ UNCHANGED <<state, openedAt, stampReaders, stamp>>

LossTrips(t) ==
  /\ losses >= Threshold
  /\ BreakerGoto(t, "loss_state", "loss_now")
  /\ state' = "Open"
  /\ UNCHANGED <<losses, openedAt, lossesLock, stampReaders, stamp>>

\* Below the threshold: Warning from half of it on, else state is left alone.
LossWarns(t) ==
  /\ losses < Threshold
  /\ BreakerGoto(t, "loss_state", "idle")
  /\ state' = IF losses >= Threshold \div 2 THEN "Warning" ELSE state
  /\ lossesLock' = NoThread
  /\ UNCHANGED <<losses, openedAt, stampReaders, stamp>>

\* Instant::now() on the right-hand side is evaluated before the write lock
\* of opened_at is asked for.
LossReadsClock(t) ==
  /\ BreakerGoto(t, "loss_now", "loss_stamp")
  /\ stamp' = [stamp EXCEPT ![t] = 0]
  /\ UNCHANGED <<shared>>

LossStamps(t) ==
  /\ stampReaders = {}
  /\ BreakerGoto(t, "loss_stamp", "idle")
  /\ openedAt' = stamp[t]
  /\ stamp' = [stamp EXCEPT ![t] = NoInstant]
  /\ lossesLock' = NoThread
  /\ UNCHANGED <<state, losses, stampReaders>>

(***************************************************************************)
(* record_win and reset                                                    *)
(***************************************************************************)

\* Mutant: record_win drops the losses guard after its first statement.
WinClearsLossesUnlocked(t) ==
  /\ lossesLock = NoThread
  /\ BreakerGoto(t, "idle", "win_state")
  /\ losses' = 0
  /\ UNCHANGED <<state, openedAt, lossesLock, stampReaders, stamp>>

WinClearsLosses(t) ==
  /\ lossesLock = NoThread
  /\ BreakerGoto(t, "idle", "win_state")
  /\ lossesLock' = t
  /\ losses' = 0
  /\ UNCHANGED <<state, openedAt, stampReaders, stamp>>

WinNormalises(t) ==
  /\ BreakerGoto(t, "win_state", "idle")
  /\ state' = "Normal"
  /\ lossesLock' = NoThread
  /\ UNCHANGED <<losses, openedAt, stampReaders, stamp>>

ResetNormalises(t) ==
  /\ BreakerGoto(t, "idle", "reset_losses")
  /\ state' = "Normal"
  /\ UNCHANGED <<losses, openedAt, lossesLock, stampReaders, stamp>>

ResetClearsLosses(t) ==
  /\ lossesLock = NoThread
  /\ BreakerGoto(t, "reset_losses", "reset_stamp")
  /\ losses' = 0
  /\ UNCHANGED <<state, openedAt, lossesLock, stampReaders, stamp>>

ResetClearsStamp(t) ==
  /\ stampReaders = {}
  /\ BreakerGoto(t, "reset_stamp", "idle")
  /\ openedAt' = NoInstant
  /\ UNCHANGED <<state, losses, lossesLock, stampReaders, stamp>>

(***************************************************************************)
(* Time, and the specification                                             *)
(***************************************************************************)

\* Mutant: ages that run past the pause, as an unbounded counter would.
OlderUnbounded(age) == IF age \in Nat /\ age <= Pause THEN age + 1 ELSE age

Older(age) == IF age \in Age /\ age < Pause THEN age + 1 ELSE age

BreakerTick ==
  /\ openedAt' = Older(openedAt)
  /\ stamp' = [t \in Traders |-> Older(stamp[t])]
  /\ UNCHANGED <<state, losses, lossesLock, stampReaders, pc>>

Check(t) ==
  \/ CheckAllows(t)
  \/ CheckReadsOpen(t)
  \/ CheckDenies(t)
  \/ CheckFindsPauseElapsed(t)
  \/ CheckHalfOpens(t)

RecordLoss(t) ==
  \/ LossCounts(t)
  \/ LossTrips(t)
  \/ LossWarns(t)
  \/ LossReadsClock(t)
  \/ LossStamps(t)

RecordWin(t) == WinClearsLosses(t) \/ WinNormalises(t)

Reset(t) == ResetNormalises(t) \/ ResetClearsLosses(t) \/ ResetClearsStamp(t)

BreakerNext ==
  \/ BreakerTick
  \/ \E t \in Traders : Check(t) \/ RecordLoss(t) \/ RecordWin(t) \/ Reset(t)

BreakerSpec == BreakerInit /\ [][BreakerNext]_breakerVars

\* A started call goes on to its end.  The steps that wait for a lock others
\* keep taking need strong fairness: parking_lot hands a lock over fairly from
\* time to time.  Traders keep asking the breaker, and time passes.
Fairness ==
  /\ WF_breakerVars(BreakerTick)
  /\ \A t \in Traders :
       /\ WF_breakerVars(Check(t) /\ (pc[t] # "idle" \/ state = "Open"))
       /\ WF_breakerVars(LossTrips(t) \/ LossWarns(t) \/ LossReadsClock(t))
       /\ WF_breakerVars(WinNormalises(t))
       /\ SF_breakerVars(LossStamps(t))
       /\ SF_breakerVars(ResetClearsLosses(t))
       /\ SF_breakerVars(ResetClearsStamp(t))

FairBreakerSpec == BreakerSpec /\ Fairness

(***************************************************************************)
(* Properties                                                              *)
(***************************************************************************)

\* Once Threshold losses are counted the breaker is not left in a state that
\* admits every trade: outside a running record_loss/record_win (which keep
\* the losses lock) and a half-done reset it is Open or HalfOpen, whatever
\* checks, wins and resets of other threads wrote in between.
TripHolds ==
  (losses >= Threshold /\ lossesLock = NoThread
      /\ \A t \in Traders : pc[t] # "reset_losses")
    => state \in {"Open", "HalfOpen"}

\* check half-opens the breaker only on a recorded trip whose pause has
\* elapsed: record_loss and reset cannot replace the time stamp between the
\* comparison and the write, since check keeps its read guard.
HalfOpenOnElapsedStamp ==
  [][state' = "HalfOpen" /\ state # "HalfOpen" => openedAt = Pause]_breakerVars

\* Every call returns: the three locks are never waited for in a circle.
CallsReturn ==
  \A t \in Traders : pc[t] # "idle" ~> pc[t] = "idle"

\* Once no more losses come in, a time stamp that is there ends the pause: the
\* breaker does not deny for ever, however the losses still under way, checks,
\* wins and resets interleave, as long as no reset takes the stamp away.  Each
\* loss past the threshold stamps opened_at anew (circuit_breaker.rs:72-74), so
\* losses that never stop may keep the breaker Open for ever: the premise is
\* needed.
StampedPauseEnds ==
  <>[][\A t \in Traders : ~LossCounts(t)]_breakerVars
    => ((state = "Open" /\ openedAt # NoInstant)
          ~> (state # "Open" \/ openedAt = NoInstant))
=============================================================================
