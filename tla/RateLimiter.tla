----------------------------- MODULE RateLimiter -----------------------------
(***************************************************************************)
(* crates/symbol-selector/src/funnel.rs, RateLimiter: requests counted per *)
(* second, shared by callers of acquire_batch and by a quality refresh     *)
(* (runner.rs), which asks can_request, sleeps once if told no, sends its  *)
(* request either way and records it.                                      *)
(*                                                                         *)
(* Every operation reads the clock first and then waits for the lock, so a *)
(* caller may count, purge and stamp with a second that is over.  Only the *)
(* sum of a second's entries matters to any operation: window_counts is a  *)
(* function from seconds here.                                             *)
(***************************************************************************)
EXTENDS Integers, FiniteSets, FiniteSetsExt

CONSTANTS
  MaxRequests, \* max_requests per second
  Callers,     \* callers of acquire_batch
  Refreshers,  \* tasks that check, request and record
  Batches,     \* batch sizes asked for
  LastSecond   \* bound on the clock

ASSUME LimitAssumption == MaxRequests \in Nat /\ LastSecond \in Nat
ASSUME CallersAssumption == Callers \cap Refreshers = {}
ASSUME BatchesAssumption == Batches \subseteq Nat

Threads == Callers \cup Refreshers
Seconds == 0..LastSecond

VARIABLES
  clock,   \* Utc::now().timestamp()
  counts,  \* window_counts
  at,      \* where each thread is in its call
  now,     \* the second a call read before it asked for the lock
  want,    \* the batch asked for
  timely   \* history: permits granted in this second to calls begun in it

locals == <<at, now, want>>
limiterVars == <<clock, counts, locals, timely>>

LimiterTypeOK ==
  /\ clock \in Seconds
  /\ counts \in [Seconds -> Nat]
  /\ at \in [Threads -> {"idle", "acquire", "check", "request", "record"}]
  /\ now \in [Threads -> Seconds]
  /\ want \in [Threads -> Batches \cup {0}]
  /\ timely \in Nat

LimiterInit ==
  /\ clock = 0
  /\ counts = [t \in Seconds |-> 0]
  /\ at = [c \in Threads |-> "idle"]
  /\ now = [c \in Threads |-> 0]
  /\ want = [c \in Threads |-> 0]
  /\ timely = 0

\* The requests of a window, one by one.
Requests(window) == UNION {{t} \X (1..window[t]) : t \in Seconds}

Total(window) == Cardinality(Requests(window))

\* Mutant: the window ends before the second it is asked in.
RecentTooShort(s) == [t \in Seconds |-> IF t > s THEN counts[t] ELSE 0]

\* What the retain of an operation that read second s leaves.
Recent(s) == [t \in Seconds |-> IF t > s - 1 THEN counts[t] ELSE 0]

Available(window) == IF Total(window) < MaxRequests THEN MaxRequests - Total(window) ELSE 0

\* The clock is read before the lock is asked for.
Call(c, to, n) ==
  /\ at' = [at EXCEPT ![c] = to]
  /\ now' = [now EXCEPT ![c] = clock]
  /\ want' = [want EXCEPT ![c] = n]
  /\ UNCHANGED <<clock, counts, timely>>

Return(c, to) ==
  /\ at' = [at EXCEPT ![c] = to]
  /\ now' = [now EXCEPT ![c] = 0]
  /\ want' = [want EXCEPT ![c] = 0]

BeginAcquire(c) == at[c] = "idle" /\ \E n \in Batches : Call(c, "acquire", n)

\* acquire_batch under its lock.
Acquire(c) ==
  LET granted == Min({Available(Recent(now[c])), want[c]})
  IN /\ at[c] = "acquire"
     /\ counts' = [Recent(now[c]) EXCEPT ![now[c]] = @ + granted]
     /\ timely' = IF now[c] = clock THEN timely + granted ELSE timely
     /\ Return(c, "idle")
     /\ UNCHANGED clock

BeginCheck(c) == at[c] = "idle" /\ Call(c, "check", 0)

\* can_request: a refusal costs the refresh a sleep, after which it goes on.
Check(c) ==
  /\ at[c] = "check"
  /\ counts' = Recent(now[c])
  /\ Return(c, "request")
  /\ UNCHANGED <<clock, timely>>

\* The provider has answered; record reads the clock anew.
BeginRecord(c) == at[c] = "request" /\ Call(c, "record", 0)

\* record has no limit.
Record(c) ==
  /\ at[c] = "record"
  /\ counts[now[c]] <= MaxRequests  \* bound
  /\ counts' = [Recent(now[c]) EXCEPT ![now[c]] = @ + 1]
  /\ Return(c, "idle")
  /\ UNCHANGED <<clock, timely>>

Tick ==
  /\ clock < LastSecond
  /\ clock' = clock + 1
  /\ timely' = 0
  /\ UNCHANGED <<counts, locals>>

LimiterNext ==
  \/ \E c \in Callers : BeginAcquire(c) \/ Acquire(c)
  \/ \E c \in Refreshers : BeginCheck(c) \/ Check(c) \/ BeginRecord(c) \/ Record(c)
  \/ Tick

LimiterSpec == LimiterInit /\ [][LimiterNext]_limiterVars

(***************************************************************************)
(* Properties                                                              *)
(***************************************************************************)

\* The permits of a second that go to calls begun in it keep to the limit,
\* whatever calls of earlier seconds count and purge meanwhile.
TimelyPermitsFit == timely <= MaxRequests

=============================================================================
