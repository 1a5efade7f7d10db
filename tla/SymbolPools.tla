------------------------------ MODULE SymbolPools ------------------------------
(***************************************************************************)
(* crates/symbol-selector: the pools of pool.rs (active, rotating, and the *)
(* PoolManager over both), SymbolSelector::select with what it reads       *)
(* (selector.rs), and the rotation task.                                   *)
(*                                                                         *)
(* Every field has a lock of its own, so a call is cut at its locks: pc is *)
(* where a thread is in its call.  select keeps the read locks of the two  *)
(* listings and the watchlist until it returns.  The list of the rotating  *)
(* pool is always sorted and free of duplicates: it is a set here, and a   *)
(* symbol's index is the number of smaller ones.  Events to subscribers    *)
(* and the order of priorities are left out.                               *)
(***************************************************************************)
EXTENDS Integers, FiniteSets

CONSTANTS
  Symbols,        \* symbols, numbered in their sorting order
  Managers,       \* threads that add and remove active symbols
  About,          \* bound: the symbols each of them adds and removes
  Selectors,      \* threads that update the listings and select
  Task,           \* the rotation task
  Lists,          \* listings an exchange may have
  Watchlists,     \* watchlists that may be set ({}: none)
  BatchSize,
  Interval        \* rotation_interval_secs, in ticks

ASSUME SymbolsAssumption == Symbols \subseteq Nat \ {0} /\ IsFiniteSet(Symbols)
ASSUME ThreadsAssumption == Task \notin Managers \cup Selectors
ASSUME AboutAssumption == About \in [Managers -> SUBSET Symbols]
ASSUME ListsAssumption == Lists \subseteq SUBSET Symbols /\ Watchlists \subseteq SUBSET Symbols
ASSUME SizesAssumption == BatchSize \in Nat \ {0} /\ Interval \in Nat

Threads == Managers \cup Selectors \cup {Task}

VARIABLES
  binance, lbank,  \* availability: {} for none, else {a listing}
  watchlist,
  active,    \* ActivePool.symbols
  excluded,  \* exclude_from_rotating
  all,       \* RotatingPool.all_symbols
  batch,     \* current_batch
  position,
  age,       \* time since last_rotation, up to Interval
  pc,        \* where each thread is
  of,        \* the symbol its call is about, 0 for none
  chosen,    \* the list a select is about to set
  raced,     \* history: symbols excluded while a select was under way
  contested  \* history: symbols whose last add_active began while a remove_active
             \* of the same symbol was under way

listings == <<binance, lbank, watchlist>>
pools == <<active, excluded>>
rotation == <<batch, position, age>>
history == <<raced, contested>>
vars == <<listings, pools, all, rotation, pc, of, chosen, history>>

Places == {"idle", "add_exclude", "add_unlist", "remove_exclude",
           "select_set", "rotate", "panicked"}

TypeOK ==
  /\ binance \in SUBSET Lists /\ lbank \in SUBSET Lists
  /\ watchlist \in SUBSET Symbols
  /\ active \subseteq Symbols /\ excluded \subseteq Symbols
  /\ all \subseteq Symbols /\ batch \subseteq Symbols
  /\ position \in 0..Cardinality(Symbols)
  /\ age \in 0..Interval
  /\ pc \in [Threads -> Places]
  /\ of \in [Threads -> Symbols \cup {0}]
  /\ chosen \in [Threads -> SUBSET Symbols]
  /\ raced \subseteq Symbols /\ contested \subseteq Symbols

Init ==
  /\ binance = {} /\ lbank = {}
  /\ watchlist \in Watchlists
  /\ active = {} /\ excluded = {} /\ all = {} /\ batch = {}
  /\ position = 0
  /\ age = Interval
  /\ pc = [t \in Threads |-> "idle"]
  /\ of = [t \in Threads |-> 0]
  /\ chosen = [t \in Threads |-> {}]
  /\ raced = {} /\ contested = {}

Goto(t, from, to) == pc[t] = from /\ pc' = [pc EXCEPT ![t] = to]

Selecting == \E t \in Threads : pc[t] = "select_set"

\* Thread t starts a call about symbol s, ending at `to` with its first lock.
Begin(t, s, to) ==
  /\ t \in Managers /\ s \in About[t]
  /\ Goto(t, "idle", to)
  /\ of' = [of EXCEPT ![t] = s]

(***************************************************************************)
(* add_active, remove_active                                               *)
(***************************************************************************)

Removing(s) == \E t \in Managers : pc[t] = "remove_exclude" /\ of[t] = s

AddActive(t, s) ==
  /\ Begin(t, s, "add_exclude")
  /\ active' = active \cup {s}
  /\ contested' = IF Removing(s) THEN contested \cup {s} ELSE contested \ {s}
  /\ UNCHANGED <<listings, excluded, all, rotation, chosen, raced>>

AddExclude(t) ==
  /\ Goto(t, "add_exclude", "add_unlist")
  /\ excluded' = excluded \cup {of[t]}
  /\ raced' = IF Selecting THEN raced \cup {of[t]} ELSE raced
  /\ UNCHANGED <<listings, active, all, rotation, of, chosen, contested>>

\* The last step of a call about a symbol.
Return(t, from) ==
  /\ Goto(t, from, "idle")
  /\ of' = [of EXCEPT ![t] = 0]

\* Mutant: add_active leaves the symbol in the rotation until the next select.
AddLeavesListed(t) ==
  /\ Return(t, "add_unlist")
  /\ UNCHANGED <<listings, pools, all, rotation, chosen, history>>

\* remove_symbol: the position stays where it is.
AddUnlist(t) ==
  /\ Return(t, "add_unlist")
  /\ all' = all \ {of[t]}
  /\ UNCHANGED <<listings, pools, rotation, chosen, history>>

RemoveActive(t, s) ==
  /\ Begin(t, s, "remove_exclude")
  /\ active' = active \ {s}
  /\ UNCHANGED <<listings, excluded, all, rotation, chosen, history>>

RemoveExclude(t) ==
  /\ Return(t, "remove_exclude")
  /\ excluded' = excluded \ {of[t]}
  /\ UNCHANGED <<listings, active, all, rotation, chosen, history>>

(***************************************************************************)
(* update_binance_symbols, update_lbank_symbols, update_watchlist, select  *)
(***************************************************************************)

UpdateListings(t) ==
  /\ t \in Selectors /\ pc[t] = "idle"
  /\ ~Selecting
  /\ \/ \E l \in Lists : binance' = {l} /\ UNCHANGED <<lbank, watchlist>>
     \/ \E l \in Lists : lbank' = {l} /\ UNCHANGED <<binance, watchlist>>
     \/ watchlist' \in Watchlists /\ UNCHANGED <<binance, lbank>>
  /\ UNCHANGED <<pools, all, rotation, pc, of, chosen, history>>

\* What both exchanges list, or the only one that is known; nothing without any.
Common == {s \in UNION (binance \cup lbank) : \A l \in binance \cup lbank : s \in l}

Filtered == IF watchlist = {} THEN Common ELSE Common \cap watchlist

\* The listings are read and stay locked, the exclusions are copied.
SelectCopies(t) ==
  /\ t \in Selectors
  /\ Goto(t, "idle", "select_set")
  /\ chosen' = [chosen EXCEPT ![t] = Filtered \ excluded]
  /\ UNCHANGED <<listings, pools, all, rotation, of, history>>

\* set_symbols: the list is replaced, the position stays where it is.  A symbol
\* added while no select was under way cannot be in the list, and one added by now
\* is out of the next.
SelectSets(t) ==
  /\ Goto(t, "select_set", "idle")
  /\ all' = chosen[t]
  /\ chosen' = [chosen EXCEPT ![t] = {}]
  /\ raced' = IF \E u \in Threads : u # t /\ pc[u] = "select_set" THEN raced
              ELSE raced \cap chosen[t]
  /\ UNCHANGED <<listings, pools, rotation, of, contested>>

(***************************************************************************)
(* try_rotate, start_rotation_task and time                                *)
(***************************************************************************)

\* should_rotate: only the task asks, at each of its ticks.
TryRotate(t) ==
  /\ t = Task
  /\ age = Interval
  /\ Goto(t, "idle", "rotate")
  /\ UNCHANGED <<listings, pools, all, rotation, of, chosen, history>>

Index(s) == Cardinality({r \in all : r < s})

Least(m, n) == IF m <= n THEN m ELSE n

\* Mutant: a list that has become shorter than the position leaves it there.
RotateKeepsPosition(t) ==
  /\ Goto(t, "rotate", "idle")
  /\ LET next == Least(position + BatchSize, Cardinality(all))
     IN IF position >= Cardinality(all) THEN UNCHANGED <<batch, position>>
        ELSE /\ batch' = {s \in all : position <= Index(s) /\ Index(s) < next}
             /\ position' = IF next >= Cardinality(all) THEN 0 ELSE next
  /\ age' = 0
  /\ UNCHANGED <<listings, pools, all, of, chosen, history>>

\* The next batch.  The list may have become shorter than the position: then
\* `end - start` overflows, which ends the thread in a build with checks and gives
\* an empty batch in one without.
Rotate(t) ==
  LET total == Cardinality(all)
      next == Least(position + BatchSize, total)
  IN /\ \/ /\ all = {} /\ Goto(t, "rotate", "idle")
           /\ UNCHANGED rotation
        \/ /\ all # {} /\ Goto(t, "rotate", "idle")
           /\ batch' = {s \in all : position <= Index(s) /\ Index(s) < next}
           /\ position' = IF next >= total THEN 0 ELSE next
           /\ age' = 0
        \/ /\ all # {} /\ position > total /\ Goto(t, "rotate", "panicked")
           /\ UNCHANGED rotation
     /\ UNCHANGED <<listings, pools, all, of, chosen, history>>

Older(n) == IF n < Interval THEN n + 1 ELSE n

Tick ==
  /\ age' = Older(age)
  /\ UNCHANGED <<listings, pools, all, batch, position, pc, of, chosen, history>>

(***************************************************************************)
(* The specification                                                       *)
(***************************************************************************)

ManagerStep(t) ==
  \/ \E s \in Symbols : AddActive(t, s) \/ RemoveActive(t, s)
  \/ AddExclude(t) \/ AddUnlist(t) \/ RemoveExclude(t)

SelectStep(t) == UpdateListings(t) \/ SelectCopies(t) \/ SelectSets(t)

RotateStep(t) == TryRotate(t) \/ Rotate(t)

Next ==
  \/ \E t \in Threads : ManagerStep(t) \/ SelectStep(t) \/ RotateStep(t)
  \/ Tick

Spec == Init /\ [][Next]_vars

\* The rotation task is polled, and time passes.
FairSpec ==
  /\ Spec
  /\ WF_vars(RotateStep(Task))
  /\ WF_vars(Tick)

(***************************************************************************)
(* Properties                                                              *)
(***************************************************************************)

\* An active symbol is out of the rotation once its add_active has returned, whatever
\* selects, rotations and calls of other threads follow, but in two cases: a select
\* that was under way when it was excluded puts it back until the next one (raced),
\* and a remove_active that was under way when the add began takes the exclusion away
\* again, for as long as the symbol stays active (contested).
RotationLeavesActiveOut ==
  \A s \in active \ (raced \cup contested) :
    s \in all =>
      \E t \in Managers : pc[t] \in {"add_exclude", "add_unlist"} /\ of[t] = s

\* Once the list has settled every symbol in it is scanned again and again, at
\* whatever position earlier changes of the list have left the rotation, unless
\* the task has ended by an overflow.
EverySymbolScanned ==
  <>[][all' = all]_vars =>
    \A s \in Symbols : []<>(s \in batch \/ s \notin all \/ pc[Task] = "panicked")
================================================================================
