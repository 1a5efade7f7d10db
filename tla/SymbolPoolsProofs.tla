--------------------------- MODULE SymbolPoolsProofs ---------------------------
(***************************************************************************)
(* Theorems about SymbolPools, for any symbols, listings, batch size and   *)
(* numbers of threads.                                                     *)
(***************************************************************************)
EXTENDS SymbolPools, FiniteSetTheorems, TLAPS

\* Where a call about a symbol may stand, and whose call it is.
CallInv ==
  \A t \in Threads :
    pc[t] \in {"add_exclude", "add_unlist", "remove_exclude"} =>
      t \in Managers /\ of[t] \in Symbols

\* A select works on a copy: what it is about to set and has become excluded since
\* is remembered in raced.
CopyInv ==
  \A t \in Threads : pc[t] = "select_set" => chosen[t] \cap excluded \subseteq raced

\* Not only active symbols are out: every excluded one is.
ExcludedOut ==
  \A s \in (all \cap excluded) \ raced :
    \E t \in Managers : pc[t] = "add_unlist" /\ of[t] = s

\* An active symbol is excluded, or about to be by its add, unless it is contested; so
\* is every symbol that became active behind a remove_active under way.
ActiveExcluded ==
  /\ \A s \in active \ contested :
       s \in excluded \/ \E t \in Managers : pc[t] = "add_exclude" /\ of[t] = s
  /\ \A t \in Managers : pc[t] = "remove_exclude" /\ of[t] \in active => of[t] \in contested

IInv == TypeOK /\ CallInv /\ CopyInv /\ ExcludedOut /\ ActiveExcluded

USE SymbolsAssumption, ThreadsAssumption, ListsAssumption, SizesAssumption

LEMMA CommonSymbols ==
  ASSUME binance \in SUBSET Lists, lbank \in SUBSET Lists
  PROVE  Filtered \subseteq Symbols
BY DEF Filtered, Common

\* A set of symbols is counted by a number up to that of all symbols.
LEMMA CountBound ==
  ASSUME NEW S, S \subseteq Symbols
  PROVE  Cardinality(S) \in Nat /\ Cardinality(S) <= Cardinality(Symbols)
         /\ Cardinality(Symbols) \in Nat
<1>1. IsFiniteSet(S) /\ Cardinality(S) <= Cardinality(Symbols)
  BY FS_Subset
<1>2. Cardinality(S) \in Nat /\ Cardinality(Symbols) \in Nat
  BY <1>1, FS_CardinalityType
<1> QED
  BY <1>1, <1>2

LEMMA InitIInv == Init => IInv
<1> SUFFICES ASSUME Init PROVE IInv
  OBVIOUS
<1>1. Cardinality(Symbols) \in Nat
  BY CountBound
<1>2. TypeOK
  BY <1>1 DEF Init, TypeOK, Places
<1>3. CallInv /\ CopyInv /\ ExcludedOut /\ ActiveExcluded
  BY DEF Init, CallInv, CopyInv, ExcludedOut, ActiveExcluded
<1> QED
  BY <1>2, <1>3 DEF IInv

LEMMA StepTypeOK == TypeOK /\ CallInv /\ [Next]_vars => TypeOK'
<1> SUFFICES ASSUME TypeOK, CallInv, [Next]_vars PROVE TypeOK'
  OBVIOUS
<1> USE DEF TypeOK, Places, listings, pools, rotation, history
<1>1. ASSUME NEW t \in Threads, ManagerStep(t) PROVE TypeOK'
  <2>1. ASSUME NEW s \in Symbols, AddActive(t, s) PROVE TypeOK'
    BY <2>1 DEF AddActive, Begin, Goto
  <2>2. ASSUME NEW s \in Symbols, RemoveActive(t, s) PROVE TypeOK'
    BY <2>2 DEF RemoveActive, Begin, Goto
  <2>3. CASE AddExclude(t)
    <3>1. of[t] \in Symbols
      BY <2>3 DEF AddExclude, Goto, CallInv
    <3> QED
      BY <2>3, <3>1 DEF AddExclude, Goto
  <2>4. CASE AddUnlist(t)
    BY <2>4 DEF AddUnlist, Return, Goto
  <2>5. CASE RemoveExclude(t)
    BY <2>5 DEF RemoveExclude, Return, Goto
  <2> QED
    BY <1>1, <2>1, <2>2, <2>3, <2>4, <2>5 DEF ManagerStep
<1>2. ASSUME NEW t \in Threads, SelectStep(t) PROVE TypeOK'
  <2>1. CASE UpdateListings(t)
    BY <2>1 DEF UpdateListings
  <2>2. CASE SelectCopies(t)
    <3>1. Filtered \ excluded \in SUBSET Symbols
      BY CommonSymbols
    <3> QED
      BY <2>2, <3>1 DEF SelectCopies, Goto
  <2>3. CASE SelectSets(t)
    <3>1. chosen[t] \subseteq Symbols /\ chosen' \in [Threads -> SUBSET Symbols]
      BY <2>3 DEF SelectSets
    <3>2. raced' \subseteq Symbols
      BY <2>3 DEF SelectSets
    <3> QED
      BY <2>3, <3>1, <3>2 DEF SelectSets, Goto
  <2> QED
    BY <1>2, <2>1, <2>2, <2>3 DEF SelectStep
<1>3. ASSUME NEW t \in Threads, TryRotate(t) PROVE TypeOK'
  BY <1>3 DEF TryRotate, Goto
<1>4. ASSUME NEW t \in Threads, Rotate(t) PROVE TypeOK'
  <2>1. Cardinality(all) \in Nat /\ Cardinality(all) <= Cardinality(Symbols)
        /\ Cardinality(Symbols) \in Nat
    BY CountBound
  <2>2. batch' \subseteq Symbols
    BY <1>4 DEF Rotate
  <2>3. position' \in 0..Cardinality(Symbols)
    BY <1>4, <2>1 DEF Rotate, Least
  <2>4. age' \in 0..Interval /\ pc' \in [Threads -> Places]
    BY <1>4 DEF Rotate, Goto
  <2> QED
    BY <1>4, <2>2, <2>3, <2>4 DEF Rotate
<1>5. CASE Tick
  BY <1>5 DEF Tick, Older
<1>6. CASE UNCHANGED vars
  BY <1>6 DEF vars
<1> QED
  BY <1>1, <1>2, <1>3, <1>4, <1>5, <1>6 DEF Next, RotateStep

LEMMA StepCallInv == TypeOK /\ CallInv /\ [Next]_vars => CallInv'
<1> SUFFICES ASSUME TypeOK, CallInv, [Next]_vars PROVE CallInv'
  OBVIOUS
<1> USE DEF TypeOK, CallInv
<1>1. ASSUME NEW t \in Threads, ManagerStep(t) PROVE CallInv'
  BY <1>1 DEF ManagerStep, AddActive, RemoveActive, AddExclude, AddUnlist, RemoveExclude,
              Begin, Return, Goto
<1>2. ASSUME NEW t \in Threads, SelectStep(t) PROVE CallInv'
  BY <1>2 DEF SelectStep, UpdateListings, SelectCopies, SelectSets, Goto
<1>3. ASSUME NEW t \in Threads, RotateStep(t) PROVE CallInv'
  BY <1>3 DEF RotateStep, TryRotate, Rotate, Goto
<1>4. CASE Tick \/ UNCHANGED vars
  BY <1>4 DEF Tick, vars
<1> QED
  BY <1>1, <1>2, <1>3, <1>4 DEF Next

\* What the steps of the managers do to the copies of the selects under way.
LEMMA StepCopyInv == TypeOK /\ CopyInv /\ [Next]_vars => CopyInv'
<1> SUFFICES ASSUME TypeOK, CopyInv, [Next]_vars,
                    NEW u \in Threads, pc'[u] = "select_set"
             PROVE  chosen'[u] \cap excluded' \subseteq raced'
  BY DEF CopyInv
<1> USE DEF TypeOK, CopyInv, history
<1>1. ASSUME NEW t \in Threads, ManagerStep(t)
      PROVE  chosen'[u] \cap excluded' \subseteq raced'
  <2>1. pc[u] = "select_set" /\ chosen' = chosen
    BY <1>1 DEF ManagerStep, AddActive, RemoveActive, AddExclude, AddUnlist, RemoveExclude,
                Begin, Return, Goto
  <2>2. CASE AddExclude(t)
    BY <2>1, <2>2 DEF AddExclude, Selecting
  <2>3. CASE ~AddExclude(t)
    BY <1>1, <2>1, <2>3 DEF ManagerStep, AddActive, RemoveActive, AddUnlist, RemoveExclude, pools
  <2> QED
    BY <2>2, <2>3
<1>2. ASSUME NEW t \in Threads, SelectStep(t)
      PROVE  chosen'[u] \cap excluded' \subseteq raced'
  <2>1. CASE UpdateListings(t)
    BY <2>1 DEF UpdateListings, pools
  <2>2. CASE SelectCopies(t)
    <3>1. CASE u = t
      BY <2>2, <3>1 DEF SelectCopies, pools
    <3>2. CASE u # t
      BY <2>2, <3>2 DEF SelectCopies, Goto, pools
    <3> QED
      BY <3>1, <3>2
  <2>3. CASE SelectSets(t)
    <3>1. u # t /\ pc[u] = "select_set"
      BY <2>3 DEF SelectSets, Goto
    <3> QED
      BY <2>3, <3>1 DEF SelectSets, pools
  <2> QED
    BY <1>2, <2>1, <2>2, <2>3 DEF SelectStep
<1>3. ASSUME NEW t \in Threads, RotateStep(t)
      PROVE  chosen'[u] \cap excluded' \subseteq raced'
  BY <1>3 DEF RotateStep, TryRotate, Rotate, Goto, pools
<1>4. CASE Tick \/ UNCHANGED vars
  BY <1>4 DEF Tick, vars, pools
<1> QED
  BY <1>1, <1>2, <1>3, <1>4 DEF Next

LEMMA StepExcludedOut == IInv /\ [Next]_vars => ExcludedOut'
<1> SUFFICES ASSUME IInv, [Next]_vars,
                    NEW s \in (all' \cap excluded') \ raced'
             PROVE  \E t \in Managers : pc'[t] = "add_unlist" /\ of'[t] = s
  BY DEF ExcludedOut
<1> DEFINE Unlisting(u) == pc[u] = "add_unlist" /\ of[u] = s
           Goal == \E t \in Managers : pc'[t] = "add_unlist" /\ of'[t] = s
<1> USE DEF IInv, TypeOK, Threads, history
\* A witness of before stays one through every step but its own.
<1>1. ASSUME NEW t \in Threads, ManagerStep(t) PROVE Goal
  <2>1. CASE AddExclude(t)
    <3>1. t \in Managers /\ pc'[t] = "add_unlist" /\ of'[t] = of[t]
      BY <2>1 DEF AddExclude, Goto, CallInv
    <3>2. CASE s # of[t]
      <4>1. PICK u \in Managers : Unlisting(u)
        BY <2>1, <3>2 DEF AddExclude, ExcludedOut
      <4>2. u # t
        BY <2>1, <4>1 DEF AddExclude, Goto
      <4> QED
        BY <2>1, <4>1, <4>2 DEF AddExclude, Goto
    <3> QED
      BY <3>1, <3>2
  <2>2. CASE AddUnlist(t)
    <3>1. PICK u \in Managers : Unlisting(u)
      BY <2>2 DEF AddUnlist, ExcludedOut, pools
    <3>2. u # t
      BY <2>2, <3>1 DEF AddUnlist
    <3> QED
      BY <2>2, <3>1, <3>2 DEF AddUnlist, Return, Goto
  <2>3. ASSUME NEW r \in Symbols, AddActive(t, r) \/ RemoveActive(t, r) PROVE Goal
    <3>1. PICK u \in Managers : Unlisting(u)
      BY <2>3 DEF AddActive, RemoveActive, ExcludedOut
    <3>2. u # t
      BY <2>3, <3>1 DEF AddActive, RemoveActive, Begin, Goto
    <3> QED
      BY <2>3, <3>1, <3>2 DEF AddActive, RemoveActive, Begin, Goto
  <2>4. CASE RemoveExclude(t)
    <3>1. PICK u \in Managers : Unlisting(u)
      BY <2>4 DEF RemoveExclude, ExcludedOut
    <3>2. u # t
      BY <2>4, <3>1 DEF RemoveExclude, Return, Goto
    <3> QED
      BY <2>4, <3>1, <3>2 DEF RemoveExclude, Return, Goto
  <2> QED
    BY <1>1, <2>1, <2>2, <2>3, <2>4 DEF ManagerStep
<1>2. ASSUME NEW t \in Threads, SelectSets(t) PROVE Goal
  \* The list that is set holds no excluded symbol but those of raced.
  BY <1>2 DEF SelectSets, Goto, CopyInv, pools
<1>3. ASSUME NEW t \in Threads, UpdateListings(t) \/ SelectCopies(t) \/ RotateStep(t) PROVE Goal
  <2>1. PICK u \in Managers : Unlisting(u)
    BY <1>3 DEF UpdateListings, SelectCopies, RotateStep, TryRotate, Rotate, ExcludedOut, pools
  <2> QED
    BY <1>3, <2>1 DEF UpdateListings, SelectCopies, RotateStep, TryRotate, Rotate, Goto
<1>4. CASE Tick \/ UNCHANGED vars
  BY <1>4 DEF Tick, vars, pools, ExcludedOut
<1> QED
  BY <1>1, <1>2, <1>3, <1>4 DEF Next, SelectStep

LEMMA StepActiveExcluded == IInv /\ [Next]_vars => ActiveExcluded'
<1> SUFFICES ASSUME IInv, [Next]_vars PROVE ActiveExcluded'
  OBVIOUS
<1> USE DEF IInv, TypeOK, Threads, pools, history
<1>1. ASSUME NEW t \in Threads, NEW s \in Symbols, AddActive(t, s) PROVE ActiveExcluded'
  <2>1. /\ t \in Managers /\ pc[t] = "idle" /\ pc' = [pc EXCEPT ![t] = "add_exclude"]
        /\ of' = [of EXCEPT ![t] = s] /\ active' = active \cup {s} /\ excluded' = excluded
        /\ contested' = IF Removing(s) THEN contested \cup {s} ELSE contested \ {s}
    BY <1>1 DEF AddActive, Begin, Goto
  <2>2. ASSUME NEW r \in active' \ contested'
        PROVE  r \in excluded' \/ \E u \in Managers : pc'[u] = "add_exclude" /\ of'[u] = r
    <3>1. CASE r = s
      BY <2>1, <3>1
    <3>2. CASE r # s
      BY <2>1, <2>2, <3>2 DEF ActiveExcluded
    <3> QED
      BY <3>1, <3>2
  <2>3. ASSUME NEW u \in Managers, pc'[u] = "remove_exclude", of'[u] \in active'
        PROVE  of'[u] \in contested'
    <3>1. pc[u] = "remove_exclude" /\ of'[u] = of[u]
      BY <2>1, <2>3
    <3> QED
      BY <2>1, <2>3, <3>1 DEF ActiveExcluded, Removing
  <2> QED
    BY <2>2, <2>3 DEF ActiveExcluded
<1>2. ASSUME NEW t \in Threads, NEW s \in Symbols, RemoveActive(t, s) PROVE ActiveExcluded'
  BY <1>2 DEF RemoveActive, Begin, Goto, ActiveExcluded
<1>3. ASSUME NEW t \in Threads, AddExclude(t) PROVE ActiveExcluded'
  BY <1>3 DEF AddExclude, Goto, ActiveExcluded
<1>4. ASSUME NEW t \in Threads, AddUnlist(t) PROVE ActiveExcluded'
  BY <1>4 DEF AddUnlist, Return, Goto, ActiveExcluded
\* What a remove_active takes from the exclusions is not active, or contested.
<1>5. ASSUME NEW t \in Threads, RemoveExclude(t) PROVE ActiveExcluded'
  <2>1. t \in Managers
    BY <1>5 DEF RemoveExclude, Return, Goto, CallInv
  <2> QED
    BY <1>5, <2>1 DEF RemoveExclude, Return, Goto, ActiveExcluded
<1>6. ASSUME NEW t \in Threads, SelectStep(t) \/ RotateStep(t) PROVE ActiveExcluded'
  <2>1. /\ active' = active /\ excluded' = excluded /\ of' = of /\ contested' = contested
        /\ \A u \in Managers : pc[u] = "add_exclude" => pc'[u] = "add_exclude"
        /\ \A u \in Managers : pc'[u] = "remove_exclude" => pc[u] = "remove_exclude"
    <3>1. CASE SelectStep(t)
      BY <3>1 DEF SelectStep, UpdateListings, SelectCopies, SelectSets, Goto
    <3>2. CASE TryRotate(t)
      BY <3>2 DEF TryRotate, Goto
    <3>3. CASE Rotate(t)
      BY <3>3 DEF Rotate, Goto
    <3> QED
      BY <1>6, <3>1, <3>2, <3>3 DEF RotateStep
  <2> QED
    BY <2>1 DEF ActiveExcluded
<1>7. CASE Tick \/ UNCHANGED vars
  BY <1>7 DEF Tick, vars, ActiveExcluded
<1> QED
  BY <1>1, <1>2, <1>3, <1>4, <1>5, <1>6, <1>7 DEF Next, ManagerStep

LEMMA Invariance == Spec => []IInv
<1>1. Init => IInv
  BY InitIInv
<1>2. IInv /\ [Next]_vars => IInv'
  BY StepTypeOK, StepCallInv, StepCopyInv, StepExcludedOut, StepActiveExcluded DEF IInv
<1> QED
  BY <1>1, <1>2, PTL DEF Spec

\* pool.rs and selector.rs: in every state the variables are of their types; above
\* all the position of the rotation never leaves 0..(number of symbols), however
\* the list shrinks below it.
THEOREM TypeCorrect == Spec => []TypeOK
<1>1. IInv => TypeOK
  BY DEF IInv
<1> QED
  BY <1>1, Invariance, PTL

\* PoolManager::add_active against SymbolSelector::select, each cut at its locks,
\* with any number of threads of both kinds: a symbol is active and in the rotation
\* only while its add_active is under way, through a select that was under way when it
\* was excluded, or when its add_active began while a remove_active of it was under way.
THEOREM RotationLeavesActiveOutCorrect == Spec => []RotationLeavesActiveOut
<1>1. IInv => RotationLeavesActiveOut
  BY DEF IInv, ExcludedOut, ActiveExcluded, RotationLeavesActiveOut
<1> QED
  BY <1>1, Invariance, PTL
================================================================================
