----------------------------- MODULE SymbolFunnel -----------------------------
(***************************************************************************)
(* crates/symbol-selector, funnel.rs and runner.rs: the three pools and the *)
(* tasks of FunnelRunner that refresh them, with the live trader           *)
(* (apps/live-trader/src/main.rs), which fills the pools once and then     *)
(* selects a target every second beside whatever tasks run.                *)
(*                                                                         *)
(* A pool has a lock per field, so a selection is cut at its locks: the    *)
(* quality data is read, the target written, then the alternatives, and    *)
(* the data read again for the event.  A selector is a task or the trader. *)
(* A quality is its symbol and a score: 0 when the symbol fails the        *)
(* filter (depth, volatility, least spread), its spread otherwise.  The    *)
(* sequence `quality` is the map in its iteration order, which no other    *)
(* choice depends on.  Time is not modelled: a ticker or the loop's sleep  *)
(* may fire whenever its task waits, and can_request only adds a delay     *)
(* to a refresh (see RateLimiter).  The events of the first two levels and *)
(* the statistics are read by nobody and left out.                         *)
(*                                                                         *)
(* Before it trades a symbol the trader sets the symbol's leverage at      *)
(* LBank (exchange-adapter-lbank/src/client.rs): it asks for the limits,   *)
(* then sends the lesser of them and what it wants.  The exchange, which   *)
(* keeps a leverage for each symbol, is external.                          *)
(***************************************************************************)
EXTENDS Naturals, Sequences, FiniteSets, FiniteSetsExt

CONSTANTS
  Symbols, None,
  Scores,        \* scores each symbol may have
  ChunkSize,     \* symbols per request of the quality refresh
  Trader, Tasks, \* the live trader's loop; running start_target_selection
  Listings,      \* lists of symbols the two exchanges may return
  Requested,     \* config.capital.leverage
  MaxLeverages,  \* exchange: the highest leverage of each symbol, long and short
  FirstLeverages \* exchange: the leverages before the trader runs

ASSUME SymbolsAssumption == IsFiniteSet(Symbols) /\ None \notin Symbols
ASSUME SizesAssumption == Scores \in [Symbols -> SUBSET Nat] /\ ChunkSize \in Nat \ {0}
ASSUME TasksAssumption == Trader \notin Tasks
ASSUME ListingsAssumption == Listings \subseteq SUBSET Symbols

SideLeverage == [long : Nat, short : Nat]

ASSUME LeverageAssumption ==
  Requested \in Nat /\ {MaxLeverages, FirstLeverages} \subseteq [Symbols -> SideLeverage]

Selectors == Tasks \cup {Trader}

VARIABLES
  intersection,  \* IntersectionPool.symbols
  quality,       \* QualityPool.data
  current,       \* TargetPool.current
  alternatives,  \* TargetPool.alternatives
  told,          \* target of the last TargetSelected or TargetCleared sent
  todo,          \* symbols the running quality refresh has still to check
  pc,            \* where each selector is
  best, others,  \* the outcome of the running selection
  booting,       \* the trader has not entered its loop
  trading,       \* TradingState.current_symbol
  leverage,      \* exchange: the leverage of each symbol
  stale          \* history: the quality data changed since the selector read it

pools == <<intersection, quality, current, alternatives>>
selection == <<pc, best, others>>
trader == <<booting, trading, leverage>>
vars == <<pools, told, todo, selection, trader, stale>>

Places == {"listing", "scoring", "wait", "target", "alternatives", "tell",
           "leverage", "set_leverage", "leveraged", "set", "exited"}

\* QualityCalculator::calculate
Calculate(s, score) == [symbol |-> s, score |-> score]

QualitiesOf(S) == UNION {{Calculate(s, score) : score \in Scores[s]} : s \in S}

\* What QualityPool.data may hold: one entry per symbol, in any order.
PoolsOf(S) ==
  {q \in UNION {[1..n -> QualitiesOf(S)] : n \in 0..Cardinality(S)} :
     \A i, j \in DOMAIN q : q[i].symbol = q[j].symbol => i = j}

\* get_qualified: the places of the entries that pass, in the iteration order.
Qualified(q) == {i \in DOMAIN q : q[i].score > 0}

\* sort_by is stable: among equal spreads the iteration order decides.
Before(q, i, j) == q[i].score > q[j].score \/ (q[i].score = q[j].score /\ i < j)

Rank(q, k) == Cardinality({i \in Qualified(q) : Before(q, i, k)})

Ranking(q) ==
  [n \in 1..Cardinality(Qualified(q)) |->
     q[CHOOSE k \in Qualified(q) : Rank(q, k) = n - 1].symbol]

BestOf(q) == IF Ranking(q) = <<>> THEN None ELSE Ranking(q)[1]

AlternativesOf(q) == SubSeq(Ranking(q), 2, Min({6, Len(Ranking(q))}))

TypeOK ==
  /\ intersection \subseteq Symbols
  /\ quality \in Seq(QualitiesOf(Symbols))
  /\ {current, told, trading} \subseteq Symbols \cup {None}
  /\ alternatives \in Seq(Symbols) /\ Len(alternatives) < Max({1, Cardinality(Symbols)})
  /\ todo \subseteq Symbols
  /\ pc \in [Selectors -> Places]
  /\ best \in [Selectors -> Symbols \cup {None}]
  /\ others \in [Selectors -> Seq(Symbols)]
  /\ booting \in BOOLEAN
  /\ leverage \in [Symbols -> SideLeverage]
  /\ stale \in [Selectors -> BOOLEAN]

Init ==
  /\ intersection = {} /\ quality = <<>>
  /\ current = None /\ alternatives = <<>> /\ told = None
  /\ todo = {}
  /\ pc = [p \in Selectors |-> IF p = Trader THEN "listing" ELSE "wait"]
  /\ best = [p \in Selectors |-> None]
  /\ others = [p \in Selectors |-> <<>>]
  /\ booting = TRUE /\ trading = None
  /\ leverage = FirstLeverages
  /\ stale = [p \in Selectors |-> TRUE]

Goto(p, to) == pc' = [pc EXCEPT ![p] = to] /\ UNCHANGED <<best, others>>

(***************************************************************************)
(* The pools                                                               *)
(***************************************************************************)

\* What the exchanges list, Binance first.
FetchAllSymbols == Listings \X Listings

Intersections == {lists[1] \cap lists[2] : lists \in FetchAllSymbols}

\* IntersectionPool::update; its second lock only guards a time stamp.
UpdateIntersection ==
  \E common \in Intersections : intersection' = common

\* Mutant: QualityPool::update adds to what is there.
UpdateQualityKeepsOld(q) ==
  LET new == {q[i].symbol : i \in DOMAIN q}
  IN /\ quality' = SelectSeq(quality, LAMBDA e : e.symbol \notin new) \o q
     /\ stale' = [p \in Selectors |-> TRUE]

\* QualityPool::update: what was there is gone.
UpdateQuality(q) ==
  /\ quality' = q
  /\ stale' = [p \in Selectors |-> TRUE]

(***************************************************************************)
(* start_intersection_refresh and start_quality_refresh                    *)
(***************************************************************************)

RefreshIntersection ==
  /\ UpdateIntersection
  /\ UNCHANGED <<quality, current, alternatives, told, todo, selection, trader, stale>>

\* The tick: the symbols are read once for the whole refresh, and an empty
\* intersection leaves the quality data as it is.
BeginQualityRefresh ==
  /\ todo = {} /\ intersection # {}
  /\ todo' = intersection
  /\ UNCHANGED <<pools, told, selection, trader, stale>>

\* One chunk: the provider's answer replaces the data of the chunk before.
RefreshChunk ==
  /\ todo # {}
  /\ \E chunk \in kSubset(Min({ChunkSize, Cardinality(todo)}), todo) :
       /\ \E q \in PoolsOf(chunk) : UpdateQuality(q)
       /\ todo' = todo \ chunk
  /\ UNCHANGED <<intersection, current, alternatives, told, selection, trader>>

(***************************************************************************)
(* FunnelRunner::select_target                                             *)
(***************************************************************************)

\* get_qualified: from here on the selector works on what it read.
Select(p) ==
  /\ pc[p] = "wait"
  /\ pc' = [pc EXCEPT ![p] = "target"]
  /\ best' = [best EXCEPT ![p] = BestOf(quality)]
  /\ others' = [others EXCEPT ![p] = AlternativesOf(quality)]
  /\ stale' = [stale EXCEPT ![p] = FALSE]
  /\ UNCHANGED <<pools, told, todo, trader>>

\* Mutant: nothing qualifies and the old target stays.
WriteTargetIfAny(p) ==
  /\ pc[p] = "target"
  /\ current' = IF best[p] = None THEN current ELSE best[p]
  /\ Goto(p, "alternatives")
  /\ UNCHANGED <<intersection, quality, alternatives, told, todo, trader, stale>>

WriteTarget(p) ==
  /\ pc[p] = "target"
  /\ current' = best[p]
  /\ Goto(p, "alternatives")
  /\ UNCHANGED <<intersection, quality, alternatives, told, todo, trader, stale>>

WriteAlternatives(p) ==
  /\ pc[p] = "alternatives"
  /\ alternatives' = others[p]
  /\ others' = [others EXCEPT ![p] = <<>>]
  /\ pc' = [pc EXCEPT ![p] = "tell"] /\ UNCHANGED best
  /\ UNCHANGED <<intersection, quality, current, told, todo, trader, stale>>

\* Before its loop main needs a symbol and sets its leverage, or gives up.
AfterFirstSelection == IF best[Trader] = None THEN "exited" ELSE "leverage"

\* In its loop it compares the result with what it trades.
AfterLaterSelection ==
  IF best[Trader] = trading THEN "wait" ELSE IF best[Trader] = None THEN "set" ELSE "leverage"

\* A task waits for its tick.
AfterSelection(p) ==
  IF p # Trader THEN "wait" ELSE IF booting THEN AfterFirstSelection ELSE AfterLaterSelection

\* get_quality and the event: none when the symbol has left the data.
Tell(p) ==
  /\ pc[p] = "tell"
  /\ told' = IF \/ best[p] = None
                \/ \E i \in DOMAIN quality : quality[i].symbol = best[p]
             THEN best[p] ELSE told
  /\ IF AfterSelection(p) = "wait"
       THEN /\ pc' = [pc EXCEPT ![p] = "wait"]
            /\ best' = [best EXCEPT ![p] = None]
            /\ UNCHANGED others
       ELSE Goto(p, AfterSelection(p))
  /\ UNCHANGED <<pools, todo, trader, stale>>

(***************************************************************************)
(* The live trader                                                         *)
(***************************************************************************)

\* Step 1 of main: fetch_all_symbols, which for now returns two fixed lists.
BootListing ==
  /\ pc[Trader] = "listing"
  /\ UpdateIntersection
  /\ Goto(Trader, "scoring")
  /\ UNCHANGED <<quality, current, alternatives, told, todo, trader, stale>>

\* QualityCalculator::passes_filter
PassesFilter(e) == e.score > 0

\* collect_qualities keeps what passes the filter.  For now the code gives every
\* symbol the same depth, volatility and spread.
CollectQualities(symbols) ==
  {q \in PoolsOf(symbols) : \A i \in DOMAIN q : PassesFilter(q[i])}

\* Step 2; main does not wait for a tick before its first selection.
BootScoring ==
  /\ pc[Trader] = "scoring"
  /\ \E q \in CollectQualities(intersection) : UpdateQuality(q)
  /\ Goto(Trader, "wait")
  /\ UNCHANGED <<intersection, current, alternatives, told, todo, trader>>

(***************************************************************************)
(* LbankClient::init_leverage                                              *)
(***************************************************************************)

\* What SendQryLeverage tells of a symbol.
LeverageInfo(s) ==
  [longLeverage |-> leverage[s].long, shortLeverage |-> leverage[s].short,
   longMaxLeverage |-> MaxLeverages[s].long, shortMaxLeverage |-> MaxLeverages[s].short]

\* Mutant: the limit of the long side is taken for both.
ActualLeverageLong(info) == Min({Requested, info.longMaxLeverage})

ActualLeverage(info) == Min({Requested, info.longMaxLeverage, info.shortMaxLeverage})

\* The query is answered, or fails: lost, refused, or without readable data.
GetMaxLeverage ==
  /\ pc[Trader] = "leverage"
  /\ \E to \in {"set_leverage", "set"} : Goto(Trader, to)
  /\ UNCHANGED <<pools, told, todo, trader, stale>>

\* Either the exchange takes the leverage for both sides, and its answer comes
\* or is lost, or the request fails.  main logs a failure and goes on.
SetLeverage ==
  /\ pc[Trader] = "set_leverage"
  /\ LET actual == ActualLeverage(LeverageInfo(best[Trader]))
     IN \/ /\ leverage' = [leverage EXCEPT ![best[Trader]] = [long |-> actual, short |-> actual]]
           /\ \E to \in {"leveraged", "set"} : Goto(Trader, to)
        \/ leverage' = leverage /\ Goto(Trader, "set")
  /\ UNCHANGED <<pools, told, todo, booting, trading, stale>>

\* Mutant: only a symbol is taken over, not its absence.
SetTradingIfAny ==
  /\ pc[Trader] \in {"set", "leveraged"}
  /\ trading' = IF best[Trader] = None THEN trading ELSE best[Trader]
  /\ booting' = FALSE
  /\ pc' = [pc EXCEPT ![Trader] = "wait"]
  /\ best' = [best EXCEPT ![Trader] = None]
  /\ UNCHANGED <<pools, others, told, todo, leverage, stale>>

SetTrading ==
  /\ pc[Trader] \in {"set", "leveraged"}
  /\ trading' = best[Trader]
  /\ booting' = FALSE
  /\ pc' = [pc EXCEPT ![Trader] = "wait"]
  /\ best' = [best EXCEPT ![Trader] = None]
  /\ UNCHANGED <<pools, others, told, todo, leverage, stale>>

(***************************************************************************)
(* The specification                                                       *)
(***************************************************************************)

\* main has not returned: without a first target it does, and ends them all.
Running == pc[Trader] # "exited"

SelectorStep(p) == Select(p) \/ WriteTarget(p) \/ WriteAlternatives(p) \/ Tell(p)
TraderStep ==
  \/ SelectorStep(Trader) \/ BootListing \/ BootScoring
  \/ GetMaxLeverage \/ SetLeverage \/ SetTrading
QualityStep == BeginQualityRefresh \/ RefreshChunk

Next ==
  \/ TraderStep
  \/ \E p \in Tasks : Running /\ SelectorStep(p)
  \/ Running /\ QualityStep
  \/ Running /\ RefreshIntersection

Spec == Init /\ [][Next]_vars

\* The loop of the trader sleeps and goes on.  The tasks of FunnelRunner may be shut
\* down, or never be started: main starts none.
Fairness == WF_vars(TraderStep)

FairSpec == Spec /\ Fairness

(***************************************************************************)
(* Properties                                                              *)
(***************************************************************************)

\* Whatever the selectors' writes to the target pool did to each other, once
\* every selector has seen the present quality data and waits, the target,
\* the alternatives, the last event and the traded symbol all agree with it.
QuietPoolsAgree ==
  (\A p \in Selectors : pc[p] = "wait" /\ ~stale[p]) =>
    /\ current = BestOf(quality) /\ told = current /\ trading = current
    /\ alternatives = AlternativesOf(quality)

\* When the trader's log says that the leverage was set, both sides of the symbol
\* it is about to trade have a leverage the exchange allows, and the highest such
\* that was asked for.
LeverageAllowed ==
  (pc[Trader] = "leveraged") =>
    LET s == best[Trader]
    IN /\ leverage[s].long <= MaxLeverages[s].long /\ leverage[s].short <= MaxLeverages[s].short
       /\ leverage[s].long = leverage[s].short /\ leverage[s].long <= Requested
       /\ leverage[s].long \in {Requested, MaxLeverages[s].long, MaxLeverages[s].short}

\* A trader in its loop trades again and again what the quality data ranks
\* first, unless the data changes for ever.
TraderFollows ==
  \/ []<>(pc[Trader] = "exited" \/ trading = BestOf(quality))
  \/ []<><<quality' # quality>>_quality

\* Where somebody starts start_quality_refresh and it is not shut down, which main
\* does not do, a symbol that leaves the intersection for good stops being traded,
\* unless the intersection becomes empty.
DelistedSymbolLeaves ==
  \A s \in {t \in Symbols : \E listing \in Listings : t \notin listing} :
    /\ <>[](s \notin intersection /\ intersection # {})
    /\ []<><<QualityStep>>_vars
    => <>[](trading # s)
=============================================================================
