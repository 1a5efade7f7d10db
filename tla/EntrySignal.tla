------------------------------ MODULE EntrySignal ------------------------------
(***************************************************************************)
(* crates/signal-engine on top of crates/orderbook: a feed keeps the       *)
(* leader's book by snapshots and diffs (BookFeed), another one replaces   *)
(* the follower's by answers of the REST interface (DepthQuery), and the   *)
(* owner of the SignalContext takes the spread of the two (calc_spread),   *)
(* runs the filter chain and makes the signal.                             *)
(*                                                                         *)
(* The books are shared, each behind a read-write lock; the context has    *)
(* one owner.  The live trader builds the context and the chain but does   *)
(* not run them yet, so what its owner calls, and when, is left open: it   *)
(* may also run the chain when calc_spread has just returned None and the  *)
(* snapshot is an old one.                                                 *)
(*                                                                         *)
(* State::Idle stands for every state but Cooldown.  The spread history    *)
(* and the filters the live trader does not use are left out.              *)
(***************************************************************************)
EXTENDS BookFeed, DepthQuery

CONSTANTS
  Answers,        \* answers of the follower's exchange to a query of its book
  EntryBps,       \* entry_threshold_bps of the context
  MinBps,         \* threshold of SpreadThresholdFilter
  MinDepth,       \* min_leader_depth_usd
  CooldownSecs

ASSUME AnswersAssumption == Answers \subseteq Answer
ASSUME BpsAssumption == {EntryBps, MinBps, MinDepth} \subseteq Nat /\ 0 < MinBps
ASSUME CooldownAssumption == CooldownSecs \in Nat

VARIABLES
  follower,  \* the other shared book
  reader,    \* where the owner is in calc_spread: which locks it holds
  tops,      \* the prices it has read
  snapshot,  \* spread_snapshot
  state, age,  \* SignalState.state, seconds since state_since
  signal     \* the last ArbitrageSignal made, until the next calc_spread

spread == <<reader, tops, snapshot>>
vars == <<feed, follower, spread, state, age, signal>>

Tops == [leaderBid : Nat, leaderAsk : Nat, followerBid : Nat, followerAsk : Nat]
Snapshot == [tops : Tops, bidDepth : Nat, askDepth : Nat]
Directions == {"Long", "Short", "None"}

TypeOK ==
  /\ truth \in [Slots -> Nat \X Nat]
  /\ Len(wire) <= MaxWire
  /\ \A book \in {leader, follower}, side \in Sides : book[side] \in Seq(Level)
  /\ reader \in {"out", "leader", "both"}
  /\ tops \in Tops \cup {None}
  /\ snapshot \in Snapshot \cup {None}
  /\ state \in {"Idle", "Cooldown"} /\ age \in 0..CooldownSecs
  /\ signal \in [direction : Directions, price : Nat] \cup {None}

Init ==
  /\ FeedInit
  /\ follower = EmptyBook
  /\ reader = "out" /\ tops = None /\ snapshot = None
  /\ state = "Idle" /\ age = 0
  /\ signal = None

(***************************************************************************)
(* The feeds, each a writer of its book                                    *)
(***************************************************************************)

\* A write lock waits for the readers.
MayWriteLeader == reader = "out"
MayWriteFollower == reader # "both"

LeaderExchange ==
  /\ ExchangeStep
  /\ UNCHANGED <<follower, spread, state, age, signal>>

UpdateLeaderBook ==
  /\ MayWriteLeader
  /\ ReceiveStep
  /\ UNCHANGED <<follower, spread, state, age, signal>>

\* An answer that is an error leaves the book.
UpdateFollowerBook ==
  /\ MayWriteFollower
  /\ \E answer \in Answers :
       LET kept == GetOrderBook(answer)
       IN kept # {} /\ follower' = FromSnapshot(OrderBookSnapshot(answer.data, kept))
  /\ UNCHANGED <<feed, spread, state, age, signal>>

(***************************************************************************)
(* SignalContext::calc_spread                                              *)
(***************************************************************************)

LockLeader ==
  /\ reader = "out" /\ tops = None
  /\ reader' = "leader"
  /\ signal' = None
  /\ UNCHANGED <<feed, follower, tops, snapshot, state, age>>

Quoted == \A book \in {leader, follower}, side \in Sides : HasBest(book, side)

TopsNow ==
  [leaderBid |-> BestPrice(leader, "bids"), leaderAsk |-> BestPrice(leader, "asks"),
   followerBid |-> BestPrice(follower, "bids"), followerAsk |-> BestPrice(follower, "asks")]

\* Mutant: the leader's lock is released once its prices are read.
LockFollowerOnly ==
  /\ reader = "leader"
  /\ IF Quoted THEN reader' = "out" /\ tops' = TopsNow
               ELSE reader' = "out" /\ UNCHANGED tops
  /\ UNCHANGED <<feed, follower, snapshot, state, age, signal>>

\* Both locks are held.  A book without bids or asks ends the call with None
\* and leaves the old snapshot.
LockFollower ==
  /\ reader = "leader"
  /\ IF Quoted THEN reader' = "both" /\ tops' = TopsNow
               ELSE reader' = "out" /\ UNCHANGED tops
  /\ UNCHANGED <<feed, follower, snapshot, state, age, signal>>

\* SpreadSnapshot::from_orderbooks with the volumes of the leader's best levels.
SpreadNow(prices) ==
  [tops |-> prices,
   bidDepth |-> TopVolume(leader, "bids") * prices.leaderBid,
   askDepth |-> TopVolume(leader, "asks") * prices.leaderAsk]

TakeSpread ==
  /\ tops # None
  /\ snapshot' = SpreadNow(tops)
  /\ tops' = None
  /\ reader' = "out"
  /\ UNCHANGED <<feed, follower, state, age, signal>>

(***************************************************************************)
(* calc_direction, the filters and the signal                              *)
(***************************************************************************)

Delta(s, direction) ==
  CASE direction = "Long" -> s.tops.leaderBid - s.tops.followerAsk
    [] direction = "Short" -> s.tops.followerBid - s.tops.leaderAsk
    [] direction = "None" -> 0

Abs(n) == IF n < 0 THEN -n ELSE n

\* |spread_bps| >= bps.  The middle is that of the long side for both.
BpsReach(s, direction, bps) ==
  2 * 10000 * Abs(Delta(s, direction)) >= bps * (s.tops.leaderBid + s.tops.followerAsk)

\* Mutant: the sign of the spread is forgotten.
CalcDirectionUnsigned(s) ==
  IF s # None /\ BpsReach(s, "Long", EntryBps) THEN "Long"
  ELSE IF s # None /\ BpsReach(s, "Short", EntryBps) THEN "Short" ELSE "None"

CalcDirection(s) ==
  IF s # None /\ BpsReach(s, "Long", EntryBps) /\ Delta(s, "Long") > 0 THEN "Long"
  ELSE IF s # None /\ BpsReach(s, "Short", EntryBps) /\ Delta(s, "Short") > 0 THEN "Short"
  ELSE "None"

SpreadThresholdFilter == snapshot # None /\ BpsReach(snapshot, CalcDirection(snapshot), MinBps)

DepthConfirmFilter ==
  snapshot # None =>
    LET direction == CalcDirection(snapshot)
    IN \/ direction = "Long" /\ snapshot.bidDepth >= MinDepth
       \/ direction = "Short" /\ snapshot.askDepth >= MinDepth

CooldownFilter == state = "Cooldown" => age >= CooldownSecs

\* The chain as the live trader builds it; all must pass.
RunFilters == SpreadThresholdFilter /\ DepthConfirmFilter /\ CooldownFilter

\* ArbitrageSignal::new: the price is the follower's side that is taken.
MakeSignal ==
  /\ reader = "out" /\ tops = None
  /\ RunFilters
  /\ LET direction == CalcDirection(snapshot)
     IN signal' = [direction |-> direction,
                   price |-> CASE direction = "Long" -> snapshot.tops.followerAsk
                               [] direction = "Short" -> snapshot.tops.followerBid
                               [] direction = "None" -> 0]
  /\ UNCHANGED <<feed, follower, spread, state, age>>

\* set_state restarts the clock only when the state changes.
SetState(s) ==
  /\ reader = "out" /\ tops = None
  /\ s # state
  /\ state' = s /\ age' = 0
  /\ UNCHANGED <<feed, follower, spread, signal>>

Tick ==
  /\ age < CooldownSecs
  /\ age' = age + 1
  /\ UNCHANGED <<feed, follower, spread, state, signal>>

(***************************************************************************)
(* The specification                                                       *)
(***************************************************************************)

OwnerStep ==
  \/ LockLeader \/ LockFollower \/ TakeSpread \/ MakeSignal
  \/ \E s \in {"Idle", "Cooldown"} : SetState(s)

Next == LeaderExchange \/ UpdateLeaderBook \/ UpdateFollowerBook \/ OwnerStep \/ Tick

Spec == Init /\ [][Next]_vars

(***************************************************************************)
(* Properties                                                              *)
(***************************************************************************)

\* The side the exchange means by an entry.
MeantSide(answer, n) == IF answer.data[n].direction = answer.bidDirection THEN "bids" ELSE "asks"

\* The readable entries the exchange means for the symbol or has left without a name, each
\* on the side it means or, where its bids have the direction "0", each on the other.
Placed(answer) ==
  LET entry(n) == answer.data[n]
  IN [side \in Sides |->
        {n \in DOMAIN answer.data :
           /\ entry(n).readable /\ (entry(n).own \/ entry(n).instrumentID = NoName)
           /\ MeantSide(answer, n) = side <=> answer.bidDirection = "1"}]

ShowsEntries(book, data, places) ==
  LET price(n) == ToLevel(data[n]).price
      last(side) ==
        {n \in places[side] : \A k \in places[side] : price(k) = price(n) => k <= n}
  IN \A side \in Sides :
       /\ {book[side][n] : n \in DOMAIN book[side]} =
            {level \in {ToLevel(data[n]) : n \in last(side)} : ~Gone(level)}
       /\ \A m, n \in DOMAIN book[side] : m < n => Better(side, book[side][m], book[side][n])

\* The follower's book is never a mixture: it is empty or shows one whole answer of the
\* exchange, the last of the entries of a price unless that one is empty, each side best
\* first, with no entry the exchange means for another symbol unless it left it without
\* a name.  All entries are on the sides the exchange means, or, where it gives its bids
\* the direction "0" as client.rs:216 says, all are on the other side (market.rs:144).
FollowerShowsAnswer ==
  follower = EmptyBook
    \/ \E answer \in Answers :
         answer.ok /\ ShowsEntries(follower, answer.data, Placed(answer))

\* A spread is of one moment: its four prices and two depths stood together in the
\* two books when it was stored, whatever the feeds wrote meanwhile.
SpreadOfOneMoment ==
  [][snapshot' # snapshot => Quoted /\ snapshot' = SpreadNow(TopsNow)]_vars

\* A signal pays at the prices of its spread: who takes the follower's price and
\* could trade at the leader's best gains at least the entry threshold, and the
\* leader's best is deep enough, also when both directions seem open.
Pays(gain) ==
  gain > 0 /\ 2 * 10000 * gain >= EntryBps * (snapshot.tops.leaderBid + snapshot.tops.followerAsk)

SignalPays ==
  [][ (signal' # None /\ signal' # signal) =>
        \/ /\ signal' = [direction |-> "Long", price |-> snapshot.tops.followerAsk]
           /\ Pays(snapshot.tops.leaderBid - signal'.price)
           /\ snapshot.bidDepth >= MinDepth
        \/ /\ signal' = [direction |-> "Short", price |-> snapshot.tops.followerBid]
           /\ Pays(signal'.price - snapshot.tops.leaderAsk)
           /\ snapshot.askDepth >= MinDepth ]_vars
================================================================================
