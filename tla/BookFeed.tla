------------------------------- MODULE BookFeed --------------------------------
(***************************************************************************)
(* The leader's book (crates/orderbook) kept by snapshots and diffs of its *)
(* exchange.                                                               *)
(*                                                                         *)
(* The exchange and what delivers its messages are external: no crate of   *)
(* the repository calls apply_diff yet.  `truth` is the exchange's book    *)
(* and `wire` what was sent and may still arrive, in the order it was      *)
(* sent: a diff of one level, or a snapshot of all of them (answered over  *)
(* another connection than the diffs).  Any of them may arrive next, and   *)
(* again.  Snapshots and diffs carry a seq_id which neither from_snapshot  *)
(* nor apply_diff compares with the book's: what arrives is applied.       *)
(*                                                                         *)
(* `stale` is a history: the levels last written by a message that came    *)
(* later than a newer one about them.                                      *)
(***************************************************************************)
EXTENDS OrderBook, FiniteSets, Functions, SequencesExt

CONSTANTS
  Prices,         \* prices of the leader's levels, of each side
  Sizes,          \* (volume, orders) a level of each side may have, (0, 0) for none
  MaxWire         \* bound: messages under way

ASSUME PricesAssumption == Prices \in [Sides -> SUBSET (Nat \ {0})]
ASSUME SizesAssumption ==
  /\ Sizes \in [Sides -> SUBSET (Nat \X Nat)]
  /\ \A side \in Sides : <<0, 0>> \in Sizes[side]
ASSUME WireAssumption == MaxWire \in Nat \ {0}

\* The levels of the exchange's book, each of a side and a price.
Slots == UNION {{side} \X Prices[side] : side \in Sides}

LevelOf(price, size) == [price |-> price, volume |-> size[1], orders |-> size[2]]

\* A diff of one level.
DiffOf(side, u) == [d \in Sides |-> IF d = side THEN <<u>> ELSE <<>>]

VARIABLES
  truth,     \* exchange: size of each level of the leader's book
  wire,      \* messages sent that may arrive
  stale,     \* history: levels last written by an overtaken message
  leader     \* the shared book

feed == <<truth, wire, stale, leader>>

FeedInit ==
  /\ truth = [l \in Slots |-> <<0, 0>>]
  /\ wire = <<>> /\ stale = {}
  /\ leader = EmptyBook

\* What a message says of levels; `late` are those a newer message was applied to.
Send(snapshot, says) ==
  /\ Len(wire) < MaxWire
  /\ wire' = Append(wire, [snapshot |-> snapshot, says |-> says, late |-> {}])

\* Exchange: a level changes, and a diff says so.
Change(l) ==
  /\ \E size \in Sizes[l[1]] \ {truth[l]} :
       /\ truth' = [truth EXCEPT ![l] = size]
       /\ Send(FALSE, [k \in {l} |-> size])
  /\ UNCHANGED <<stale, leader>>

\* Exchange: a query of its whole book is answered.
AnswerSnapshot ==
  /\ Send(TRUE, truth)
  /\ UNCHANGED <<truth, stale, leader>>

\* The levels of older messages that a newer one, applied, leaves behind the times.
Overtaken(n) ==
  [m \in DOMAIN wire |->
     IF m < n THEN [wire[m] EXCEPT !.late = @ \cup (DOMAIN wire[m].says \cap DOMAIN wire[n].says)]
              ELSE wire[m]]

\* It is off the wire, or will come once more.
Arrives(n) ==
  /\ wire' \in {Overtaken(n), RemoveAt(Overtaken(n), n)}
  /\ stale' = (stale \ DOMAIN wire[n].says) \cup wire[n].late
  /\ UNCHANGED truth

ReceiveDiff(n) ==
  /\ ~wire[n].snapshot
  /\ Arrives(n)
  /\ \E l \in DOMAIN wire[n].says :
       leader' = ApplyDiff(leader, DiffOf(l[1], LevelOf(l[2], wire[n].says[l])))

Listed(says, side) == {p \in Prices[side] : says[<<side, p>>] # <<0, 0>>}

\* The levels of a snapshot, in any order.
Listings(says, side) ==
  {[n \in DOMAIN s |-> LevelOf(s[n], says[<<side, s[n]>>])] :
     s \in Bijection(1..Cardinality(Listed(says, side)), Listed(says, side))}

\* A snapshot takes the place of the book.
ReceiveSnapshot(n) ==
  /\ wire[n].snapshot
  /\ Arrives(n)
  /\ \E bids \in Listings(wire[n].says, "bids"), asks \in Listings(wire[n].says, "asks") :
       leader' = FromSnapshot([side \in Sides |-> IF side = "bids" THEN bids ELSE asks])

ExchangeStep == (\E l \in Slots : Change(l)) \/ AnswerSnapshot

ReceiveStep == \E n \in DOMAIN wire : ReceiveDiff(n) \/ ReceiveSnapshot(n)

FeedNext == ExchangeStep \/ ReceiveStep

FeedSpec == FeedInit /\ [][FeedNext]_feed

(***************************************************************************)
(* Properties                                                              *)
(***************************************************************************)

\* The book shows a level as the exchange has it: once, with its size, or not at all.
Shown(l) ==
  {leader[l[1]][n] : n \in {m \in DOMAIN leader[l[1]] : leader[l[1]][m].price = l[2]}} =
    IF truth[l] = <<0, 0>> THEN {} ELSE {LevelOf(l[2], truth[l])}

Awaited(l) == \E n \in DOMAIN wire : l \in DOMAIN wire[n].says

\* Whatever snapshots and diffs arrive, in any order and again, each side of the
\* leader's book is best first, each price once and of the exchange's, and every level
\* that no message under way speaks of and that was not written last by an overtaken
\* one is the exchange's: an arrival does no more harm than its own levels.
BookFollowsExchange ==
  /\ \A side \in Sides :
       /\ \A n \in DOMAIN leader[side] : leader[side][n].price \in Prices[side]
       /\ \A m, n \in DOMAIN leader[side] :
            m < n => Better(side, leader[side][m], leader[side][n])
  /\ \A l \in Slots : Awaited(l) \/ l \in stale \/ Shown(l)
================================================================================
