------------------------------- MODULE OrderBook -------------------------------
(***************************************************************************)
(* crates/orderbook: one side of a book (BookSide), the book of two sides, *)
(* and what snapshots and diffs do to it.                                  *)
(*                                                                         *)
(* A side is an IndexMap from price to level, kept sorted best first: here *)
(* the sequence of its levels in the map's order, so that an entry removed *)
(* is replaced by the last one, as swap_remove does, until sort puts them  *)
(* right.  Prices and volumes are decimals in the code, integers here.     *)
(* Time stamps and seq_id, which neither update nor apply_diff reads, and  *)
(* the statistics (vwap, imbalance, mid price) are left out.               *)
(***************************************************************************)
EXTENDS Integers, Sequences, FiniteSets

Sides == {"bids", "asks"}

Level == [price : Int, volume : Nat, orders : Nat]

EmptyBook == [side \in Sides |-> <<>>]

Better(side, l, k) == IF side = "bids" THEN l.price > k.price ELSE l.price < k.price

\* Sorting is stable: in a list, levels of one price keep their order.
Before(side, levels, i, k) ==
  \/ Better(side, levels[i], levels[k])
  \/ levels[i].price = levels[k].price /\ i < k

\* The levels at these places of a list, best first.
Sorted(side, levels, places) ==
  LET rank == [k \in places |-> Cardinality({i \in places : Before(side, levels, i, k)})]
  IN [n \in 1..Cardinality(places) |-> levels[CHOOSE k \in places : rank[k] = n - 1]]

Sort(side, levels) == Sorted(side, levels, DOMAIN levels)

\* What takes its price out of the book.  A level without volume but with orders stays.
Gone(u) == u.volume = 0 /\ u.orders = 0

\* The levels without the one of this price, if there is one.
SwapRemove(levels, price) ==
  LET last == levels[Len(levels)]
      moved == [n \in DOMAIN levels |-> IF levels[n].price = price THEN last ELSE levels[n]]
  IN IF \E n \in DOMAIN levels : levels[n].price = price
       THEN SubSeq(moved, 1, Len(levels) - 1) ELSE levels

\* An entry of this price keeps its place, a new one goes to the end.
Insert(levels, level) ==
  IF \E n \in DOMAIN levels : levels[n].price = level.price
    THEN [n \in DOMAIN levels |-> IF levels[n].price = level.price THEN level ELSE levels[n]]
    ELSE Append(levels, level)

\* Mutant: the order of the rest is trusted after a removal.
UpdateSortsInserts(side, levels, u) ==
  IF Gone(u) THEN SwapRemove(levels, u.price) ELSE Sort(side, Insert(levels, u))

\* BookSide::update
Update(side, levels, u) ==
  Sort(side, IF Gone(u) THEN SwapRemove(levels, u.price) ELSE Insert(levels, u))

Updates(side, levels, us) ==
  LET after[n \in 0..Len(us)] ==
        IF n = 0 THEN levels ELSE Update(side, after[n - 1], us[n])
  IN after[Len(us)]

\* A diff lists updates of both sides, as a snapshot lists levels.
ApplyDiff(book, diff) == [side \in Sides |-> Updates(side, book[side], diff[side])]

FromSnapshot(snapshot) == ApplyDiff(EmptyBook, snapshot)

HasBest(book, side) == book[side] # <<>>

BestPrice(book, side) == Head(book[side]).price

\* volume_at_levels(1); a side without levels has none.
TopVolume(book, side) == IF HasBest(book, side) THEN Head(book[side]).volume ELSE 0
================================================================================
