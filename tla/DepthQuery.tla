------------------------------ MODULE DepthQuery ------------------------------
(***************************************************************************)
(* The book of a symbol over LBank's REST interface: what get_order_book   *)
(* (exchange-adapter-lbank/src/client.rs) keeps of an answer and what      *)
(* get_order_book_snapshot (market.rs) makes of it.                        *)
(*                                                                         *)
(* The exchange may answer with entries of every symbol and with entries   *)
(* that cannot be read.  An answer is `ok` when its transport, its status  *)
(* and its code are in order and it has a data array.  Numbers come as     *)
(* text; one that is no number has the value None here.                    *)
(***************************************************************************)
EXTENDS OrderBook

CONSTANTS
  Symbol,  \* the symbol asked for
  NoName,  \* the InstrumentID ""
  None

Number == Nat \cup {None}

\* An entry is readable when it has the fields of MarketOrderItem.  `own` says whether
\* the exchange means the symbol by it, which it may have left unnamed.
Entry ==
  {e \in [instrumentID : {Symbol, NoName, "other"}, own : BOOLEAN, readable : BOOLEAN,
          direction : {"0", "1"}, price : Number, volume : Number, orders : Number] :
     e.instrumentID # NoName => (e.own <=> e.instrumentID = Symbol)}

\* bidDirection is the direction the exchange gives its bids: client.rs:216-217 says "0",
\* market.rs:143 "1", and protocol.rs:961-963 leaves it open.
Answer == [ok : BOOLEAN, bidDirection : {"0", "1"}, data : Seq(Entry)]

\* An entry of another symbol is passed over, one without a name is not.
OfSymbol(entry) == entry.instrumentID \in {Symbol, NoName}

\* Mutant: the answer is trusted to hold the symbol asked for.
GetOrderBookUnfiltered(answer) ==
  IF answer.ok THEN {n \in DOMAIN answer.data : answer.data[n].readable} ELSE {}

\* The places of the entries that are kept, in their order.  None is the error: the
\* request failed, or nothing is left of the answer.
GetOrderBook(answer) ==
  IF answer.ok
    THEN {n \in DOMAIN answer.data : OfSymbol(answer.data[n]) /\ answer.data[n].readable}
    ELSE {}

Parsed(number, default) == IF number = None THEN default ELSE number

ToLevel(entry) ==
  [price |-> Parsed(entry.price, 0), volume |-> Parsed(entry.volume, 0),
   orders |-> Parsed(entry.orders, 1)]

\* The code's reading: "1" is a bid, anything else an ask.
SideOf(entry) == IF entry.direction = "1" THEN "bids" ELSE "asks"

\* The levels of each side, best first.
OrderBookSnapshot(data, kept) ==
  LET levels == [n \in DOMAIN data |-> ToLevel(data[n])]
  IN [side \in Sides |-> Sorted(side, levels, {n \in kept : SideOf(data[n]) = side})]
===============================================================================
