---------------------------- MODULE MCEntrySignal ----------------------------
(* EntrySignal for TLC.                                                       *)
EXTENDS EntrySignal

MCPrices == [side \in Sides |-> IF side = "bids" THEN {3, 5} ELSE {2, 4}]

\* No level, a level, and one whose volume is gone but whose orders are not.
MCSizes ==
  [side \in Sides |-> {<<0, 0>>, <<1, 1>>} \cup IF side = "asks" THEN {<<0, 1>>} ELSE {}]

EntryOf(name, direction, price) ==
  [instrumentID |-> name, own |-> name # "other", readable |-> TRUE, direction |-> direction,
   price |-> price, volume |-> 1, orders |-> None]

AnswerOf(bidDirection, data) == [ok |-> TRUE, bidDirection |-> bidDirection, data |-> data]

\* A book that lags behind a rise, among entries of another symbol; one inside a
\* crossed leader's book, with an entry without a name, one that cannot be read, one
\* that takes an earlier one's place and one that is empty; one whose bids have the
\* direction "0", with an entry of another symbol that has no name; nothing of the
\* symbol; an error.
MCAnswers ==
  {AnswerOf("1", <<EntryOf(Symbol, "0", 2), EntryOf("other", "1", 5), EntryOf(Symbol, "1", 1)>>),
   AnswerOf("1", <<[EntryOf(Symbol, "1", 5) EXCEPT !.readable = FALSE],
                   EntryOf(NoName, "1", 3), EntryOf(Symbol, "0", 4),
                   [EntryOf(Symbol, "0", 4) EXCEPT !.volume = 2],
                   [EntryOf(Symbol, "0", 3) EXCEPT !.volume = 0, !.orders = 0]>>),
   AnswerOf("0", <<EntryOf(Symbol, "0", 3), EntryOf("other", "0", 2),
                   [EntryOf(NoName, "1", 4) EXCEPT !.own = FALSE]>>),
   AnswerOf("1", <<EntryOf("other", "0", 2)>>),
   [ok |-> FALSE, bidDirection |-> "1", data |-> <<>>]}
==============================================================================
