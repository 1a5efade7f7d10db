----------------------------- MODULE MCLbankStream -----------------------------
(* LbankStream for TLC: the book and the deals of one symbol.                  *)
EXTENDS LbankStream, TLC
CONSTANTS book, deals

MCStreams == {book, deals}
MCTopic == (book :> "book") @@ (deals :> "deal")
===============================================================================
