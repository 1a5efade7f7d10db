--------------------------------- MODULE Feed ---------------------------------
(***************************************************************************)
(* What a market feed promises whoever reads it (abstract): each stream    *)
(* has a newest item, and the reader is told of the items one by one, none *)
(* left out, none twice, none out of order, and none before a look into    *)
(* the feed's caches would find it or a newer one.                         *)
(***************************************************************************)
EXTENDS Naturals

CONSTANT Streams

VARIABLES
  latest,  \* number of the newest item of each stream that a look-up finds
  told     \* number of the last item the reader was told of

Init ==
  /\ latest = [s \in Streams |-> 0]
  /\ told = [s \in Streams |-> 0]

Publish(s) ==
  /\ latest' = [latest EXCEPT ![s] = @ + 1]
  /\ UNCHANGED told

Tell(s) ==
  /\ told[s] < latest[s]
  /\ told' = [told EXCEPT ![s] = @ + 1]
  /\ UNCHANGED latest

Next == \E s \in Streams : Publish(s) \/ Tell(s)

Spec == Init /\ [][Next]_<<latest, told>>
===============================================================================
