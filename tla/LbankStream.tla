------------------------------ MODULE LbankStream ------------------------------
(***************************************************************************)
(* crates/exchange-adapter-lbank/src/ws.rs and market.rs: the task that    *)
(* owns the socket (run_ws_loop), the callers that send it commands, the   *)
(* task that converts its events (LbankMarketData::start) and the reader   *)
(* of the market events.                                                   *)
(*                                                                         *)
(*   callers --commands--> loop --events--> converter --market--> reader   *)
(*                                                                         *)
(* All three channels are bounded and every send is awaited: a full one    *)
(* stops its sender.  `outbox` holds the events of the sends the loop has  *)
(* still to get through before it does anything else.                      *)
(*                                                                         *)
(* An item is the number it has in its stream.  Prices, the parsing of     *)
(* items (one that does not parse is skipped), the login message, pings    *)
(* and the messages that are only logged are left out.  The exchange is    *)
(* external.                                                               *)
(***************************************************************************)
EXTENDS Naturals, Sequences

CONSTANTS
  Streams,      \* what can be subscribed: a topic, for most of them of a symbol
  Topic,        \* the topic of each
  BookStream,   \* the book under whose symbol all books are filed ("BTCUSDT")
  Unnamed,      \* the symbol ""
  CommandCap, EventCap, MarketCap,  \* the channels: 100, 1000, 1000
  MaxAttempts,  \* 10
  MaxItems,     \* bound: items in one push
  MaxVersion    \* bound: items of a stream

Topics == {"market", "book", "deal", "order"}

ASSUME TopicAssumption == Topic \in [Streams -> Topics]
ASSUME BookAssumption == BookStream \in Streams /\ Topic[BookStream] = "book"
ASSUME CapAssumption == CommandCap \in Nat \ {0} /\ EventCap \in Nat \ {0} /\ MarketCap \in Nat \ {0}
ASSUME BoundAssumption == MaxAttempts \in Nat \ {0} /\ MaxItems \in Nat \ {0} /\ MaxVersion \in Nat
ASSUME NamesAssumption ==
  /\ {"Connected", "Disconnected", "Error", "Shutdown", Unnamed} \cap Streams = {}
  /\ Unnamed \notin {"Connected", "Disconnected", "Error"}

\* WsEvent: an item of a stream; with number 0 a status, or a ticker of no symbol.
Status(name) == [of |-> name, v |-> 0]
Event == [of : Streams, v : 1..MaxVersion]
           \cup {Status(name) : name \in {"Connected", "Disconnected", "Error", Unnamed}}

\* WsCommand
Command == Streams \cup {"Shutdown"}

VARIABLES
  loop,       \* where run_ws_loop is
  outbox,     \* events of the sends it is in the middle of
  attempts,   \* reconnect_attempt
  session,    \* exchange: streams subscribed on this connection
  version,    \* exchange: items pushed of each stream
  open,       \* the LbankWebSocket, and so a sender of commands, still exists
  asking,     \* commands of callers that await the send
  commands,   \* the command channel
  events,     \* the event channel
  converter,  \* the converting task
  cached,     \* market_cache, order_book_cache and trade_cache
  market,     \* the channel of market events
  told,       \* the last item of each stream the reader has taken
  passed,     \* history: the last item of each stream the converter has taken
  handed,     \* history: the last item of each stream put in the event channel
  link,       \* history: the last status the converter has taken
  failures    \* history: connects that failed in a row

task == <<loop, outbox, attempts, session, version>>
callers == <<open, asking, commands>>
pipe == <<events, handed>>
reading == <<converter, market, told, passed, link>>
vars == <<task, callers, pipe, reading, cached, failures>>

TypeOK ==
  /\ loop \in {"connecting", "running", "stopping", "ended"}
  /\ outbox \in Seq(Event)
  /\ attempts \in 0..(MaxAttempts + 1)
  /\ session \subseteq Streams
  /\ version \in [Streams -> 0..MaxVersion]
  /\ open \in BOOLEAN
  /\ asking \subseteq Command
  /\ commands \in Seq(Command) /\ Len(commands) <= CommandCap
  /\ events \in Seq(Event) /\ Len(events) <= EventCap
  /\ converter \in {"running", "ended"}
  /\ cached \in [Streams -> 0..MaxVersion]
  /\ market \in Seq(Event) /\ Len(market) <= MarketCap
  /\ told \in [Streams -> 0..MaxVersion]
  /\ passed \in [Streams -> 0..MaxVersion]
  /\ handed \in [Streams -> 0..MaxVersion]
  /\ link \in {"Connected", "Disconnected", "Error"}
  /\ failures \in Nat

Zero == [s \in Streams |-> 0]

Init ==
  /\ loop = "connecting" /\ outbox = <<>> /\ attempts = 0
  /\ session = {} /\ version = Zero
  /\ open = TRUE /\ asking = {} /\ commands = <<>>
  /\ events = <<>> /\ handed = Zero
  /\ converter = "running" /\ market = <<>> /\ told = Zero /\ passed = Zero
  /\ link = "Disconnected"
  /\ cached = Zero
  /\ failures = 0

(***************************************************************************)
(* run_ws_loop                                                             *)
(***************************************************************************)

At(place) == loop = place /\ outbox = <<>>

\* Mutant: the counter of attempts is not reset by a connect.
ConnectedKeepsCount ==
  /\ At("connecting")
  /\ loop' = "running"
  /\ failures' = 0
  /\ session' = {}
  /\ outbox' = <<Status("Connected")>>
  /\ UNCHANGED <<attempts, version, callers, pipe, reading, cached>>

Connected ==
  /\ At("connecting")
  /\ loop' = "running"
  /\ attempts' = 0
  /\ failures' = 0
  /\ session' = {}
  /\ outbox' = <<Status("Connected")>>
  /\ UNCHANGED <<version, callers, pipe, reading, cached>>

\* What follows a session and a failed connect alike.  The pause between two
\* attempts is printed and not kept.
Retry ==
  /\ attempts' = attempts + 1
  /\ session' = {}
  /\ IF attempts + 1 > MaxAttempts
       THEN loop' = "stopping" /\ outbox' = <<Status("Disconnected"), Status("Error")>>
       ELSE loop' = "connecting" /\ outbox' = <<Status("Disconnected")>>

ConnectFails ==
  /\ At("connecting")
  /\ failures' = failures + 1
  /\ Retry
  /\ UNCHANGED <<version, callers, pipe, reading, cached>>

\* Mutant: a session that breaks is not announced.
SessionBreaksSilently ==
  /\ At("running")
  /\ loop' = "connecting" /\ attempts' = attempts + 1 /\ session' = {}
  /\ UNCHANGED <<outbox, version, callers, pipe, reading, cached, failures>>

\* The exchange closes, the read fails or the stream is at its end.
SessionBreaks ==
  /\ At("running")
  /\ Retry
  /\ UNCHANGED <<version, callers, pipe, reading, cached, failures>>

\* The sender goes on with the next of its awaited sends.
Deliver ==
  /\ outbox # <<>>
  /\ Len(events) < EventCap
  /\ events' = Append(events, Head(outbox))
  /\ outbox' = Tail(outbox)
  /\ handed' = IF Head(outbox).of \in Streams
                 THEN [handed EXCEPT ![Head(outbox).of] = Head(outbox).v] ELSE handed
  /\ UNCHANGED <<loop, attempts, session, version, callers, reading, cached, failures>>

\* The task returns: both its channel ends are dropped.
TaskEnds ==
  /\ At("stopping")
  /\ loop' = "ended"
  /\ commands' = <<>>
  /\ UNCHANGED <<outbox, attempts, session, version, open, asking, pipe, reading, cached, failures>>

(***************************************************************************)
(* handle_message, handle_push_data                                        *)
(***************************************************************************)

\* What an item says it is of.  A deal or an order names its instrument in field
\* "a"; a ticker does too, but MarketData looks for "instrument_id" (and for all
\* its fields under such names), which no ticker has.
ParsedName(s) == IF Topic[s] = "market" THEN Unnamed ELSE s

\* A book names nothing and is filed under the one hard-coded symbol.
Filed(s) == IF Topic[s] = "book" THEN BookStream ELSE ParsedName(s)

\* A push of deals or orders may be an array, one event for each item.
ItemsOf(s) == IF Topic[s] \in {"deal", "order"} THEN 1..MaxItems ELSE {1}

\* A book is cached before its event is sent, a ticker only if it has a name.
CacheItem(s, v) ==
  cached' = IF Topic[s] = "book" THEN [cached EXCEPT ![s] = v] ELSE cached

Push(s, n) ==
  LET key == Filed(s)
  IN /\ At("running")
     /\ s \in session
     /\ n \in ItemsOf(s)
     /\ IF key = Unnamed
          THEN outbox' = <<Status(Unnamed)>> /\ UNCHANGED <<version, cached>>
          ELSE /\ version[key] + n <= MaxVersion
               /\ version' = [version EXCEPT ![key] = @ + n]
               /\ CacheItem(key, version[key] + 1)
               /\ outbox' = [i \in 1..n |-> [of |-> key, v |-> version[key] + i]]
     /\ UNCHANGED <<loop, attempts, session, callers, pipe, reading, failures>>

(***************************************************************************)
(* subscribe_*, shutdown and the commands                                  *)
(***************************************************************************)

Call(c) ==
  /\ open
  /\ asking' = asking \cup {c}
  /\ UNCHANGED <<task, open, commands, pipe, reading, cached, failures>>

CallEnqueued(c) ==
  /\ c \in asking
  /\ loop # "ended"
  /\ Len(commands) < CommandCap
  /\ asking' = asking \ {c}
  /\ commands' = Append(commands, c)
  /\ UNCHANGED <<task, open, pipe, reading, cached, failures>>

\* The receiver is gone: subscribe_* returns the error, shutdown drops it.
CallRefused(c) ==
  /\ c \in asking
  /\ loop = "ended"
  /\ asking' = asking \ {c}
  /\ UNCHANGED <<task, open, commands, pipe, reading, cached, failures>>

\* Mutant: a biased select that reads commands only when no data can come.
TakeCommandWhenQuiet ==
  /\ At("running")
  /\ session = {}
  /\ commands # <<>>
  /\ commands' = Tail(commands)
  /\ IF Head(commands) = "Shutdown"
       THEN Retry
       ELSE /\ session' = session \cup {Head(commands)}
            /\ UNCHANGED <<loop, outbox, attempts>>
  /\ UNCHANGED <<version, open, asking, pipe, reading, cached, failures>>

\* A subscription is sent; a send that fails is only logged.  Shutdown closes the
\* socket and ends the session, and the loop connects again.
TakeCommand ==
  /\ At("running")
  /\ commands # <<>>
  /\ commands' = Tail(commands)
  /\ IF Head(commands) = "Shutdown"
       THEN Retry
       ELSE /\ session' \in {session, session \cup {Head(commands)}}
            /\ UNCHANGED <<loop, outbox, attempts>>
  /\ UNCHANGED <<version, open, asking, pipe, reading, cached, failures>>

\* The owner of the socket is dropped, as start does with the one before.
DropHandle ==
  /\ open
  /\ asking = {}
  /\ open' = FALSE
  /\ UNCHANGED <<task, asking, commands, pipe, reading, cached, failures>>

\* recv returns None, which ends the session like Shutdown: every session now.
NoSenderLeft ==
  /\ At("running")
  /\ ~open
  /\ commands = <<>>
  /\ Retry
  /\ UNCHANGED <<version, callers, pipe, reading, cached, failures>>

(***************************************************************************)
(* LbankMarketData::start, ws_event_to_market_event and the reader         *)
(***************************************************************************)

IsMarketEvent(e) == e.of = Unnamed \/ (e.of \in Streams /\ Topic[e.of] # "order")

\* Mutant: an event for which the market channel has no room is dropped.
ForwardIfRoom(e) ==
  IF IsMarketEvent(e) /\ Len(market) < MarketCap THEN market' = Append(market, e)
                                                 ELSE UNCHANGED market

Forward(e) ==
  IF IsMarketEvent(e)
    THEN Len(market) < MarketCap /\ market' = Append(market, e)
    ELSE UNCHANGED market

\* A deal takes the place of the one cached for its symbol.
Convert ==
  /\ converter = "running"
  /\ events # <<>>
  /\ events' = Tail(events)
  /\ Forward(Head(events))
  /\ IF Head(events).of \in Streams
       THEN /\ passed' = [passed EXCEPT ![Head(events).of] = Head(events).v]
            /\ cached' = IF Topic[Head(events).of] = "deal"
                           THEN [cached EXCEPT ![Head(events).of] = Head(events).v] ELSE cached
            /\ UNCHANGED link
       ELSE /\ link' = IF Head(events).of = Unnamed THEN link ELSE Head(events).of
            /\ UNCHANGED <<passed, cached>>
  /\ UNCHANGED <<task, callers, handed, converter, told, failures>>

ConverterEnds ==
  /\ converter = "running"
  /\ loop = "ended" /\ events = <<>>
  /\ converter' = "ended"
  /\ UNCHANGED <<task, callers, pipe, market, told, passed, link, cached, failures>>

Read ==
  /\ market # <<>>
  /\ market' = Tail(market)
  /\ told' = IF Head(market).of \in Streams
               THEN [told EXCEPT ![Head(market).of] = Head(market).v] ELSE told
  /\ UNCHANGED <<task, callers, pipe, converter, passed, link, cached, failures>>

(***************************************************************************)
(* The specification                                                       *)
(***************************************************************************)

LoopStep ==
  \/ Connected \/ ConnectFails \/ SessionBreaks \/ Deliver \/ TaskEnds
  \/ TakeCommand \/ NoSenderLeft
  \/ \E s \in Streams, n \in 1..MaxItems : Push(s, n)

CallerStep ==
  \/ \E c \in Command : Call(c) \/ CallEnqueued(c) \/ CallRefused(c)
  \/ DropHandle

ReaderStep == Convert \/ ConverterEnds \/ Read

Next == LoopStep \/ CallerStep \/ ReaderStep

Spec == Init /\ [][Next]_vars

\* The tasks are polled, a connect ends, and the reader reads.  select! picks one
\* of its ready branches at random, and the channel lets waiting senders in by
\* turns: a branch or a sender that is ready again and again gets its turn.
FairSpec ==
  /\ Spec
  /\ WF_vars(Connected \/ ConnectFails) /\ WF_vars(Deliver) /\ WF_vars(TaskEnds)
  /\ SF_vars(TakeCommand)
  /\ WF_vars(Convert) /\ WF_vars(ConverterEnds) /\ WF_vars(Read)
  /\ \A c \in Command : SF_vars(CallEnqueued(c)) /\ WF_vars(CallRefused(c))

(***************************************************************************)
(* Properties                                                              *)
(***************************************************************************)

F == INSTANCE Feed WITH latest <- cached

\* Loop, converter and reader pass every item on, in order and once, through two
\* bounded channels, reconnects and the end of the loop, and an item the reader
\* knows of is never newer than what get_order_book or the trade cache hold.
ReadsAsFeed == F!Spec

\* The converter learns of a session in brackets: items come only between a
\* Connected and the Disconnected that belongs to it, none of a broken session
\* after the news that it broke, and nothing at all after the final Error.
Taken == events # <<>> /\ events' = Tail(events)

NewsInBrackets ==
  [][ Taken =>
        /\ Head(events).of \in Streams \cup {Unnamed} => link = "Connected"
        /\ Head(events).of = "Connected" => link = "Disconnected"
        /\ link # "Error" ]_events

\* The loop gives up only after MaxAttempts connects in a row have failed, however
\* many sessions broke, were shut down or lost their callers before.
GivesUpLate ==
  loop \in {"stopping", "ended"} => failures >= MaxAttempts

\* A call of subscribe_* or shutdown returns, whatever breaks meanwhile, as long as
\* the market events are read.
CallsReturn == \A c \in Command : c \in asking ~> c \notin asking
===============================================================================
