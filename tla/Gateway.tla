-------------------------------- MODULE Gateway --------------------------------
(***************************************************************************)
(* crates/md-gateway: the task of an ExchangeGateway (connection.rs,       *)
(* run_gateway), and a reader that takes its events.                       *)
(*                                                                         *)
(*   callers --commands--> run_gateway --events--> reader                  *)
(*                                                                         *)
(* The sends of events are awaited (outbox, as in LbankStream).  Pings     *)
(* that succeed, raw sends, time stamps and the fields state,              *)
(* last_message, reconnect_count and subscriptions of the gateway, which   *)
(* the task never writes, are left out.  A message is its number in its    *)
(* topic.  The exchange is external: it may refuse a subscription, and no  *)
(* acknowledgement is awaited.  So is the reader, who keeps book of what   *)
(* the events tell it.                                                     *)
(***************************************************************************)
EXTENDS Naturals, Sequences

CONSTANTS
  Topics,        \* what can be subscribed
  Configured,    \* config.subscriptions, a sequence of topics
  Auth,          \* is an auth message configured?
  CommandCap, EventCap,  \* the channels: 100 and 1000
  MaxAttempts,   \* config.max_reconnect_attempts
  MaxVersion     \* bound: messages of a topic

ASSUME ConfiguredAssumption == Configured \in Seq(Topics)
ASSUME AuthAssumption == Auth \in BOOLEAN
ASSUME CapAssumption == CommandCap \in Nat \ {0} /\ EventCap \in Nat \ {0}
ASSUME BoundAssumption == MaxAttempts \in Nat /\ MaxVersion \in Nat

Command == ({"Subscribe", "Unsubscribe"} \X Topics) \cup {<<"Shutdown">>}

\* ConnectionEvent
News == {<<"Connected">>, <<"Disconnected">>, <<"Error">>}
Event == News \cup ({"Subscribed"} \X Topics) \cup ({"Message"} \X Topics \X (1..MaxVersion))

VARIABLES
  loop,      \* where run_gateway is
  todo,      \* the configured topics it still has to subscribe
  outbox,    \* events of the sends it is in the middle of
  attempts,  \* reconnect_attempt
  commands,  \* the command channel
  events,    \* the event channel
  session,   \* exchange: topics subscribed on this connection
  version,   \* exchange: messages sent of each topic
  taken,     \* reader: the last message of each topic
  believed,  \* reader: topics the events say are subscribed
  excused,   \* history: topics of this session whose subscribe could not be sent or
             \* that were to be unsubscribed
  refused    \* history: topics of this session whose subscription the exchange refused

served == <<session, excused, refused>>
task == <<loop, todo, outbox, attempts, served>>
reader == <<taken, believed>>
vars == <<task, commands, events, version, reader>>

TypeOK ==
  /\ loop \in {"connecting", "authenticating", "restoring", "running", "sleeping", "ending", "ended"}
  /\ todo \in Seq(Topics)
  /\ outbox \in Seq(Event)
  /\ attempts \in 0..(MaxAttempts + 1)
  /\ commands \in Seq(Command) /\ Len(commands) <= CommandCap
  /\ events \in Seq(Event) /\ Len(events) <= EventCap
  /\ session \subseteq Topics
  /\ version \in [Topics -> 0..MaxVersion]
  /\ taken \in [Topics -> 0..MaxVersion]
  /\ believed \subseteq Topics
  /\ excused \subseteq Topics /\ refused \subseteq Topics

Zero == [t \in Topics |-> 0]

\* The loop announces Disconnected before its first connect, too.
Init ==
  /\ loop = "connecting" /\ outbox = <<(<<"Disconnected">>)>>
  /\ todo = <<>> /\ attempts = 0
  /\ commands = <<>> /\ events = <<>>
  /\ session = {} /\ excused = {} /\ refused = {}
  /\ version = Zero
  /\ taken = Zero /\ believed = {}

(***************************************************************************)
(* run_gateway                                                             *)
(***************************************************************************)

At(place) == loop = place /\ outbox = <<>>

Goto(from, to, announced) ==
  /\ At(from)
  /\ loop' = to
  /\ outbox' = announced

Connect ==
  /\ Goto("connecting", IF Auth THEN "authenticating" ELSE "restoring", <<(<<"Connected">>)>>)
  /\ attempts' = 0
  /\ todo' = Configured
  /\ session' = {} /\ excused' = {} /\ refused' = {}
  /\ UNCHANGED <<commands, events, version, reader>>

\* The message cannot be sent: `continue` goes to the top of the loop, past the
\* count of attempts and the pause.
AuthFails ==
  /\ Goto("authenticating", "connecting", <<(<<"Disconnected">>)>>)
  /\ UNCHANGED <<todo, attempts, served, commands, events, version, reader>>

AuthSent ==
  /\ Goto("authenticating", "restoring", <<>>)
  /\ UNCHANGED <<todo, attempts, served, commands, events, version, reader>>

\* A subscribe message that is sent is announced, whatever becomes of it at the
\* exchange (Refuse); one that fails is logged.
SendSubscribe(t) ==
  \/ /\ session' = session \cup {t}
     /\ excused' = excused \ {t}
     /\ refused' = refused \ {t}
     /\ outbox' = <<(<<"Subscribed", t>>)>>
  \/ /\ excused' = excused \cup {t}
     /\ UNCHANGED <<session, refused, outbox>>

Restore ==
  /\ At("restoring")
  /\ IF todo = <<>>
       THEN loop' = "running" /\ UNCHANGED <<todo, served, outbox>>
       ELSE /\ SendSubscribe(Head(todo))
            /\ todo' = Tail(todo)
            /\ UNCHANGED loop
  /\ UNCHANGED <<attempts, commands, events, version, reader>>

\* The bottom of the loop, after a session and after a failed connect.
Retry ==
  /\ attempts' = attempts + 1
  /\ IF attempts + 1 > MaxAttempts
       THEN loop' = "ending" /\ outbox' = <<(<<"Disconnected">>), (<<"Error">>)>>
       ELSE loop' = "sleeping" /\ outbox' = <<(<<"Disconnected">>)>>
  /\ session' = {} /\ excused' = {} /\ refused' = {}

ConnectFails ==
  /\ At("connecting")
  /\ Retry
  /\ UNCHANGED <<todo, commands, events, version, reader>>

\* Closed by the exchange, or a read or a ping fails.
SessionBreaks ==
  /\ At("running")
  /\ Retry
  /\ UNCHANGED <<todo, commands, events, version, reader>>

Wake ==
  /\ Goto("sleeping", "connecting", <<(<<"Disconnected">>)>>)
  /\ UNCHANGED <<todo, attempts, served, commands, events, version, reader>>

TaskEnds ==
  /\ Goto("ending", "ended", <<>>)
  /\ commands' = <<>>
  /\ UNCHANGED <<todo, attempts, served, events, version, reader>>

\* Mutant: try_send, which drops the event when the channel is full.
DeliverOrDrop ==
  /\ outbox # <<>>
  /\ events' = IF Len(events) < EventCap THEN Append(events, Head(outbox)) ELSE events
  /\ outbox' = Tail(outbox)
  /\ UNCHANGED <<loop, todo, attempts, served, commands, version, reader>>

Deliver ==
  /\ outbox # <<>>
  /\ Len(events) < EventCap
  /\ events' = Append(events, Head(outbox))
  /\ outbox' = Tail(outbox)
  /\ UNCHANGED <<loop, todo, attempts, served, commands, version, reader>>

\* The exchange refuses a subscription it was sent, at once or after a while.  It
\* says so in a message, which the gateway passes on like any other, or not at all.
Refuse(t) ==
  /\ t \in session
  /\ session' = session \ {t}
  /\ refused' = refused \cup {t}
  /\ UNCHANGED <<loop, todo, outbox, attempts, excused, commands, events, version, reader>>

\* The next message of topic t is read from the socket.
Receive(t) ==
  /\ At("running")
  /\ t \in session
  /\ version[t] < MaxVersion
  /\ version' = [version EXCEPT ![t] = @ + 1]
  /\ outbox' = <<(<<"Message", t, version[t] + 1>>)>>
  /\ UNCHANGED <<loop, todo, attempts, served, commands, events, reader>>

(***************************************************************************)
(* subscribe, unsubscribe, shutdown                                        *)
(***************************************************************************)

\* The sends of subscribe, unsubscribe and shutdown: they wait while the channel
\* is full and fail once the task has ended.
Call(c) ==
  /\ loop # "ended"
  /\ Len(commands) < CommandCap
  /\ commands' = Append(commands, c)
  /\ UNCHANGED <<task, events, version, reader>>

Unsubscribe(t) ==
  /\ session' \in {session, session \ {t}}
  /\ excused' = excused \cup {t}
  /\ UNCHANGED <<refused, outbox>>

\* Mutant: a topic subscribed at run time is not announced.
TakeCommandSilently ==
  /\ At("running")
  /\ commands # <<>>
  /\ commands' = Tail(commands)
  /\ \/ /\ Head(commands)[1] = "Subscribe"
        /\ session' = session \cup {Head(commands)[2]}
        /\ UNCHANGED <<excused, refused, outbox, loop, attempts>>
     \/ /\ Head(commands)[1] = "Unsubscribe"
        /\ Unsubscribe(Head(commands)[2])
        /\ UNCHANGED <<loop, attempts>>
     \/ Head(commands)[1] = "Shutdown" /\ Retry
  /\ UNCHANGED <<todo, events, version, reader>>

\* Shutdown, like a broken session, leads to the next attempt.
TakeCommand ==
  /\ At("running")
  /\ commands # <<>>
  /\ commands' = Tail(commands)
  /\ \/ /\ Head(commands)[1] = "Subscribe"
        /\ SendSubscribe(Head(commands)[2])
        /\ UNCHANGED <<loop, attempts>>
     \/ /\ Head(commands)[1] = "Unsubscribe"
        /\ Unsubscribe(Head(commands)[2])
        /\ UNCHANGED <<loop, attempts>>
     \/ Head(commands)[1] = "Shutdown" /\ Retry
  /\ UNCHANGED <<todo, events, version, reader>>

(***************************************************************************)
(* The reader (external)                                                   *)
(***************************************************************************)

\* What event e makes a reader believe who believed B.
Believing(B, e) ==
  IF e[1] = "Subscribed" THEN B \cup {e[2]}
  ELSE IF e[1] \in {"Connected", "Disconnected"} THEN {} ELSE B

Take ==
  /\ events # <<>>
  /\ events' = Tail(events)
  /\ LET e == Head(events)
     IN /\ taken' = IF e[1] = "Message" THEN [taken EXCEPT ![e[2]] = e[3]] ELSE taken
        /\ believed' = Believing(believed, e)
  /\ UNCHANGED <<task, commands, version>>

(***************************************************************************)
(* The specification                                                       *)
(***************************************************************************)

LoopStep ==
  \/ Connect \/ ConnectFails \/ AuthFails \/ AuthSent \/ Restore
  \/ SessionBreaks \/ Wake \/ TaskEnds \/ Deliver \/ TakeCommand
  \/ \E t \in Topics : Receive(t)

Next ==
  \/ LoopStep
  \/ \E c \in Command : Call(c)
  \/ \E t \in Topics : Refuse(t)
  \/ Take

Spec == Init /\ [][Next]_vars

(***************************************************************************)
(* Properties                                                              *)
(***************************************************************************)

\* A reader that has taken all events knows the session as far as the gateway
\* does: whatever the exchange serves it believes subscribed, after any number of
\* reconnects, and what it believes, like each topic of the configuration, is
\* served but for three reasons: the message could not be sent, the topic was to
\* be unsubscribed, or the exchange refused it.  The last the events do not tell:
\* Subscribed means that the message was written (connection.rs:214-217, 288-291).
SessionAsTold ==
  loop = "running" /\ outbox = <<>> /\ events = <<>> =>
    /\ session \subseteq believed
    /\ believed \ session \subseteq excused \cup refused
    /\ {Configured[i] : i \in DOMAIN Configured} \ session \subseteq excused \cup refused

\* Every message goes through outbox, channel and reader once and in order.
F == INSTANCE Feed WITH Streams <- Topics, latest <- version, told <- taken

ReadsAsFeed == F!Spec
================================================================================
