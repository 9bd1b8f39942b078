------------------------------ MODULE MqttLink ------------------------------
(***************************************************************************)
(* tm-platform/src/transport.rs and backoff.rs: the pump thread keeps a    *)
(* clean MQTT session alive, replaying every subscription after each       *)
(* reconnect, while announce (manager.rs) subscribes and registers on      *)
(* another thread.  The MQTT client library is external: a channel of      *)
(* requests that only the pump's own polling sends, and whose unsent       *)
(* requests may or may not outlive a connection.                           *)
(***************************************************************************)
EXTENDS Integers, Sequences, FiniteSets

CONSTANTS Topics,            \* the topics announce subscribes to, a sequence
          request_capacity,  \* REQUEST_CAPACITY
          initial_delay, max_delay,   \* ReconnectBackoff.initial, .max
          MaxOutages,        \* bound on the broker's outages
          Stops              \* may the transport be shut down in this run?

ASSUME LinkAssumption ==
  /\ Topics \in Seq(STRING) /\ request_capacity \in Nat \ {0}
  /\ initial_delay \in Nat \ {0} /\ max_delay \in Nat /\ max_delay >= initial_delay
  /\ MaxOutages \in Nat /\ Stops \in BOOLEAN

VARIABLES connected,      \* MqttTransport.connected
          subscriptions,  \* MqttTransport.subscriptions
          channel,        \* requests accepted by try_subscribe and try_publish
          current,        \* ReconnectBackoff.current
          pc,             \* the pump: "polling", "replaying", "sleeping", "ended"
          delay,          \* what is left of the pump's sleep
          stop,           \* MqttTransport.stop
          calls,          \* what announce has still to do
          broker,         \* the broker: "up" or "down"
          session,        \* "none", "live", or "dead" and the pump has not noticed
          granted,        \* the subscriptions of the live session
          outages,        \* outages so far, for MaxOutages
          dark            \* history: ticks the broker has been up without a session

transport == <<connected, subscriptions, channel, current>>
pump == <<pc, delay>>
outside == <<broker, session, granted, outages>>
linkvars == <<transport, pump, stop, calls, outside, dark>>

Names == {Topics[i] : i \in 1..Len(Topics)}
Smaller(a, b) == IF a < b THEN a ELSE b

\* Mutant: asks first and remembers afterwards.
SubscribeThenRemember(t) == <<<<"try_subscribe", t>>, <<"push", t>>>>

\* subscribe: remember the topic, look at the connection, ask.
Subscribe(t) == <<<<"push", t>>, <<"try_subscribe", t>>>>

\* announce: subscribe to every topic, then send_registration.
Announce(s) ==
  LET Of[i \in 0..Len(Topics)] == IF i = 0 THEN <<>> ELSE Of[i-1] \o s[Topics[i]]
  IN  Of[Len(Topics)] \o <<<<"register">>>>

LinkInit ==
  /\ connected = FALSE /\ subscriptions = <<>> /\ channel = <<>>
  /\ current = initial_delay
  /\ pc = "polling" /\ delay = 0 /\ stop = FALSE
  /\ calls = Announce([t \in Names |-> Subscribe(t)])
  /\ broker \in {"up", "down"} /\ session = "none" /\ granted = {}
  /\ outages = 0 /\ dark = 0

\* try_subscribe and try_publish: refused when the channel is full.
Requested(ch, r) == IF Len(ch) < request_capacity THEN Append(ch, r) ELSE ch

-----------------------------------------------------------------------------
(* announce, on the main thread. *)
Push ==
  /\ calls # <<>> /\ Head(calls)[1] = "push"
  /\ pc # "replaying"            \* the pump holds the list's lock while it replays
  /\ subscriptions' = Append(subscriptions, Head(calls)[2])
  /\ calls' = Tail(calls)
  /\ UNCHANGED <<connected, channel, current, pump, stop, outside, dark>>

\* subscribe's request and publish: nothing without a connection.
Request ==
  /\ calls # <<>> /\ Head(calls)[1] # "push"
  /\ channel' = IF connected THEN Requested(channel, Head(calls)) ELSE channel
  /\ calls' = Tail(calls)
  /\ UNCHANGED <<connected, subscriptions, current, pump, stop, outside, dark>>

-----------------------------------------------------------------------------
(* pump_loop *)

ConnAck ==
  /\ pc = "polling" /\ session = "none" /\ broker = "up" /\ ~stop
  /\ session' = "live" /\ granted' = {}
  /\ connected' = TRUE
  /\ current' = initial_delay          \* backoff.reset()
  /\ pc' = "replaying"
  /\ dark' = 0
  /\ UNCHANGED <<subscriptions, channel, delay, stop, calls, broker, outages>>

Replay ==
  /\ pc = "replaying"
  /\ LET After[i \in 0..Len(subscriptions)] ==
           IF i = 0 THEN channel
           ELSE Requested(After[i-1], <<"try_subscribe", subscriptions[i]>>)
     IN  channel' = After[Len(subscriptions)]
  /\ pc' = "polling"
  /\ UNCHANGED <<connected, subscriptions, current, delay, stop, calls, outside, dark>>

\* Polling sends the next request; on a dead session it goes nowhere.
Send ==
  /\ pc = "polling" /\ session # "none" /\ channel # <<>>
  /\ channel' = Tail(channel)
  /\ granted' = IF session = "live" /\ Head(channel)[1] = "try_subscribe"
                THEN granted \cup {Head(channel)[2]} ELSE granted
  /\ UNCHANGED <<connected, subscriptions, current, pump, stop, calls, broker, session,
                 outages, dark>>

\* next_delay's doubling, up to the ceiling.
Doubled == Smaller(2 * current, max_delay)

\* An error from the connection: it broke, or the broker cannot be reached.
ConnectionLost ==
  /\ pc = "polling"
  /\ session = "dead" \/ (session = "none" /\ broker = "down")
  /\ session' = "none" /\ connected' = FALSE
  /\ channel' \in {channel, <<>>}
  /\ IF stop
     THEN pc' = "ended" /\ UNCHANGED <<current, delay>>
     ELSE pc' = "sleeping" /\ delay' = current /\ current' = Doubled
  /\ UNCHANGED <<subscriptions, stop, calls, broker, granted, outages, dark>>

\* The sleep, in slices: a shutdown ends it.
SleepSlice ==
  /\ pc = "sleeping"
  /\ IF stop THEN pc' = "ended" /\ UNCHANGED <<delay, dark>>
     ELSE /\ delay' = delay - 1
          /\ pc' = IF delay = 1 THEN "polling" ELSE "sleeping"
          /\ dark' = IF broker = "up" THEN dark + 1 ELSE 0
  /\ UNCHANGED <<transport, stop, calls, outside>>

\* Mutant: the pump leaves the flag as it was.
EndsStillConnected ==
  /\ pc = "polling" /\ stop
  /\ pc' = "ended" /\ session' = "none"
  /\ UNCHANGED <<connected, subscriptions, channel, current, delay, stop, calls, broker,
                 granted, outages, dark>>

\* Any event after stop ends the loop; the disconnect that shutdown asks for is one.
PumpEnds ==
  /\ pc = "polling" /\ stop
  /\ pc' = "ended" /\ connected' = FALSE /\ session' = "none"
  /\ UNCHANGED <<subscriptions, channel, current, delay, stop, calls, broker, granted, outages, dark>>

\* shutdown up to its join; it returns once the pump has ended.
Shutdown ==
  /\ Stops /\ ~stop
  /\ stop' = TRUE
  /\ UNCHANGED <<transport, pump, calls, outside, dark>>

-----------------------------------------------------------------------------
BrokerFails ==
  /\ broker = "up" /\ outages < MaxOutages
  /\ broker' = "down" /\ outages' = outages + 1
  /\ session' = IF session = "live" THEN "dead" ELSE session
  /\ granted' = {} /\ dark' = 0
  /\ UNCHANGED <<transport, pump, stop, calls>>

BrokerReturns ==
  /\ broker = "down"
  /\ broker' = "up"
  /\ UNCHANGED <<transport, pump, stop, calls, session, granted, outages, dark>>

LinkNext ==
  \/ Push \/ Request
  \/ ConnAck \/ Replay \/ Send \/ ConnectionLost \/ SleepSlice \/ PumpEnds
  \/ Shutdown \/ BrokerFails \/ BrokerReturns

\* Both threads go on, the library polls, and the broker does not stay away for
\* ever.  Outages are bounded by MaxOutages.
LinkFairness ==
  /\ WF_linkvars(Push) /\ WF_linkvars(Request) /\ WF_linkvars(ConnAck) /\ WF_linkvars(Replay)
  /\ WF_linkvars(Send) /\ WF_linkvars(ConnectionLost) /\ WF_linkvars(SleepSlice)
  /\ WF_linkvars(PumpEnds) /\ WF_linkvars(BrokerReturns)

LinkSpec == LinkInit /\ [][LinkNext]_linkvars
FairLinkSpec == LinkSpec /\ LinkFairness

-----------------------------------------------------------------------------
LinkTypeOK ==
  /\ connected \in BOOLEAN /\ stop \in BOOLEAN
  /\ subscriptions \in Seq(Names) /\ Len(channel) <= request_capacity
  /\ current \in initial_delay..max_delay /\ delay \in 0..max_delay
  /\ pc \in {"polling", "replaying", "sleeping", "ended"}
  /\ broker \in {"up", "down"} /\ session \in {"none", "live", "dead"}
  /\ granted \subseteq Names /\ outages \in 0..MaxOutages

\* The rig does not leave a broker that is back alone for longer than `max`.
DialsInTime == dark <= max_delay

\* pump_loop, backoff.rs: however long the outage, the rig dials within `max` of the
\* broker returning, and every subscription is granted again, also one made while
\* the link is down or coming up.
SubscriptionsHold ==
  /\ []DialsInTime
  /\ <>[](stop \/ granted = Names)

\* The pump has left its loop, and the flag says so.
Ended == pc = "ended" /\ ~connected

\* shutdown waits for the pump, which may be in a 30 s sleep, replaying or in a
\* broken session; it ends, and the flag says so.
ShutdownReturns == stop ~> []Ended
=============================================================================
