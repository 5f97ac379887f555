---------------------------- MODULE MqttSession ----------------------------
(***************************************************************************)
(* mqtt_event_handler_cb of main/mqtt.h: how connection, subscription and  *)
(* disconnection events move the two globals the publishers test,          *)
(* countSubsripcitionEvents and STATE[MQTT].  The handler runs in the MQTT *)
(* client's task, one event at a time; the publishers read the globals     *)
(* between any two of its assignments, so each assignment is a step.       *)
(*                                                                         *)
(* The client library and the broker are external: a subscribe call may    *)
(* fail, a SUBACK may take any time, the connection may break at any time, *)
(* and what was unanswered when it breaks stays unanswered.                *)
(***************************************************************************)
EXTENDS Integers, FiniteSets

CONSTANTS
  Topics   \* topics[0 .. NUM_OF_TOPICS-1] of defs.h

ASSUME MqttSessionAssumption ==
  /\ IsFiniteSet(Topics)
  /\ Topics # {}

VARIABLES
  link,       \* the client is connected
  mqttState,  \* STATE[MQTT]
  countSubs,  \* countSubsripcitionEvents
  task,       \* where the client's task is, see Tasks
  todo,       \* topics the loop of MQTT_EVENT_CONNECTED has still to subscribe
  pending,    \* subscriptions sent in this session and not answered
  acked       \* history: subscriptions answered in this session

vars == <<link, mqttState, countSubs, task, todo, pending, acked>>

Tasks == {"down", "subscribing", "running", "clearing"}

\* (Fault: the enumeration is one topic short.)
NUM_OF_TOPICS_SHORT == Cardinality(Topics) - 1
NUM_OF_TOPICS == Cardinality(Topics)

\* The publishers' condition.
gate == countSubs = NUM_OF_TOPICS /\ mqttState

-----------------------------------------------------------------------------
Init ==
  /\ link = FALSE /\ mqttState = FALSE /\ countSubs = 0
  /\ task = "down" /\ todo = {} /\ pending = {} /\ acked = {}

\* MQTT_EVENT_CONNECTED: the state is set before the first subscription.
Connected ==
  /\ task = "down"
  /\ link' = TRUE
  /\ mqttState' = TRUE
  /\ task' = "subscribing"
  /\ todo' = Topics
  /\ pending' = {} /\ acked' = {}
  /\ UNCHANGED countSubs

\* One iteration of its loop.  The call may fail (no connection, no memory); its
\* return value is ignored, and a subscription that fails is not tried again.
Subscribe(t) ==
  /\ task = "subscribing"
  /\ t \in todo
  /\ todo' = todo \ {t}
  /\ \/ link /\ pending' = pending \cup {t}
     \/ UNCHANGED pending
  /\ UNCHANGED <<link, mqttState, countSubs, task, acked>>

SubscribeDone ==
  /\ task = "subscribing"
  /\ todo = {}
  /\ task' = "running"
  /\ UNCHANGED <<link, mqttState, countSubs, todo, pending, acked>>

\* MQTT_EVENT_SUBSCRIBED: the answer is counted, whatever topic it is for.
Subscribed(t) ==
  /\ task = "running"
  /\ link
  /\ t \in pending
  /\ countSubs' = countSubs + 1
  /\ pending' = pending \ {t}
  /\ acked' = acked \cup {t}
  /\ UNCHANGED <<link, mqttState, task, todo>>

\* External: the client notices that the connection is gone.
LinkLost ==
  /\ link
  /\ link' = FALSE
  /\ UNCHANGED <<mqttState, countSubs, task, todo, pending, acked>>

\* Fault: the count survives the disconnection.
DisconnectedForgets ==
  /\ task = "running"
  /\ ~link
  /\ task' = "clearing"
  /\ UNCHANGED <<link, mqttState, countSubs, todo, pending, acked>>

\* Fault: the state is cleared before the count.
DisconnectedSwapped ==
  /\ task = "running"
  /\ ~link
  /\ mqttState' = FALSE
  /\ task' = "clearing"
  /\ UNCHANGED <<link, countSubs, todo, pending, acked>>

\* MQTT_EVENT_DISCONNECTED, first assignment ...
DisconnectedReset ==
  /\ task = "running"
  /\ ~link
  /\ countSubs' = 0
  /\ task' = "clearing"
  /\ UNCHANGED <<link, mqttState, todo, pending, acked>>

\* ... and second assignment.
DisconnectedClear ==
  /\ task = "clearing"
  /\ mqttState' = FALSE
  /\ task' = "down"
  /\ UNCHANGED <<link, countSubs, todo, pending, acked>>

Handler ==
  \/ \E t \in Topics : Subscribe(t) \/ Subscribed(t)
  \/ SubscribeDone
  \/ DisconnectedReset
  \/ DisconnectedClear

Next ==
  \/ Connected
  \/ \E t \in Topics : Subscribe(t)
  \/ SubscribeDone
  \/ \E t \in Topics : Subscribed(t)
  \/ LinkLost
  \/ DisconnectedReset
  \/ DisconnectedClear

Spec == Init /\ [][Next]_vars

\* The client's task keeps running, and a broker that stays connected answers
\* what it is asked.
FairSpec == Spec /\ WF_vars(Handler)

-----------------------------------------------------------------------------
\* Types, with the bound the gate's equality test depends on: the count never
\* passes the number of topics.
TypeOK ==
  /\ link \in BOOLEAN
  /\ mqttState \in BOOLEAN
  /\ countSubs \in 0 .. Cardinality(Topics)
  /\ task \in Tasks
  /\ todo \in SUBSET Topics
  /\ pending \in SUBSET Topics
  /\ acked \in SUBSET Topics

\* An open gate means that every topic's subscription has been answered in this
\* very session; answers of an earlier session never count towards it.
GateMeansSubscribed ==
  gate => acked = Topics

\* The handler moves its two globals in an order in which the count is never above
\* zero without the state: a publisher that reads them one after the other, with
\* the handler in between, still gets an answer that was true at one of its reads.
CountNeedsState ==
  countSubs # 0 => mqttState

\* The handler implements the gate the publishing tasks are modelled against:
\* the gate opens only on a live session, never closes under one, and a session
\* never starts with the gate still open.
Promise == INSTANCE MqttGate WITH link <- link, gate <- gate
ImplementsGate == Promise!GateSpec

\* Every topic of this session is subscribed, asked for, or about to be.
Complete == todo \cup pending \cup acked = Topics

\* When the connection stays, and no subscribe call of its session has failed,
\* publishing is eventually enabled for good, whatever earlier sessions left.
GateOpens == <>[](link /\ Complete) => <>[]gate
=============================================================================
