------------------------- MODULE MqttSessionProofs -------------------------
(***************************************************************************)
(* For every finite set of topics, and whichever subscribe calls fail,     *)
(* MqttSession keeps its invariants and implements MqttGate.  The          *)
(* argument is that the count is, at any time of a session, the number of  *)
(* topics answered in it, and is zero while there is no session.           *)
(***************************************************************************)
EXTENDS MqttSession, FiniteSetTheorems, TLAPS

\* No topic is waited for and answered, or waited for and not yet asked for.
Disjoint ==
  /\ pending \cap acked = {}
  /\ todo \cap (pending \cup acked) = {}

CountIsAcked ==
  /\ task \in {"subscribing", "running"} => countSubs = Cardinality(acked)
  /\ task \in {"subscribing", "running"} => mqttState
  /\ task \in {"clearing", "down"} => countSubs = 0 /\ ~link
  /\ task = "down" => ~mqttState

IInv == TypeOK /\ Disjoint /\ CountIsAcked

-----------------------------------------------------------------------------
LEMMA TopicsFinite ==
  ASSUME NEW S \in SUBSET Topics
  PROVE  /\ IsFiniteSet(S)
         /\ Cardinality(S) \in 0 .. Cardinality(Topics)
         /\ Cardinality(S) = Cardinality(Topics) => S = Topics
<1>1. IsFiniteSet(Topics) /\ Cardinality(Topics) \in Nat
  BY MqttSessionAssumption, FS_CardinalityType
<1>2. IsFiniteSet(S) /\ Cardinality(S) <= Cardinality(Topics)
      /\ (Cardinality(S) = Cardinality(Topics) => S = Topics)
  BY <1>1, FS_Subset
<1>3. Cardinality(S) \in Nat
  BY <1>2, FS_CardinalityType
<1> QED BY <1>1, <1>2, <1>3

LEMMA SomeTopics == Cardinality(Topics) \in Nat /\ Cardinality(Topics) # 0
BY MqttSessionAssumption, FS_CardinalityType, FS_EmptySet

LEMMA Initially == Init => IInv
<1> SUFFICES ASSUME Init PROVE IInv
  OBVIOUS
<1>1. TypeOK
  <2>1. link \in BOOLEAN /\ mqttState \in BOOLEAN
    BY Zenon DEF Init
  <2> QED BY <2>1, SomeTopics DEF Init, TypeOK, Tasks
<1>2. Disjoint
  BY DEF Init, Disjoint
<1>3. CountIsAcked
  BY DEF Init, CountIsAcked
<1> QED BY <1>1, <1>2, <1>3 DEF IInv

LEMMA ConnectedKeepsIInv ==
  ASSUME IInv, Connected
  PROVE  IInv'
BY FS_EmptySet DEF IInv, TypeOK, Disjoint, CountIsAcked, Tasks, Connected

LEMMA SubscribedKeepsIInv ==
  ASSUME IInv, NEW t \in Topics, Subscribed(t)
  PROVE  IInv'
<1>1. /\ task = "running" /\ t \in pending /\ t \notin acked
      /\ countSubs' = countSubs + 1
      /\ pending' = pending \ {t} /\ acked' = acked \cup {t}
      /\ UNCHANGED <<link, mqttState, task, todo>>
  BY DEF Subscribed, IInv, Disjoint
<1>2. IsFiniteSet(acked) /\ acked' \in SUBSET Topics
  BY <1>1, TopicsFinite DEF IInv, TypeOK
<1>3. Cardinality(acked') = Cardinality(acked) + 1
  BY <1>1, <1>2, FS_AddElement
<1>4. countSubs' = Cardinality(acked')
  BY <1>1, <1>3 DEF IInv, CountIsAcked
<1>5. countSubs' \in 0 .. Cardinality(Topics)
  BY <1>2, <1>4, TopicsFinite
<1> QED BY <1>1, <1>2, <1>4, <1>5 DEF IInv, TypeOK, Disjoint, CountIsAcked, Tasks

LEMMA Inductive == IInv /\ [Next]_vars => IInv'
<1> SUFFICES ASSUME IInv, [Next]_vars PROVE IInv'
  OBVIOUS
<1>1. CASE UNCHANGED vars
  BY <1>1 DEF vars, IInv, TypeOK, Disjoint, CountIsAcked, Tasks
<1>2. CASE Connected
  BY <1>2, ConnectedKeepsIInv
<1>3. ASSUME NEW t \in Topics, Subscribe(t) PROVE IInv'
  BY <1>3 DEF Subscribe, IInv, TypeOK, Disjoint, CountIsAcked, Tasks
<1>4. CASE SubscribeDone
  BY <1>4 DEF SubscribeDone, IInv, TypeOK, Disjoint, CountIsAcked, Tasks
<1>5. ASSUME NEW t \in Topics, Subscribed(t) PROVE IInv'
  BY <1>5, SubscribedKeepsIInv
<1>6. CASE LinkLost
  BY <1>6 DEF LinkLost, IInv, TypeOK, Disjoint, CountIsAcked, Tasks
<1>7. CASE DisconnectedReset
  BY <1>7, SomeTopics DEF DisconnectedReset, IInv, TypeOK, Disjoint, CountIsAcked, Tasks
<1>8. CASE DisconnectedClear
  BY <1>8 DEF DisconnectedClear, IInv, TypeOK, Disjoint, CountIsAcked, Tasks
<1> QED BY <1>1, <1>2, <1>3, <1>4, <1>5, <1>6, <1>7, <1>8 DEF Next

LEMMA Invariance == Spec => []IInv
BY Initially, Inductive, PTL DEF Spec

\* The count of answered subscriptions never passes the number of topics, so the
\* publishers' equality test is not jumped over.
THEOREM TypeCorrectness == Spec => []TypeOK
BY Invariance, PTL DEF IInv

LEMMA OpenGateIsSubscribed == IInv => GateMeansSubscribed
<1> SUFFICES ASSUME IInv, gate PROVE acked = Topics
  BY DEF GateMeansSubscribed
<1>1. countSubs = Cardinality(Topics) /\ task \in Tasks
  BY DEF gate, NUM_OF_TOPICS, IInv, TypeOK
<1>2. countSubs # 0
  BY <1>1, SomeTopics
<1>3. countSubs = Cardinality(acked)
  BY <1>1, <1>2 DEF IInv, CountIsAcked, Tasks
<1> QED BY <1>1, <1>3, TopicsFinite DEF IInv, TypeOK

\* An open gate means that this session's subscriptions are all answered.
THEOREM OpenGate == Spec => []GateMeansSubscribed
BY Invariance, OpenGateIsSubscribed, PTL

\* The order of the handler's assignments makes the publishers' two reads as good
\* as one.
THEOREM StateBeforeCount == Spec => []CountNeedsState
<1>1. IInv => CountNeedsState
  BY DEF IInv, TypeOK, CountIsAcked, Tasks, CountNeedsState
<1> QED BY <1>1, Invariance, PTL

-----------------------------------------------------------------------------
(* The refinement. *)

LEMMA InitRefines == Init => Promise!GateInit
BY SomeTopics DEF Init, Promise!GateInit, gate, NUM_OF_TOPICS

\* Outside a session, and while its disconnection is handled, the gate is closed.
LEMMA ClosedOutside ==
  ASSUME IInv, countSubs = 0
  PROVE  ~gate
BY SomeTopics DEF gate, NUM_OF_TOPICS

LEMMA StepRefines == IInv /\ [Next]_vars => [Promise!GateNext]_(Promise!gateVars)
<1> SUFFICES ASSUME IInv, [Next]_vars PROVE [Promise!GateNext]_(Promise!gateVars)
  OBVIOUS
<1> USE DEF Promise!GateNext, Promise!gateVars
<1>1. CASE UNCHANGED <<link, mqttState, countSubs>>
  BY <1>1 DEF gate
<1>2. CASE Connected
  <2>1. ~link /\ countSubs = 0 /\ countSubs' = 0 /\ link'
    BY <1>2 DEF Connected, IInv, CountIsAcked
  <2>2. gate = FALSE /\ gate' = FALSE
    BY <2>1, SomeTopics DEF gate, NUM_OF_TOPICS
  <2> QED BY <1>2, <2>1, <2>2 DEF Promise!LinkUp, Connected
<1>3. ASSUME NEW t \in Topics, Subscribed(t) PROVE [Promise!GateNext]_(Promise!gateVars)
  <2>1. /\ link /\ UNCHANGED link /\ UNCHANGED mqttState
        /\ countSubs' = countSubs + 1 /\ countSubs' \in 0 .. Cardinality(Topics)
        /\ countSubs \in Nat
    BY <1>3, SubscribedKeepsIInv, SomeTopics DEF Subscribed, IInv, TypeOK
  <2>2. gate = FALSE
    BY <2>1, SomeTopics DEF gate, NUM_OF_TOPICS
  <2>3. gate' = TRUE \/ gate' = FALSE
    BY DEF gate
  <2> QED BY <2>1, <2>2, <2>3 DEF Promise!GateOpen
<1>4. CASE LinkLost
  BY <1>4 DEF LinkLost, Promise!LinkDown, gate
<1>5. CASE DisconnectedReset
  <2>1. ~link /\ UNCHANGED link /\ countSubs' = 0
    BY <1>5 DEF DisconnectedReset
  <2>2. gate' = FALSE
    BY <2>1, SomeTopics DEF gate, NUM_OF_TOPICS
  <2>3. gate = TRUE \/ gate = FALSE
    BY DEF gate
  <2> QED BY <2>1, <2>2, <2>3 DEF Promise!GateClose
<1>6. CASE DisconnectedClear
  <2>1. UNCHANGED link /\ countSubs = 0 /\ countSubs' = 0
    BY <1>6 DEF DisconnectedClear, IInv, CountIsAcked
  <2>2. gate = FALSE /\ gate' = FALSE
    BY <2>1, SomeTopics DEF gate, NUM_OF_TOPICS
  <2> QED BY <2>1, <2>2
<1> QED BY <1>1, <1>2, <1>3, <1>4, <1>5, <1>6
        DEF Next, vars, Subscribe, SubscribeDone

\* mqtt_event_handler_cb implements the gate: whatever order its assignments and
\* the publishers' tests interleave in, the publishers see MqttGate.
THEOREM Refinement == Spec => ImplementsGate
BY InitRefines, StepRefines, Invariance, PTL DEF Spec, ImplementsGate, Promise!GateSpec
=============================================================================
