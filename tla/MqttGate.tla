------------------------------ MODULE MqttGate ------------------------------
(***************************************************************************)
(* What the MQTT side promises to the tasks that publish.  Every publisher *)
(* asks one question before it publishes or falls back to flash:           *)
(*    countSubsripcitionEvents == NUM_OF_TOPICS && GET_STATE(MQTT)         *)
(* The answer is the gate.  The client's own view of its connection is the *)
(* link: esp_mqtt_client_publish discards a message while the client is    *)
(* disconnected (CONFIG_MQTT_SKIP_PUBLISH_IF_DISCONNECTED).  MqttSession,  *)
(* the event handler of main/mqtt.h, implements this module.               *)
(***************************************************************************)

VARIABLES
  link,   \* the MQTT client is connected
  gate    \* the publishers' condition

gateVars == <<link, gate>>

GateInit == link = FALSE /\ gate = FALSE

\* A session starts with the gate closed: the last one has been cleared away.
LinkUp == ~link /\ ~gate /\ link' = TRUE /\ UNCHANGED gate

\* The last subscription is answered.
GateOpen == link /\ ~gate /\ gate' = TRUE /\ UNCHANGED link

\* The connection fails; publishers still see an open gate for a while.
LinkDown == link /\ link' = FALSE /\ UNCHANGED gate

\* The disconnection is handled.
GateClose == ~link /\ gate /\ gate' = FALSE /\ UNCHANGED link

GateNext == LinkUp \/ GateOpen \/ LinkDown \/ GateClose

GateSpec == GateInit /\ [][GateNext]_gateVars
=============================================================================
