------------------------------- MODULE MCMqtt -------------------------------
(* A small instance of MqttClient for TLC. *)
EXTENDS MqttClient

(* all the client offers; the application itself only subscribes *)
MCAll == {"subscribe", "unsubscribe"}
=============================================================================
