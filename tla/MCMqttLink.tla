----------------------------- MODULE MCMqttLink -----------------------------
(* The two command topics of a worker. *)
EXTENDS MqttLink

TaskAndControl == <<"task", "control">>
=============================================================================
