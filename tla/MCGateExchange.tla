---------------------------- MODULE MCGateExchange ----------------------------
(* Two POSTs that overlap on the website, two hands and three runs in one CLI folder. *)
EXTENDS GateExchange
=============================================================================
