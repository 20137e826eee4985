------------------------------- MODULE MCWebRun -------------------------------
(* Two pages on one run: a step line, a gate and a run_end, over one restart. *)
EXTENDS WebRun
=============================================================================
