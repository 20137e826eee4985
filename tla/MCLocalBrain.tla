----------------------------- MODULE MCLocalBrain -----------------------------
(* LocalBrain with budgets a stream of a few lines uses up, and one server lost. *)
EXTENDS LocalBrain

BothArms == {"baseline", "advanced"}
=============================================================================
