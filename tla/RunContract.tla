----------------------------- MODULE RunContract -----------------------------
(***************************************************************************)
(* What one run promises the reader of its trace and of its output folder, *)
(* whichever brain drove it: step lines, then at most one checkpoint, then *)
(* one run_end, and a record published only when the submit handler took   *)
(* it and, where there is a gate, the gate let it through.                 *)
(***************************************************************************)
EXTENDS Naturals

VARIABLES gated,      \* the arm has a gate
          lines,      \* step lines in the trace
          signed,     \* the submit handler accepted a record
          gate,       \* the checkpoint line
          published,  \* what is in the output folder
          outcome     \* run_end.stop_condition, "none" while the run is open

vars == <<gated, lines, signed, gate, published, outcome>>

Init == /\ gated \in BOOLEAN
        /\ lines = 0
        /\ signed = FALSE
        /\ gate = "none"
        /\ published = "nothing"
        /\ outcome = "none"

Open == outcome = "none"

StepLine == /\ Open /\ gate = "none"
            /\ lines' = lines + 1
            /\ UNCHANGED <<gated, signed, gate, published, outcome>>

AcceptRecord == /\ Open /\ gate = "none"
                /\ signed' = TRUE
                /\ UNCHANGED <<gated, lines, gate, published, outcome>>

Checkpoint(decision) == /\ Open /\ gated /\ signed /\ gate = "none"
                        /\ gate' = decision
                        /\ UNCHANGED <<gated, lines, signed, published, outcome>>

Cleared == signed /\ (gated => gate = "approved")

\* Endings that follow the gate, and the one that may come at any point.
Publish(why) ==
  \/ why = "accepted" /\ Cleared /\ published' = "documents"
  \/ why \in {"render_failed", "api_error"} /\ Cleared /\ published' = "json"
  \/ why = "api_error" /\ Cleared /\ published' = "documents"
  \/ why = "gate_rejected" /\ gate = "rejected" /\ published' = "draft"
  \/ why = "api_error" /\ UNCHANGED published

\* A run may end before the gate with the step line of its last turn.
GiveUp(why) == /\ gate = "none"
               /\ why \in {"budget_exhausted", "max_submits", "max_tokens", "no_submission",
                           "replay_miss", "refusal", "timeout", "api_error"}
               /\ lines' \in {lines, lines + 1}
               /\ UNCHANGED published

End(why) == /\ Open
            /\ outcome' = why
            /\ \/ Publish(why) /\ UNCHANGED lines
               \/ GiveUp(why)
            /\ UNCHANGED <<gated, signed, gate>>

Endings == {"accepted", "gate_rejected", "budget_exhausted", "max_submits", "max_tokens",
            "no_submission", "replay_miss", "render_failed", "api_error", "refusal", "timeout"}

Next == \/ StepLine
        \/ AcceptRecord
        \/ \E decision \in {"approved", "rejected"} : Checkpoint(decision)
        \/ \E why \in Endings : End(why)

Spec == Init /\ [][Next]_vars
=============================================================================
