------------------------------ MODULE MCSweepCells ------------------------------
(* A head and a batch, one step line a child, and a second sweep over the first, of the   *)
(* same engine or of another: the API from two checkouts, a CLI that named its model, and *)
(* one whose default was another model without a price.                                   *)
EXTENDS Report

Engine(brain, configured, answered, priced, prompt) ==
  [brain |-> brain, configured |-> configured, answered |-> answered, priced |-> priced, prompt |-> prompt]

MCEngines == {Engine("api", {}, {}, TRUE, "p"), Engine("api", {}, {}, TRUE, "q"),
              Engine("codex", {"m"}, {"m"}, TRUE, "p"), Engine("codex", {}, {"n"}, FALSE, "p")}
=============================================================================
