------------------------------ MODULE TraceLines ------------------------------
(***************************************************************************)
(* The four lines of a trace as art30/trace.py writes them, in the fields  *)
(* the validator, the report or the parent of a sweep reads.  Times, ids   *)
(* of the run and texts are left out.                                      *)
(***************************************************************************)
EXTENDS Integers, Sequences

CleanNote == [truncat |-> FALSE, counts |-> 0]
NoUsage == [input |-> 0, cache_read |-> 0, cache_write |-> 0, output |-> 0]

\* cell: what the run was started with, the overrides its settings declare included
RunStart(cell) ==
  [type |-> "run_start", arm |-> cell.arm, case |-> cell.case, kind |-> cell.kind,
   mode |-> "live", brain |-> cell.brain, model |-> cell.model,
   tool_budget |-> cell.tools, submit_budget |-> cell.submits, overridden |-> cell.overridden]

\* body: the calls, results, usage, hash and stop_reason of the turn
StepLine(n, body, cost, cum) ==
  [type |-> "step", step |-> n, calls |-> body.calls, results |-> body.results,
   usage |-> body.usage, hashed |-> body.hashed, stop_reason |-> body.stop_reason,
   cost |-> cost, cum |-> cum]

Checkpoint(decision) ==
  [type |-> "checkpoint", caller |-> "harness", risk |-> decision.risk,
   decision |-> decision.verdict, by |-> decision.by, filled |-> decision.filled]

RunEnd(stop, totals, cites, note) ==
  [type |-> "run_end", stop |-> stop, steps |-> totals.steps, calls |-> totals.calls,
   submits |-> totals.submits, rounds |-> totals.rounds, cost |-> totals.cost,
   cites |-> cites, note |-> note]

\* A call and its result; "says" is the accepted field of the payload, or "other".
Call(id, name) == [id |-> id, name |-> name]
Answer(id, says) == [call |-> id, says |-> says]
=============================================================================
