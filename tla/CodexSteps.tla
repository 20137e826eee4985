------------------------------ MODULE CodexSteps ------------------------------
(***************************************************************************)
(* `codex exec --json` read as trace steps (brains/codex_events.py), and   *)
(* what the driver adds to a step when it writes it: the usage of the run  *)
(* settled on the last step, and a price when the settings hold one        *)
(* (brains/driver.py, brains/pricing.py).  Both are functions: of the      *)
(* stepper and an event, of the driver's sums and a step.                  *)
(*                                                                         *)
(* An event is [kind, ...]; an item is its type, its id, and for a call    *)
(* the tool, whether it carries an error message and what its payload      *)
(* says: "yes" or "no" to accepted, "other", or "empty" for no text.       *)
(***************************************************************************)
EXTENDS TraceLines, FiniteSets

CONSTANTS MaxTurns   \* cfg.max_turns

ASSUME TurnsAssumption == MaxTurns \in Nat \ {0}

Keys == {"input", "cache_read", "cache_write", "output"}
Smaller(a, b) == IF a < b THEN a ELSE b
Larger(a, b) == IF a > b THEN a ELSE b

\* usage_of: the three input counts partition what codex called input
UsageOf(raw) ==
  LET cached == Smaller(raw.cached_input_tokens, raw.input_tokens)
      written == Smaller(raw.cache_write_input_tokens, raw.input_tokens - cached)
  IN [input |-> raw.input_tokens - cached - written, cache_read |-> cached,
      cache_write |-> written, output |-> raw.output_tokens]

CallItems == {"command_execution", "mcp_tool_call", "file_change"}
TextItems == {"reasoning", "agent_message"}

\* piece and _mcp: the name in the trace and what the result says.  A failed
\* transport is a refusal for the verifier's own tool only.
NameOf(item) ==
  IF item.type = "command_execution" THEN "shell"
  ELSE IF item.type = "file_change" THEN "file_change" ELSE item.tool
SaysOf(item) ==
  IF item.type = "file_change" THEN "no"
  ELSE IF item.type = "command_execution" THEN "other"
  ELSE IF item.says # "empty" THEN item.says
  ELSE IF item.error /\ item.tool = "submit_record" THEN "no" ELSE "other"

OpenStep == [calls |-> <<>>, results |-> <<>>, usage |-> NoUsage, hashed |-> FALSE,
             stop_reason |-> "end_turn"]
NewStepper == [open |-> {}, steps |-> 0, tool_calls |-> 0, submits |-> 0, totals |-> {},
               stop |-> "none"]
Halted(s, why) == IF s.stop = "none" THEN [s EXCEPT !.stop = why] ELSE s

\* _begin: an item goes into the open step unless that step has its call
Joins(s) == \E step \in s.open : step.calls = <<>>
Begun(s) ==
  IF Joins(s) THEN s
  ELSE LET next == [s EXCEPT !.open = {OpenStep}, !.steps = @ + 1]
       IN IF next.steps > MaxTurns THEN Halted(next, "budget_exhausted") ELSE next
Finished(s) == IF Joins(s) THEN {} ELSE s.open

\* _buy: a call no budget can pay for is on no line
Affordable(s, name, cell) ==
  s.tool_calls < cell.tools /\ (name = "submit_record" => s.submits < cell.submits)
Refused(s, cell) ==
  Halted(s, IF s.tool_calls >= cell.tools THEN "budget_exhausted" ELSE "max_submits")
Bought(s, item) ==
  [s EXCEPT !.tool_calls = @ + 1,
            !.submits = IF NameOf(item) = "submit_record" THEN @ + 1 ELSE @,
            !.open = {[step EXCEPT !.calls = Append(@, Call(item.id, NameOf(item))),
                                   !.results = Append(@, Answer(item.id, SaysOf(item))),
                                   !.stop_reason = "tool_use"] : step \in @}]

Absorbed(s, item, cell) ==
  IF item.type \in TextItems THEN s
  ELSE IF Affordable(s, NameOf(item), cell) THEN Bought(s, item) ELSE Refused(s, cell)

\* Mutant: a turn's usage replaces the usage of the turns before it.
TotalsLast(s, raw) == {UsageOf(raw)}

\* turn.completed: a turn's usage is that turn's, not the run's
Totals(s, raw) ==
  LET fresh == UsageOf(raw)
  IN IF s.totals = {} THEN {fresh}
     ELSE {[key \in Keys |-> seen[key] + fresh[key]] : seen \in s.totals}

\* feed: the stepper after an event, and the step the event finished
Fed(s, event, cell) ==
  IF event.kind = "turn.completed" THEN [s EXCEPT !.totals = Totals(s, event.usage)]
  ELSE IF event.kind = "turn.failed" THEN Halted(s, "api_error")
  ELSE IF event.item.type \in CallItems \cup TextItems THEN Absorbed(Begun(s), event.item, cell)
  ELSE s
Closes(s, event) ==
  IF event.kind = "item" /\ event.item.type \in CallItems \cup TextItems THEN Finished(s) ELSE {}
-----------------------------------------------------------------------------
(* The driver writing a step *)

NewSums == [written |-> 0, rejected |-> 0, spent |-> NoUsage, cum |-> 0]

\* _usage: the totals of the run, less what earlier steps declared, on the last step
Settled(sums, step, totals) ==
  [key \in Keys |->
     step.usage[key] + (IF totals = {} THEN 0
                        ELSE LET total == CHOOSE t \in totals : TRUE
                             IN Larger(0, total[key] - sums.spent[key] - step.usage[key]))]

\* codex_estimate; a model without a price costs nothing and is called unpriced
Estimate(usage, prices) ==
  IF prices = {} THEN 0
  ELSE LET price == CHOOSE p \in prices : TRUE
       IN usage["input"] * price.input + usage["cache_read"] * price.cached
          + usage["cache_write"] * price.input + usage["output"] * price.output

\* _rejected_submits
RejectedOn(step) ==
  Cardinality({k \in DOMAIN step.results :
     /\ step.results[k].says = "no"
     /\ \E j \in DOMAIN step.calls : /\ step.calls[j].id = step.results[k].call
                                     /\ step.calls[j].name = "submit_record"})

\* _write: the sums after a step, and its line
Summed(sums, step, totals, prices) ==
  LET usage == Settled(sums, step, totals)
  IN [written |-> sums.written + 1,
      rejected |-> sums.rejected + RejectedOn(step),
      spent |-> [key \in Keys |-> sums.spent[key] + usage[key]],
      cum |-> sums.cum + Estimate(usage, prices)]
Written(sums, step, totals, prices) ==
  LET usage == Settled(sums, step, totals)
  IN StepLine(sums.written + 1, [step EXCEPT !.usage = usage], Estimate(usage, prices),
              sums.cum + Estimate(usage, prices))
=============================================================================
