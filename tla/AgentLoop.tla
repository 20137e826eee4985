------------------------------ MODULE AgentLoop ------------------------------
(***************************************************************************)
(* The step loop of the API brain (art30/loop.py): one run of one arm over *)
(* one case.  A turn is a request to the model; a turn with tool calls is  *)
(* a batch that is paid for call by call, and one of those calls may hand  *)
(* a record to the arm's submit handler.  Every way out writes run_end.    *)
(*                                                                         *)
(* Data is abstracted to what the trace contract and the stop conditions   *)
(* tell apart: a call is read, submit or malformed, a response is its stop *)
(* reason, the money spent is whether the ceiling has been crossed, and    *)
(* the JSONL file is the totals the validator reads off its lines.         *)
(***************************************************************************)
EXTENDS Integers, Sequences

CONSTANTS ToolBudget,   \* cfg.tool_budget
          MaxSubmits,   \* cfg.max_submits
          MaxNudges,    \* the literal 2 of _run
          MaxBatch,     \* bound of the model: tool calls in one response
          Arms,         \* the arms a run may be started with
          UsdCeiling    \* whether cfg.max_usd is set

ASSUME LoopAssumption == /\ ToolBudget \in Nat
                         /\ MaxSubmits \in Nat \ {0}
                         /\ MaxNudges \in Nat
                         /\ MaxBatch \in Nat \ {0}
                         /\ Arms \subseteq {"baseline", "advanced"}
                         /\ UsdCeiling \in BOOLEAN

VARIABLES
  arm,            \* arm.name: the loop never reads it, its gate differs
  pc,             \* where _run stands
  step,           \* the turn number of _run
  nudges,         \* quiet turns in a row
  tool_calls,     \* ctx.tool_calls
  submits,        \* ctx.submits
  verify_rounds,  \* ctx.verify_rounds
  billed,         \* turns whose cost is in ctx.cost_cum_usd
  overspent,      \* ctx.cost_cum_usd >= cfg.max_usd
  accepted,       \* ctx.accepted is a record
  steps,          \* state["steps"]: step lines known to be in the file
  pending,        \* state["pending"]: the batch in flight
  submitted,      \* this turn already handled a submit_record
  file,           \* the trace, as the totals of its lines
  disk,           \* what the run left in cfg.out_dir
  stop            \* run_end.stop_condition, "none" before it is written

vars == <<arm, pc, step, nudges, tool_calls, submits, verify_rounds, billed,
          overspent, accepted, steps, pending, submitted, file, disk, stop>>

CallKinds == {"read", "submit", "malformed"}   \* malformed: a submit with no "record"
SubmitKinds == {"submit", "malformed"}
Batches == UNION {[1..n -> CallKinds] : n \in 1..MaxBatch}

NoPending == [live |-> FALSE, step |-> 0, calls |-> <<>>, taken |-> 0,
              answered |-> 0, submitCalls |-> 0, seconds |-> 0, rejected |-> 0]

StopConditions == {"accepted", "gate_rejected", "budget_exhausted", "max_submits",
                   "max_tokens", "no_submission", "replay_miss", "render_failed",
                   "api_error", "refusal"}

PcStates == {"turn", "batch", "handler", "gate", "draft", "render", "done"}

PendingType == [live: BOOLEAN, step: Nat, calls: Batches \cup {<<>>}, taken: Nat,
                answered: Nat, submitCalls: Nat, seconds: Nat, rejected: Nat]

FileType == [steps: Nat, last: Nat, calls: Nat, submitCalls: Nat, seconds: Nat,
             rejections: Nat, owedBefore: Nat, owedLast: Nat, approvals: Nat,
             refusals: Nat, ends: Nat]

\* What every variable of the loop ranges over, the totals of the trace included.
TypeOK ==
  /\ arm \in Arms
  /\ pc \in PcStates
  /\ step \in Nat /\ nudges \in Nat
  /\ tool_calls \in Nat /\ submits \in Nat /\ verify_rounds \in Nat
  /\ billed \in Nat /\ steps \in Nat
  /\ overspent \in BOOLEAN /\ accepted \in BOOLEAN /\ submitted \in BOOLEAN
  /\ pending \in PendingType
  /\ file \in FileType
  /\ disk \in {"nothing", "draft", "json", "documents"}
  /\ stop \in StopConditions \cup {"none"}

-----------------------------------------------------------------------------
(* The writer.  file.calls counts tool_calls entries, submitCalls those    *)
(* named submit_record, rejections the accepted:false results on them,     *)
(* seconds those refused with SECOND_SUBMIT, owedLast the calls of the     *)
(* last step without a result and owedBefore those of the steps before it. *)

EmptyFile == [steps |-> 0, last |-> 0, calls |-> 0, submitCalls |-> 0, seconds |-> 0,
              rejections |-> 0, owedBefore |-> 0, owedLast |-> 0, approvals |-> 0,
              refusals |-> 0, ends |-> 0]

\* _trace_step: the step line of batch p
WithStep(f, p) ==
  [steps |-> f.steps + 1,
   last |-> p.step,
   calls |-> f.calls + p.taken,
   submitCalls |-> f.submitCalls + p.submitCalls,
   seconds |-> f.seconds + p.seconds,
   rejections |-> f.rejections + p.rejected,
   owedBefore |-> f.owedBefore + f.owedLast,
   owedLast |-> p.taken - p.answered,
   approvals |-> f.approvals, refusals |-> f.refusals, ends |-> f.ends]

WithEnd(f) == [f EXCEPT !.ends = @ + 1]

\* _flush: write the batch still in flight, if there is one
FlushedFile == IF pending.live THEN WithStep(file, pending) ELSE file
FlushedSteps == IF pending.live THEN pending.step ELSE steps

\* A turn that called no tool is a step line with nothing in it.
QuietLine(n) == [NoPending EXCEPT !.step = n]

\* Mutant: the exit forgets the batch in flight.
StopUnflushed(why) ==
  /\ file' = WithEnd(file)
  /\ steps' = steps
  /\ pending' = NoPending
  /\ stop' = why
  /\ pc' = "done"

\* _flush, then _stop
FlushAndStop(why) ==
  /\ file' = WithEnd(FlushedFile)
  /\ steps' = FlushedSteps
  /\ pending' = NoPending
  /\ stop' = why
  /\ pc' = "done"

Init ==
  /\ arm \in Arms
  /\ pc = "turn"
  /\ step = 0 /\ nudges = 0
  /\ tool_calls = 0 /\ submits = 0 /\ verify_rounds = 0
  /\ billed = 0 /\ steps = 0
  /\ overspent = FALSE /\ accepted = FALSE /\ submitted = FALSE
  /\ pending = NoPending
  /\ file = EmptyFile
  /\ disk = "nothing"
  /\ stop = "none"

-----------------------------------------------------------------------------
(* A turn *)

counters == <<tool_calls, submits, verify_rounds>>

\* llm.call raised: LlmError, ReplayMiss, or anything else run() catches.
CallFails(why) ==
  /\ pc = "turn"
  /\ step' = step + 1
  /\ FlushAndStop(why)
  /\ UNCHANGED <<arm, nudges, counters, billed, overspent, accepted, submitted, disk>>

\* Every answered turn is paid for before it is looked at.
Bill ==
  /\ pc = "turn"
  /\ step' = step + 1
  /\ billed' = billed + 1
  /\ overspent' \in {overspent, UsdCeiling}

\* refusal, max_tokens, context window, pause_turn: traced, then stopped.
EarlyStop(why) ==
  /\ Bill
  /\ file' = WithEnd(WithStep(file, QuietLine(step')))
  /\ steps' = step'
  /\ stop' = why
  /\ pc' = "done"
  /\ UNCHANGED <<arm, nudges, counters, accepted, pending, submitted, disk>>

\* A turn without a tool call: nudged, or the third in a row ends the run.
QuietTurn ==
  /\ Bill
  /\ nudges' = nudges + 1
  /\ steps' = step'
  /\ \/ /\ nudges' > MaxNudges
        /\ file' = WithEnd(WithStep(file, QuietLine(step')))
        /\ stop' = "no_submission"
        /\ pc' = "done"
     \/ /\ nudges' <= MaxNudges
        /\ file' = WithStep(file, QuietLine(step'))
        /\ UNCHANGED <<pc, stop>>
  /\ UNCHANGED <<arm, counters, accepted, pending, submitted, disk>>

ToolTurn(calls) ==
  /\ Bill
  /\ nudges' = 0
  /\ submitted' = FALSE
  /\ pending' = [NoPending EXCEPT !.live = TRUE, !.step = step', !.calls = calls]
  /\ pc' = "batch"
  /\ UNCHANGED <<arm, counters, accepted, steps, file, disk, stop>>

-----------------------------------------------------------------------------
(* The batch *)

MoreCalls == pc = "batch" /\ pending.taken < Len(pending.calls)
NextCall == pending.calls[pending.taken + 1]
Unaffordable == tool_calls >= ToolBudget \/ (UsdCeiling /\ overspent)

\* Mutant: the cost ceiling refuses the call and never ends the run.
BudgetExhaustedByCalls ==
  /\ MoreCalls
  /\ tool_calls >= ToolBudget
  /\ FlushAndStop("budget_exhausted")
  /\ UNCHANGED <<arm, step, nudges, counters, billed, overspent, accepted, submitted, disk>>

BudgetExhausted ==
  /\ MoreCalls
  /\ Unaffordable
  /\ FlushAndStop("budget_exhausted")
  /\ UNCHANGED <<arm, step, nudges, counters, billed, overspent, accepted, submitted, disk>>

\* Mutant: an error result is not appended.
DispatchUnanswered ==
  /\ MoreCalls /\ ~Unaffordable
  /\ NextCall = "read"
  /\ tool_calls' = tool_calls + 1
  /\ \E ok \in {0, 1} : pending' = [pending EXCEPT !.taken = @ + 1, !.answered = @ + ok]
  /\ UNCHANGED <<arm, pc, step, nudges, submits, verify_rounds, billed, overspent,
                 accepted, steps, submitted, file, disk, stop>>

\* tools.dispatch never raises: an error is a result.
Dispatch ==
  /\ MoreCalls /\ ~Unaffordable
  /\ NextCall = "read"
  /\ tool_calls' = tool_calls + 1
  /\ pending' = [pending EXCEPT !.taken = @ + 1, !.answered = @ + 1]
  /\ UNCHANGED <<arm, pc, step, nudges, submits, verify_rounds, billed, overspent,
                 accepted, steps, submitted, file, disk, stop>>

\* The second submit_record of a turn: answered accepted:false, not an attempt.
SecondSubmit ==
  /\ MoreCalls /\ ~Unaffordable
  /\ NextCall \in SubmitKinds
  /\ submitted
  /\ tool_calls' = tool_calls + 1
  /\ pending' = [pending EXCEPT !.taken = @ + 1, !.answered = @ + 1, !.submitCalls = @ + 1,
                                !.seconds = @ + 1, !.rejected = @ + 1]
  /\ UNCHANGED <<arm, pc, step, nudges, submits, verify_rounds, billed, overspent,
                 accepted, steps, submitted, file, disk, stop>>

\* The attempt is bought before the handler runs.
Submit ==
  /\ MoreCalls /\ ~Unaffordable
  /\ NextCall \in SubmitKinds
  /\ ~submitted
  /\ tool_calls' = tool_calls + 1
  /\ submits' = submits + 1
  /\ submitted' = TRUE
  /\ pending' = [pending EXCEPT !.taken = @ + 1, !.submitCalls = @ + 1]
  /\ pc' = "handler"
  /\ UNCHANGED <<arm, step, nudges, verify_rounds, billed, overspent, accepted, steps,
                 file, disk, stop>>

Submitted == pending.calls[pending.taken]

Accept ==
  /\ pc = "handler"
  /\ Submitted = "submit"
  /\ accepted' = TRUE
  /\ pending' = [pending EXCEPT !.answered = @ + 1]
  /\ pc' = "batch"
  /\ UNCHANGED <<arm, step, nudges, counters, billed, overspent, steps, submitted, file,
                 disk, stop>>

\* The view showed the verdict: a rejection at the last attempt flushes and stops, the rest of
\* the batch unread.
Reject ==
  /\ pc = "handler"
  /\ Submitted = "submit"
  /\ verify_rounds' = verify_rounds + 1
  /\ LET answered == [pending EXCEPT !.answered = @ + 1, !.rejected = @ + 1]
     IN \/ /\ submits >= MaxSubmits
           /\ file' = WithEnd(WithStep(file, answered))
           /\ steps' = pending.step
           /\ pending' = NoPending
           /\ stop' = "max_submits"
           /\ pc' = "done"
        \/ /\ submits < MaxSubmits
           /\ pending' = answered
           /\ pc' = "batch"
           /\ UNCHANGED <<file, steps, stop>>
  /\ UNCHANGED <<arm, step, nudges, tool_calls, submits, billed, overspent, accepted,
                 submitted, disk>>

\* The view raises over the verdict: a rejection is counted and answered, an acceptance is
\* answered and not yet the run's record, and the attempts are not looked at any more.
VerdictRaises ==
  /\ pc = "handler"
  /\ Submitted = "submit"
  /\ \E r \in {0, 1} :
       /\ verify_rounds' = verify_rounds + r
       /\ file' = WithEnd(WithStep(file, [pending EXCEPT !.answered = @ + 1, !.rejected = @ + r]))
  /\ steps' = pending.step
  /\ pending' = NoPending
  /\ stop' = "api_error"
  /\ pc' = "done"
  /\ UNCHANGED <<arm, step, nudges, tool_calls, submits, billed, overspent, accepted,
                 submitted, disk>>

\* A raise out of the batch: the handler, a record the call never carried, or
\* the terminal view over another call.  run() flushes the batch and stops with api_error.
BatchRaises ==
  /\ \/ pc = "handler"
     \/ pc = "batch" /\ pending.taken > 0
  /\ FlushAndStop("api_error")
  /\ UNCHANGED <<arm, step, nudges, counters, billed, overspent, accepted, submitted, disk>>

\* Mutant: any submit of the batch, accepted or not, goes to the gate.
EndBatchOnSubmit ==
  /\ pc = "batch"
  /\ pending.taken = Len(pending.calls)
  /\ file' = FlushedFile
  /\ steps' = FlushedSteps
  /\ pending' = NoPending
  /\ pc' = IF submitted THEN "gate" ELSE "turn"
  /\ UNCHANGED <<arm, step, nudges, counters, billed, overspent, accepted, submitted,
                 disk, stop>>

EndBatch ==
  /\ pc = "batch"
  /\ pending.taken = Len(pending.calls)
  /\ file' = FlushedFile
  /\ steps' = FlushedSteps
  /\ pending' = NoPending
  /\ pc' = IF accepted THEN "gate" ELSE "turn"
  /\ UNCHANGED <<arm, step, nudges, counters, billed, overspent, accepted, submitted,
                 disk, stop>>

-----------------------------------------------------------------------------
(* _finish *)

finishVars == <<arm, step, nudges, counters, billed, overspent, accepted, submitted>>

\* The baseline's gate returns None: no checkpoint line.
NoGate ==
  /\ pc = "gate" /\ arm = "baseline"
  /\ pc' = "render"
  /\ UNCHANGED <<finishVars, steps, pending, file, disk, stop>>

GateApproves ==
  /\ pc = "gate" /\ arm = "advanced"
  /\ file' = [file EXCEPT !.approvals = @ + 1]
  /\ pc' = "render"
  /\ UNCHANGED <<finishVars, steps, pending, disk, stop>>

\* Mutant: the verdict is traced and not obeyed.
GateRejectsIgnored ==
  /\ pc = "gate" /\ arm = "advanced"
  /\ file' = [file EXCEPT !.refusals = @ + 1]
  /\ pc' = "render"
  /\ UNCHANGED <<finishVars, steps, pending, disk, stop>>

\* The checkpoint line is in the file before the draft is tried.
GateRejects ==
  /\ pc = "gate" /\ arm = "advanced"
  /\ file' = [file EXCEPT !.refusals = @ + 1]
  /\ pc' = "draft"
  /\ UNCHANGED <<finishVars, steps, pending, disk, stop>>

Draft ==
  /\ pc = "draft"
  /\ \/ disk' = "draft" /\ stop' = "gate_rejected"
     \/ stop' = "api_error" /\ UNCHANGED disk
  /\ file' = WithEnd(file)
  /\ pc' = "done"
  /\ UNCHANGED <<finishVars, steps, pending>>

\* record.json first, then both documents are rendered, then both are written.
\* A RenderError keeps record.json; any other raise is api_error, before that
\* file exists, after it, or in the terminal view once the documents are there.
Render ==
  /\ pc = "render"
  /\ \/ disk' = "documents" /\ stop' \in {"accepted", "api_error"}
     \/ disk' = "json" /\ stop' \in {"render_failed", "api_error"}
     \/ stop' = "api_error" /\ UNCHANGED disk
  /\ file' = WithEnd(file)
  /\ pc' = "done"
  /\ UNCHANGED <<finishVars, steps, pending>>

GateRaises ==
  /\ pc = "gate" /\ arm = "advanced"
  /\ FlushAndStop("api_error")
  /\ UNCHANGED <<finishVars, disk>>

-----------------------------------------------------------------------------
Next ==
  \/ \E why \in {"api_error", "replay_miss"} : CallFails(why)
  \/ \E why \in {"refusal", "max_tokens", "api_error"} : EarlyStop(why)
  \/ QuietTurn
  \/ \E calls \in Batches : ToolTurn(calls)
  \/ BudgetExhausted
  \/ Dispatch
  \/ SecondSubmit
  \/ Submit
  \/ Accept
  \/ Reject
  \/ VerdictRaises
  \/ BatchRaises
  \/ EndBatch
  \/ NoGate
  \/ GateApproves
  \/ GateRejects
  \/ Draft
  \/ GateRaises
  \/ Render

Spec == Init /\ [][Next]_vars

\* The process runs on: an answer from the model, a handler, a person at the
\* gate all return.  The loop itself never waits for anything else.
FairSpec == Spec /\ WF_vars(Next)

-----------------------------------------------------------------------------
(* Properties *)

\* Trace checks 6 and 7: once run_end is written, its steps, its cost and its
\* tool_calls_total are what the step lines add up to, whichever of the exits
\* (a budget in mid-batch, a raise in the handler, a failed render) wrote it.
CountersReconcile ==
  stop # "none" => /\ file.ends = 1
                   /\ file.steps = steps
                   /\ file.last = steps
                   /\ file.steps = billed
                   /\ file.calls = tool_calls

\* Trace checks 8 and 9 as the loop keeps them: the submit_record calls and the
\* accepted:false results of the file are the handled attempts and the handled
\* rejections, plus one each for every second submit of a turn.
SubmitsReconcile ==
  stop # "none" => /\ file.submitCalls = submits + file.seconds
                   /\ file.rejections = verify_rounds + file.seconds

\* Trace check 4: only the last step of a run that did not end accepted may
\* hold a call without its result, and at most the one in flight.
EveryCallAnswered ==
  /\ file.owedBefore = 0
  /\ file.owedLast <= 1
  /\ stop = "accepted" => file.owedLast = 0

\* Invariants A and B of the loop: no batch, however long, buys past either
\* budget, and no run goes on after the rejection of its last attempt: it stops
\* max_submits, or api_error where the view raises over that very rejection.
BudgetsHeld ==
  /\ tool_calls <= ToolBudget
  /\ verify_rounds <= submits /\ submits <= MaxSubmits
  /\ verify_rounds = MaxSubmits => stop \in {"max_submits", "api_error"}
  /\ stop = "max_submits" => verify_rounds = MaxSubmits /\ ~accepted

\* The one record a run publishes is one the handler accepted and, on the arm
\* that has a gate, a checkpoint line approved; a refused one is a draft only.
PublishedIsSigned ==
  /\ disk \in {"json", "documents"} => /\ accepted
                                       /\ arm = "advanced" => file.approvals = 1
                                       /\ file.refusals = 0
  /\ disk = "draft" => file.refusals = 1 /\ file.approvals = 0
  /\ stop = "accepted" => disk = "documents"
  /\ disk = "documents" => stop \in {"accepted", "api_error"}

\* No turn counter bounds the loop, the two budgets do: between two paid calls
\* there are at most MaxNudges quiet turns.
TurnsBounded == step <= (MaxNudges + 1) * (ToolBudget + 1)

\* Trace checks 2 and 3 as they are written, not after the fact: step numbers go
\* up one line at a time, no step follows a checkpoint and nothing follows run_end.
WrittenInOrder ==
  [][/\ file'.steps # file.steps => /\ file'.last = file.last + 1
                                    /\ file'.steps = file.steps + 1
                                    /\ file.approvals + file.refusals = 0
     /\ file.ends = 1 => file' = file]_vars

\* Every run ends, with no bound on the turns but what the budgets imply.
EveryRunEnds == <>(stop # "none")

-----------------------------------------------------------------------------
(* The contract both brains keep, in this module's terms. *)
Gate == IF file.approvals > 0 THEN "approved"
        ELSE IF file.refusals > 0 THEN "rejected" ELSE "none"

Contract == INSTANCE RunContract
              WITH gated <- arm = "advanced", lines <- file.steps, signed <- accepted,
                   gate <- Gate, published <- disk, outcome <- stop

\* The loop implements the contract of a run: every step is one line, one
\* verdict, one checkpoint or the one ending, or nothing a reader can see.
ImplementsContract == Contract!Spec
=============================================================================
