------------------------------ MODULE TraceLife ------------------------------
(***************************************************************************)
(* One cell of a sweep, followed through its trace file: a child writes it *)
(* (art30/loop.py on the API brain, art30/brains/driver.py on codex), may  *)
(* be killed at its limit or die in any write, and the parent              *)
(* (evals/harness/cells.py) closes what it finds, files a failure copy and *)
(* has the validator read it.  AgentLoop, LocalBrain and SweepCells have   *)
(* the inside of the three; here a turn is one action and the file is its  *)
(* lines.                                                                  *)
(***************************************************************************)
EXTENDS TraceChecks, CodexSteps

CONSTANTS Cells,      \* the cells a run may be started on: its case, arm, brain and settings
          Batches,    \* bound of the model: the names of the tool calls of a response
          Costs,      \* bound of the model: what a response may cost
          Items,      \* bound of the model: what codex may report done, without its id
          Usages,     \* bound of the model: usages codex may report for a turn
          Records,    \* bound of the model: the stores of a record that is accepted
          PriceTables,\* what codex_prices may hold for the model, before the run or during it
          MaxNudges,  \* the literal 2 of _run
          MaxEvents   \* bound of the model: events of a codex stream

\* A cell's budgets are the literals unless run_start declares another (config.py; naming
\* the default of 60 calls declares nothing, and is less than a real case has), a batch is
\* a sequence, and what is counted is counted in naturals (_count of codex_events.py).
ASSUME LifeAssumption ==
  /\ \A c \in Cells :
       /\ c.arm \in {"baseline", "advanced"} /\ c.brain \in {"api", "codex"}
       /\ c.tools \in Nat /\ c.submits \in Nat \ {0} /\ c.overridden \subseteq Art30Vars
       /\ "ART30_TOOL_BUDGET" \notin c.overridden =>
            c.tools <= IF c.kind = "real" THEN RealTools ELSE SyntheticTools
       /\ "ART30_SUBMIT_BUDGET" \notin c.overridden => c.submits = SubmitBudget
  /\ Batches \subseteq Seq(STRING) /\ Costs \subseteq Nat
  /\ Usages \subseteq [input_tokens : Nat, cached_input_tokens : Nat, cache_write_input_tokens : Nat,
                       output_tokens : Nat]
  /\ \A table \in PriceTables : table \subseteq [input : Nat, cached : Nat, output : Nat]
  /\ Records \subseteq Seq([name : STRING, verdict : STRING, categories : SUBSET STRING])

VARIABLES
  cell,     \* the cell, run_start's fields and the two budgets
  pc,       \* where the child stands; "gone" when it was stopped
  why,      \* the stop condition about to be written
  file,     \* the lines of the trace
  ctx,      \* RunCtx and the state of _run: steps, nudges, tool_calls, submits, rounds, cum
  stepper,  \* convert.Stepper as codex has it
  sums,     \* the driver's: written, rejected, spent, cum
  prices,   \* codex_prices, read from the settings at every step
  record,   \* ctx.accepted: its stores, at most one
  disk,     \* record.json in the slot, at most one
  timed,    \* the child was killed at its limit
  closer,   \* who wrote the ending the parent reads (history, no code reads it)
  raised,   \* the codex stream raised (history)
  reported, \* tokens codex has reported (history)
  events,   \* events of the stream so far: numbers the ids of the items
  diagnosis \* the failure copy's second file, at most one

api == <<ctx>>
codex == <<stepper, sums, prices, raised, reported, events>>
parent == <<timed, closer, diagnosis>>
vars == <<cell, pc, why, file, api, codex, record, disk, parent>>

NewCtx == [steps |-> 0, nudges |-> 0, tool_calls |-> 0, submits |-> 0, rounds |-> 0, cum |-> 0]

Init ==
  /\ cell \in Cells
  /\ prices \in (IF cell.brain = "codex" THEN PriceTables ELSE {{}})
  /\ pc = "born" /\ why = "none" /\ file = <<>>
  /\ ctx = NewCtx /\ stepper = NewStepper /\ sums = NewSums
  /\ record = {} /\ disk = {} /\ raised = FALSE /\ reported = 0 /\ events = 0
  /\ timed = FALSE /\ closer = "none" /\ diagnosis = {}

Open ==
  /\ pc = "born"
  /\ file' = <<RunStart(cell)>>
  /\ pc' = IF cell.brain = "api" THEN "turn" ELSE "stream"
  /\ UNCHANGED <<cell, why, api, codex, record, disk, parent>>
-----------------------------------------------------------------------------
(* A turn of the API brain: _run, with its batch as one line *)

Writes(line) == file' = Append(file, line)
Stops(stop) == why' = stop /\ pc' = "stopping"
Body(calls, results) ==
  [calls |-> calls, results |-> results, usage |-> NoUsage, hashed |-> TRUE,
   stop_reason |-> "tool_use"]
Billed(cost) == [ctx EXCEPT !.steps = @ + 1, !.cum = @ + cost]
TurnLine(calls, results, cost) ==
  StepLine(ctx.steps + 1, Body(calls, results), cost, ctx.cum + cost)

CallFails ==
  /\ pc = "turn"
  /\ \E stop \in {"api_error", "replay_miss"} : Stops(stop)
  /\ UNCHANGED <<cell, file, api, codex, record, disk, parent>>

\* A turn without calls: an early stop, a nudge, or one nudge too many.
QuietTurn(cost) ==
  /\ pc = "turn"
  /\ Writes(TurnLine(<<>>, <<>>, cost))
  /\ ctx' = [Billed(cost) EXCEPT !.nudges = @ + 1]
  /\ \/ \E stop \in {"refusal", "max_tokens", "api_error"} : Stops(stop)
     \/ ctx'.nudges > MaxNudges /\ Stops("no_submission")
     \/ ctx'.nudges <= MaxNudges /\ UNCHANGED <<pc, why>>
  /\ UNCHANGED <<cell, codex, record, disk, parent>>

\* The one submit_record of a batch the arm is handed, 0 when there is none.
Handled(names) ==
  LET at == {j \in DOMAIN names : names[j] = "submit_record"}
  IN IF at = {} THEN 0 ELSE CHOOSE j \in at : \A k \in at : j <= k

\* What the calls of a batch are answered; a second submit is refused unread.
Says(names, verdict, j) ==
  IF names[j] # "submit_record" THEN "other" ELSE IF j = Handled(names) THEN verdict ELSE "no"

\* taken calls of the batch are paid for and the first answered of them answered.
BatchLine(names, verdict, taken, answered, cost) ==
  TurnLine([j \in 1..taken |-> Call(<<ctx.steps, j>>, names[j])],
           [j \in 1..answered |-> Answer(<<ctx.steps, j>>, Says(names, verdict, j))], cost)
Counted(names, verdict, taken, answered, cost) ==
  LET handled == Handled(names)
  IN [Billed(cost) EXCEPT
        !.nudges = 0,
        !.tool_calls = @ + taken,
        !.submits = IF handled \in 1..taken THEN @ + 1 ELSE @,
        !.rounds = IF handled \in 1..answered /\ verdict = "no" THEN @ + 1 ELSE @]

LastAttempt(names, verdict) ==
  /\ Handled(names) # 0 /\ verdict = "no"
  /\ ctx.submits + 1 >= cell.submits
\* How far a batch is read, and how far it is paid for.
Read(names, verdict) == IF LastAttempt(names, verdict) THEN Handled(names) ELSE Len(names)
Paid(names, verdict) == Smaller(Read(names, verdict), cell.tools - ctx.tool_calls)

\* Every exit of the batch but a raise: a budget, the last attempt, the gate, a next turn.
ToolTurn(names, verdict, cost) ==
  LET n == Paid(names, verdict)
      accepted == Handled(names) \in 1..n /\ verdict = "yes"
  IN /\ pc = "turn"
     /\ Writes(BatchLine(names, verdict, n, n, cost))
     /\ ctx' = Counted(names, verdict, n, n, cost)
     /\ IF n < Read(names, verdict) THEN Stops("budget_exhausted") /\ UNCHANGED record
        ELSE IF LastAttempt(names, verdict) THEN Stops("max_submits") /\ UNCHANGED record
        ELSE IF accepted
        THEN /\ pc' = "gate" /\ UNCHANGED why
             /\ \E stores \in Records : record' = {stores}
        ELSE UNCHANGED <<pc, why, record>>
     /\ UNCHANGED <<cell, codex, disk, parent>>

\* The handler raises, or the terminal view does once the call is answered.
BatchRaises(names, verdict, cost) ==
  /\ pc = "turn"
  /\ \E taken \in 1..Paid(names, verdict) :
       /\ names[taken] = "submit_record" => taken = Handled(names)
       /\ \E answered \in {taken} \cup ({Handled(names) - 1} \cap {taken - 1}) :
            /\ Writes(BatchLine(names, verdict, taken, answered, cost))
            /\ ctx' = Counted(names, verdict, taken, answered, cost)
  /\ Stops("api_error")
  /\ UNCHANGED <<cell, codex, record, disk, parent>>
-----------------------------------------------------------------------------
(* The stream of codex, read by the driver *)

Happenings ==
  {[kind |-> "turn.completed", usage |-> usage] : usage \in Usages}
  \cup {[kind |-> "turn.failed"]}
  \cup {[kind |-> "item", item |-> [type |-> item.type, tool |-> item.tool, error |-> item.error,
                                    says |-> item.says, id |-> events]] : item \in Items}

Submitted(event) == event.kind = "item" /\ event.item.type = "mcp_tool_call"
                    /\ event.item.tool = "submit_record"

\* _event: the steps it finished are written, then the spool is looked at.  The
\* server may have marked the budget used up; it accepts one record of a run.
CodexEvent(event) ==
  LET fed == Fed(stepper, event, cell)
      done == Closes(stepper, event)
      refused == Submitted(event) /\ SaysOf(event.item) = "no" /\ fed.submits >= cell.submits
  IN /\ pc = "stream" /\ events < MaxEvents
     /\ events' = events + 1
     /\ IF done = {} THEN UNCHANGED <<file, sums>>
        ELSE \E step \in done : /\ Writes(Written(sums, step, {}, prices))
                                /\ sums' = Summed(sums, step, {}, prices)
     /\ \E exhausted \in {FALSE, refused} :
          stepper' = IF exhausted THEN Halted(fed, "max_submits") ELSE fed
     /\ IF Submitted(event) /\ SaysOf(event.item) = "yes"
        THEN record = {} /\ \E stores \in Records : record' = {stores}
        ELSE UNCHANGED record
     /\ reported' = IF event.kind = "turn.completed"
                    THEN reported + event.usage.input_tokens + event.usage.output_tokens
                    ELSE reported
     /\ pc' = IF stepper'.stop = "none" THEN "stream" ELSE "closing"
     /\ UNCHANGED <<cell, why, api, prices, raised, disk, parent>>

StreamEnds ==
  /\ pc = "stream"
  /\ pc' = "closing"
  /\ UNCHANGED <<cell, why, file, api, codex, record, disk, parent>>

\* A raise passes the step in flight by (LocalBrain has where it comes from).
StreamRaises ==
  /\ pc = "stream"
  /\ raised' = TRUE
  /\ Stops("api_error")
  /\ UNCHANGED <<cell, file, api, stepper, sums, prices, reported, events, record, disk, parent>>

\* Somebody saves codex_prices while the run goes on.
PricesChange ==
  /\ pc = "stream"
  /\ prices' \in PriceTables \ {prices}
  /\ UNCHANGED <<cell, pc, why, file, api, stepper, sums, raised, reported, events, record, disk,
                 parent>>

\* The step in flight is the last one; then _outcome.
StreamCloses ==
  /\ pc = "closing"
  /\ stepper' = [stepper EXCEPT !.open = {}]
  /\ IF stepper.open = {} THEN UNCHANGED <<file, sums>>
     ELSE \E step \in stepper.open :
            /\ Writes(Written(sums, step, stepper.totals, prices))
            /\ sums' = Summed(sums, step, stepper.totals, prices)
  /\ IF record # {} THEN pc' = "gate" /\ UNCHANGED why
     ELSE \E stop \in (IF stepper.stop # "none" THEN {stepper.stop}
                       ELSE {"api_error", "no_submission", "timeout"}
                            \cup (IF stepper.submits >= cell.submits THEN {"max_submits"} ELSE {})) :
            Stops(stop)
  /\ UNCHANGED <<cell, api, prices, raised, reported, events, record, disk, parent>>
-----------------------------------------------------------------------------
(* _finish, alike on both brains, and the ending *)

Verdicts(stores) == {stores[i].verdict : i \in DOMAIN stores}

\* risk_rating of the arm, the other reading of the rule the validator recomputes
RiskRating(stores) ==
  IF \E i \in DOMAIN stores :
       stores[i].verdict \in HighVerdicts /\ stores[i].categories \cap HighCategories # {}
  THEN "high"
  ELSE IF stores # <<>> /\ Verdicts(stores) \subseteq Reaches
          /\ "erased_after_timer" \in Verdicts(stores)
  THEN "medium" ELSE "low"

NoGate ==
  /\ pc = "gate" /\ cell.arm = "baseline"
  /\ pc' = "render"
  /\ UNCHANGED <<cell, why, file, api, codex, record, disk, parent>>

\* A simulated approval fills nothing in; a person may name the recipients of stores.
GateAnswers ==
  /\ pc = "gate" /\ cell.arm = "advanced"
  /\ \E stores \in record, by \in {"human", "simulated"}, verdict \in {"approved", "rejected"} :
       /\ by = "simulated" => verdict = "approved"
       /\ \E filled \in {{}} \cup (IF by = "human" /\ stores # <<>> THEN {{{stores[1].name}}} ELSE {}) :
            Writes(Checkpoint([risk |-> RiskRating(stores), verdict |-> verdict, by |-> by,
                               filled |-> filled]))
       /\ pc' = IF verdict = "approved" THEN "render" ELSE "draft"
  /\ UNCHANGED <<cell, why, api, codex, record, disk, parent>>

GateRaises ==
  /\ pc = "gate" /\ cell.arm = "advanced"
  /\ Stops("api_error")
  /\ UNCHANGED <<cell, file, api, codex, record, disk, parent>>

Draft ==
  /\ pc = "draft"
  /\ \E stop \in {"gate_rejected", "api_error"} : Stops(stop)
  /\ UNCHANGED <<cell, file, api, codex, record, disk, parent>>

\* record.json first: an ending that cites it finds it.
Render ==
  /\ pc = "render"
  /\ \/ disk' = record /\ \E stop \in {"accepted", "render_failed", "api_error"} : Stops(stop)
     \/ Stops("api_error") /\ UNCHANGED disk
  /\ UNCHANGED <<cell, file, api, codex, record, parent>>

Counters ==
  IF cell.brain = "api"
  THEN [steps |-> ctx.steps, calls |-> ctx.tool_calls, submits |-> ctx.submits,
        rounds |-> ctx.rounds, cost |-> ctx.cum]
  ELSE [steps |-> sums.written, calls |-> stepper.tool_calls, submits |-> stepper.submits,
        rounds |-> sums.rejected, cost |-> sums.cum]

\* A note quotes an exception, a rejection or a summary, whatever those say of bytes.
Notes(stop) ==
  IF stop \in {"api_error", "render_failed", "gate_rejected", "max_submits"}
  THEN {CleanNote, [CleanNote EXCEPT !.counts = 1]} ELSE {CleanNote}

EndRun ==
  /\ pc = "stopping"
  /\ \E note \in Notes(why) :
       Writes(RunEnd(why, Counters, why \in {"accepted", "render_failed"}, note))
  /\ closer' = "child"
  /\ pc' = "ended"
  /\ UNCHANGED <<cell, why, api, codex, record, disk, timed, diagnosis>>
-----------------------------------------------------------------------------
(* A child stopped in a write, and the parent *)

Complete(raw) == raw.type \notin {"torn", "unended"}
\* read_trace: the lines that parse, by their positions
Readable(lines) == {i \in DOMAIN lines : lines[i].type # "torn"}

\* Mutant: a line that parses is kept, newline or not.
RepairedByParse(lines) == SelectSeq(lines, LAMBDA line : line.type # "torn")

\* repair: up to the first line that does not parse or has no newline
Repaired(lines) ==
  LET kept == {n \in 0..Len(lines) : \A i \in 1..n : Complete(lines[i])}
  IN SubSeq(lines, 1, CHOOSE n \in kept : \A m \in kept : m <= n)

Ended(lines) == Only(Parsed(lines), "run_end")

\* The last line whole, without its newline, or cut: Trace._write is one write and
\* one flush, of more than a buffer.
Torns == {file} \cup (IF file # <<>> /\ (disk = {} \/ pc = "ended")
                      THEN LET n == Len(file)
                           IN {[file EXCEPT ![n] = Torn], [file EXCEPT ![n] = Unended(@)]}
                      ELSE {})
Alive == pc \notin {"born", "gone", "filed"}

\* What the process held goes with it.
Exits ==
  /\ ctx' = NewCtx /\ stepper' = NewStepper /\ sums' = NewSums /\ prices' = {}
  /\ record' = {} /\ why' = "none" /\ reported' = 0 /\ events' = 0

\* launch: TimeoutExpired, also of a child that is done and does not exit
Killed ==
  /\ Alive
  /\ file' \in Torns
  /\ timed' = TRUE /\ pc' = "gone"
  /\ closer' = IF Ended(file') = <<>> THEN "none" ELSE closer
  /\ Exits
  /\ UNCHANGED <<cell, raised, disk, diagnosis>>

Dies ==
  /\ Alive
  /\ file' \in Torns
  /\ pc' = "gone"
  /\ closer' = IF Ended(file') = <<>> THEN "none" ELSE closer
  /\ Exits
  /\ UNCHANGED <<cell, raised, disk, timed, diagnosis>>

\* append_run_end: the counters of the step lines that can be read
Owed(lines, stop, note) ==
  LET steps == Only(Parsed(lines), "step")
  IN RunEnd(stop, [steps |-> Len(steps), calls |-> Cardinality(Calls(steps)),
                   submits |-> Cardinality(Submits(steps)),
                   rounds |-> Cardinality(Rejections(steps)),
                   cost |-> IF steps = <<>> THEN 0 ELSE steps[Len(steps)].cum], FALSE, note)

\* Opened for append: a last line without its newline swallows what follows it.
Appended(lines, line) ==
  IF lines # <<>> /\ ~Complete(lines[Len(lines)])
  THEN [lines EXCEPT ![Len(lines)] = Torn] ELSE Append(lines, line)

StopOf(lines) ==
  IF Ended(lines) = <<>> THEN "crashed" ELSE Ended(lines)[Len(Ended(lines))].stop

\* finish_cell: repair and close, then file a run that was not accepted as a failure.
Closing(lines) ==
  IF timed
  THEN {Appended(Repaired(lines), Owed(Repaired(lines), "timeout", [CleanNote EXCEPT !.counts = 1]))}
  ELSE IF Ended(lines) = <<>> /\ Readable(lines) # {}
  THEN {Appended(lines, Owed(lines, "api_error", note)) : note \in Notes("api_error")}
  ELSE {lines}

FinishCell ==
  /\ pc \in {"gone", "ended"}
  /\ file' \in Closing(file)
  /\ closer' = IF file' = file THEN closer ELSE "parent"
  /\ diagnosis' = IF StopOf(file') = "accepted" THEN {}
                  ELSE {[arm |-> cell.arm, case |-> cell.case, stop |-> StopOf(file')]}
  /\ pc' = "filed"
  /\ Exits
  /\ UNCHANGED <<cell, raised, disk, timed>>

Next ==
  \/ Open
  \/ CallFails
  \/ \E cost \in Costs :
       \/ QuietTurn(cost)
       \/ \E names \in Batches, verdict \in {"yes", "no"} :
            ToolTurn(names, verdict, cost) \/ BatchRaises(names, verdict, cost)
  \/ \E event \in Happenings : CodexEvent(event)
  \/ StreamEnds \/ StreamRaises \/ PricesChange \/ StreamCloses
  \/ NoGate \/ GateAnswers \/ GateRaises \/ Draft \/ Render \/ EndRun
  \/ Killed \/ Dies \/ FinishCell

Spec == Init /\ [][Next]_vars
-----------------------------------------------------------------------------
(* Properties *)

Slot(failures, said) ==
  [arm |-> cell.arm, case |-> cell.case, failures |-> failures, diagnosis |-> said]
\* What the validator says of the trace, and of its failure copy.
Faults == CheckTrace(Slot(FALSE, {}), file, disk)
          \cup (IF diagnosis = {} THEN {} ELSE CheckTrace(Slot(TRUE, diagnosis), file, disk))

TwoSubmits == \E at, bt \in Submits(Only(Parsed(file), "step")) : at[1] = bt[1] /\ at # bt
EndOf == Line(file[Len(file)])
\* The disagreements with the validator a run that ends by itself may have: a second
\* submit in a turn, a model named in a settings file, a note that quotes a byte count.
Disagreements ==
  When(TwoSubmits, 8) \cup When(TwoSubmits, 9) \cup When(cell.model # ConfiguredModel, 13)
  \cup When(EndOf.type = "run_end" /\ EndOf.stop # "timeout" /\ EndOf.note.counts > 0, 16)

\* The validator finds nothing wrong, but for those disagreements, with a trace the
\* child closed, nor with one the parent closed: after a kill at any byte the repair
\* leaves a valid trace, unless run_start was lost or run_end was already there, and
\* after a death unless it came in the middle of a line.
TracePasses ==
  pc = "filed" =>
    /\ closer = "child" /\ ~raised => Faults \subseteq Disagreements
    /\ closer = "parent" /\ timed /\ file[1].type = "run_start" /\ Len(Ended(file)) <= 1 =>
         Faults \subseteq Disagreements
    /\ closer = "parent" /\ ~timed /\ Complete(file[Len(file)]) =>
         Faults \subseteq Disagreements

LostLine(i) == [j \in 1..Len(file)-1 |-> IF j < i THEN file[j] ELSE file[j + 1]]
DoubledLine(i) == [j \in 1..Len(file)+1 |-> IF j <= i THEN file[j] ELSE file[j - 1]]
SwappedLines(i) == [file EXCEPT ![i] = file[i + 1], ![i + 1] = file[i]]
LostResult(i) == [file EXCEPT ![i].results = Tail(@)]
NeedsCheckpoint == EndOf.stop \in {"accepted", "gate_rejected"}

\* "A truncated run must be recognisable as truncated": of a valid trace no line can be
\* lost, doubled or swapped with the next, and no result of an earlier step lost, without
\* a violation.  A checkpoint of a run that was neither accepted nor rejected at the gate
\* is the one line nothing counts.
DamageShows ==
  pc = "filed" /\ Faults = {} /\ Complete(file[Len(file)]) =>
    \A i \in DOMAIN file :
      LET Shows(damaged) == CheckTrace(Slot(FALSE, {}), damaged, disk) # {}
      IN /\ file[i].type # "checkpoint" \/ NeedsCheckpoint => Shows(LostLine(i)) /\ Shows(DoubledLine(i))
         /\ i < Len(file) => Shows(SwappedLines(i))
         /\ /\ file[i].type = "step" /\ file[i].results # <<>>
            /\ file[i + 1].type = "step" \/ EndOf.stop = "accepted"
            => Shows(LostResult(i))

\* "They sum to its own totals": every token codex reported of a run is on one of its
\* step lines once, whatever the number of turns and wherever a budget stopped it.
TokensReconcile ==
  pc = "ended" /\ cell.brain = "codex" /\ ~raised /\ sums.written > 0 =>
    sums.spent["input"] + sums.spent["cache_read"] + sums.spent["cache_write"]
      + sums.spent["output"] = reported

=============================================================================
