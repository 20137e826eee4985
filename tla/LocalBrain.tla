------------------------------ MODULE LocalBrain ------------------------------
(***************************************************************************)
(* A run on a local CLI (art30/brains/driver.py).  Three processes and a   *)
(* timer: the CLI (claude or codex, external) prints its stream into a     *)
(* pipe and asks an MCP server of its own for submit_record; the server    *)
(* (mcp_server.py) holds the arm and leaves its answers in the spool; the  *)
(* driver turns the stream into step lines, applies the budgets from       *)
(* outside, and when the CLI is gone reads the spool and finishes the run. *)
(*                                                                         *)
(* An event of the stream is the memory report of the init line, a line of *)
(* an assistant message with its calls, or the result of the oldest call   *)
(* still open.  Costs, texts and the result line's totals are left out.    *)
(***************************************************************************)
EXTENDS Integers, Sequences, FiniteSets

CONSTANTS ToolBudget,  \* cfg.tool_budget
          MaxSubmits,  \* cfg.max_submits
          MaxTurns,    \* cfg.max_turns
          MaxBatch,    \* bound of the model: calls of a message open at once
          PipeSize,    \* bound of the model: lines the driver may lag behind
          Restarts,    \* bound of the model: times the CLI restarts its server
          Arms         \* the arms a run may be started with

ASSUME BrainAssumption == /\ ToolBudget \in Nat
                          /\ MaxSubmits \in Nat \ {0}
                          /\ MaxTurns \in Nat \ {0}
                          /\ MaxBatch \in Nat
                          /\ PipeSize \in Nat \ {0}
                          /\ Restarts \in Nat
                          /\ Arms \subseteq {"baseline", "advanced"}

VARIABLES
  arm,       \* the arm the server loads
  pc,        \* where the driver stands
  alarm,     \* the threading.Timer of _spawn
  raised,    \* reading the stream raised
  stop,      \* stepper.stop
  tool_calls, submits, steps,   \* the stepper's counters
  open,      \* stepper._open, as the totals of the line it will be
  file,      \* the trace, as the totals of its lines
  signed,    \* ctx.accepted: the entry whose record it is, 0 for None
  attempts,  \* ctx.submits
  disk,      \* what the run left in its output folder
  outcome,   \* run_end.stop_condition, "none" before it is written
  cli,       \* "up", or "gone" with its exit code
  asked,     \* calls the CLI has not answered itself yet, oldest first
  speaking,  \* another line may still join the last message
  pipe,      \* lines printed and not read
  server,    \* the MCP server: where submit() stands, its ctx.submits
  restarts,  \* servers the CLI lost
  spool,     \* the three files of the spool
  told       \* the CLI was answered accepted:true (history, no code reads it)

stepper == <<tool_calls, submits, steps, open>>
driver == <<pc, raised, stepper, file, signed, attempts, disk, outcome>>
client == <<asked, speaking, pipe, told>>
mcp == <<server, restarts, spool>>
vars == <<arm, driver, alarm, stop, cli, client, mcp>>

CallKinds == {"read", "submit"}
Lines == UNION {[1..n -> CallKinds] : n \in 0..MaxBatch}

Memory == [kind |-> "memory"]
Says(fresh, calls) == [kind |-> "says", fresh |-> fresh, calls |-> calls]
Result(rejected) == [kind |-> "result", rejected |-> rejected]
Events == {Memory} \cup {Says(f, c) : f \in BOOLEAN, c \in Lines}
                   \cup {Result(r) : r \in BOOLEAN}

NoLine == [live |-> FALSE, calls |-> 0, answered |-> 0, submitCalls |-> 0, rejected |-> 0]
EmptyFile == [steps |-> 0, calls |-> 0, submitCalls |-> 0, rejections |-> 0, owedBefore |-> 0,
              owedLast |-> 0, approvals |-> 0, refusals |-> 0, ends |-> 0]
Idle(bought) == [at |-> "idle", attempts |-> bought, answer |-> "none"]

Stops == {"api_error", "budget_exhausted", "max_submits", "timeout"}
Outcomes == Stops \cup {"accepted", "gate_rejected", "render_failed", "no_submission"}
PcStates == {"start", "reading", "stopping", "counting", "taking",
             "deciding", "gate", "draft", "render", "done"}

\* What the driver, the CLI, its server and the files between them range over.
TypeOK ==
  /\ arm \in Arms /\ pc \in PcStates
  /\ alarm \in {"off", "set", "ringing"}
  /\ raised \in BOOLEAN /\ speaking \in BOOLEAN /\ told \in BOOLEAN
  /\ stop \in Stops \cup {"none"}
  /\ tool_calls \in Nat /\ submits \in Nat /\ steps \in Nat
  /\ open \in [live: BOOLEAN, calls: Nat, answered: Nat, submitCalls: Nat, rejected: Nat]
  /\ file \in [steps: Nat, calls: Nat, submitCalls: Nat, rejections: Nat, owedBefore: Int,
               owedLast: Int, approvals: Nat, refusals: Nat, ends: Nat]
  /\ signed \in Nat /\ attempts \in Nat
  /\ disk \in {"nothing", "draft", "json", "documents"}
  /\ outcome \in Outcomes \cup {"none"}
  /\ cli \in {"unborn", "up", "exit 0", "exit 1"}
  /\ asked \in Seq(CallKinds)
  /\ pipe \in Seq(Events) /\ Len(pipe) <= PipeSize
  /\ server \in [at: {"idle", "asked", "handling", "appended", "answering"}, attempts: Nat,
                 answer: {"none", "rejected", "accepted"}]
  /\ restarts \in 0..Restarts
  /\ spool \in [entries: Seq(BOOLEAN), accepted: Nat, exhausted: BOOLEAN]

Init ==
  /\ arm \in Arms
  /\ pc = "start" /\ alarm = "off" /\ raised = FALSE /\ stop = "none"
  /\ tool_calls = 0 /\ submits = 0 /\ steps = 0 /\ open = NoLine
  /\ file = EmptyFile
  /\ signed = 0 /\ attempts = 0 /\ disk = "nothing" /\ outcome = "none"
  /\ cli = "unborn" /\ asked = <<>> /\ speaking = FALSE /\ pipe = <<>>
  /\ server = Idle(0) /\ restarts = 0
  /\ spool = [entries |-> <<>>, accepted |-> 0, exhausted |-> FALSE]
  /\ told = FALSE
-----------------------------------------------------------------------------
(* The CLI: external, modelled from the stream convert.py reads.  It may stop *)
(* or die anywhere; a message of its own waits for the results of the last.   *)

Up == cli = "up"
Emits(event) == Len(pipe) < PipeSize /\ pipe' = Append(pipe, event)

CliLoadsMemory ==
  /\ Up /\ pipe = <<>> /\ steps = 0 /\ Emits(Memory)
  /\ UNCHANGED <<arm, driver, alarm, stop, cli, asked, speaking, told, mcp>>

CliSays(fresh, calls) ==
  /\ Up /\ Emits(Says(fresh, calls))
  /\ IF fresh THEN asked = <<>> ELSE speaking /\ calls # <<>>
  /\ Len(asked) + Len(calls) <= MaxBatch
  /\ asked' = asked \o calls
  /\ speaking' = TRUE
  /\ UNCHANGED <<arm, driver, alarm, stop, cli, told, mcp>>

CliReads ==
  /\ Up /\ asked # <<>> /\ Head(asked) = "read"
  /\ Emits(Result(FALSE))
  /\ asked' = Tail(asked) /\ speaking' = (asked' # <<>>)
  /\ UNCHANGED <<arm, driver, alarm, stop, cli, told, mcp>>

CliSubmits ==
  /\ Up /\ asked # <<>> /\ Head(asked) = "submit"
  /\ server.at = "idle"
  /\ server' = [server EXCEPT !.at = "asked"]
  /\ UNCHANGED <<arm, driver, alarm, stop, cli, client, restarts, spool>>

\* A server that died under a call is started again, with an empty ctx and the same spool.
CliRestartsServer ==
  /\ Up /\ restarts < Restarts
  /\ server.at # "idle"
  /\ restarts' = restarts + 1
  /\ server' = Idle(0)
  /\ Emits(Result(FALSE))
  /\ asked' = Tail(asked) /\ speaking' = (asked' # <<>>)
  /\ UNCHANGED <<arm, driver, alarm, stop, cli, told, spool>>

CliExits ==
  /\ Up
  /\ cli' \in {"exit 0", "exit 1"}
  /\ UNCHANGED <<arm, driver, alarm, stop, client, mcp>>
-----------------------------------------------------------------------------
(* The MCP server: Server.submit.  It outlives a CLI that is killed under it. *)

Answer(with) == [server EXCEPT !.at = "answering", !.answer = with]

\* A call without a record object, whatever the spool says; already accepted; no
\* attempts left, which alone leaves its mark.
ServerRefuses ==
  /\ server.at = "asked"
  /\ \/ UNCHANGED spool
     \/ /\ spool.accepted = 0 /\ server.attempts >= MaxSubmits
        /\ spool' = [spool EXCEPT !.exhausted = TRUE]
  /\ server' = Answer("rejected")
  /\ UNCHANGED <<arm, driver, alarm, stop, cli, client, restarts>>

\* Mutant: the check of accepted.json goes with it.
BuysAgain ==
  /\ server.at = "asked"
  /\ server.attempts < MaxSubmits
  /\ server' = [server EXCEPT !.at = "handling", !.attempts = @ + 1]
  /\ UNCHANGED <<arm, driver, alarm, stop, cli, client, restarts, spool>>

\* The attempt is bought before the handler, "a raise cannot buy an attempt".
ServerBuys ==
  /\ server.at = "asked"
  /\ spool.accepted = 0 /\ server.attempts < MaxSubmits
  /\ server' = [server EXCEPT !.at = "handling", !.attempts = @ + 1]
  /\ UNCHANGED <<arm, driver, alarm, stop, cli, client, restarts, spool>>

\* _call turns a raise of the handler into a refusal that never reaches the spool.
HandlerRaises ==
  /\ server.at = "handling"
  /\ server' = Answer("rejected")
  /\ UNCHANGED <<arm, driver, alarm, stop, cli, client, restarts, spool>>

HandlerJudges(yes) ==
  /\ server.at = "handling"
  /\ spool' = [spool EXCEPT !.entries = Append(@, yes)]
  /\ server' = [server EXCEPT !.at = "appended"]
  /\ UNCHANGED <<arm, driver, alarm, stop, cli, client, restarts>>

Judged == spool.entries[Len(spool.entries)]

\* write_accepted or mark_exhausted, a file after the line of the attempt.
ServerSettles ==
  /\ server.at = "appended"
  /\ spool' = [spool EXCEPT
       !.accepted = IF Judged THEN Len(spool.entries) ELSE @,
       !.exhausted = @ \/ (~Judged /\ server.attempts >= MaxSubmits)]
  /\ server' = Answer(IF Judged THEN "accepted" ELSE "rejected")
  /\ UNCHANGED <<arm, driver, alarm, stop, cli, client, restarts>>

\* The answer reaches the CLI, which prints it; or nobody is left to answer.
ServerAnswers ==
  /\ server.at = "answering"
  /\ server' = Idle(server.attempts)
  /\ \/ /\ Up /\ Emits(Result(server.answer = "rejected"))
        /\ asked' = Tail(asked) /\ speaking' = (asked' # <<>>)
        /\ told' = (told \/ server.answer = "accepted")
     \/ ~Up /\ UNCHANGED client
  /\ UNCHANGED <<arm, driver, alarm, stop, cli, restarts, spool>>
-----------------------------------------------------------------------------
(* The driver reading: convert.Stepper and _after_submit *)

Halt(why) == IF stop = "none" THEN why ELSE stop
WithLine(f, line) ==
  [f EXCEPT !.steps = @ + 1,
            !.calls = @ + line.calls,
            !.submitCalls = @ + line.submitCalls,
            !.rejections = @ + line.rejected,
            !.owedBefore = @ + f.owedLast,
            !.owedLast = line.calls - line.answered]
Closed == IF open.live THEN WithLine(file, open) ELSE file

SubmitsIn(calls, n) == Cardinality({i \in 1..n : calls[i] = "submit"})

Affordable(calls, i) ==
  /\ tool_calls + i <= ToolBudget
  /\ calls[i] = "submit" => submits + SubmitsIn(calls, i) <= MaxSubmits

\* _buy: the calls before the first one a budget cannot buy
Bought(calls) ==
  CHOOSE n \in 0..Len(calls) : /\ \A i \in 1..n : Affordable(calls, i)
                               /\ n < Len(calls) => ~Affordable(calls, n + 1)

WhyNotAll(calls) ==
  IF Bought(calls) = Len(calls) THEN "none"
  ELSE IF tool_calls + Bought(calls) >= ToolBudget THEN "budget_exhausted" ELSE "max_submits"

NextPc == pc' = IF stop' = "none" THEN "reading" ELSE "stopping"
Reading == pc = "reading" /\ pipe # <<>> /\ pipe' = Tail(pipe)

ReadMemory ==
  /\ Reading /\ Head(pipe) = Memory
  /\ stop' = Halt("api_error")
  /\ NextPc
  /\ UNCHANGED <<arm, alarm, raised, stepper, file, signed, attempts, disk, outcome, cli,
                 asked, speaking, told, mcp>>

\* A new message closes the step before it, a line with the same id joins it.
ReadMessage ==
  /\ Reading /\ Head(pipe).kind = "says"
  /\ LET fresh == Head(pipe).fresh
         calls == Head(pipe).calls
         n == Bought(calls)
         turn == IF fresh THEN steps + 1 ELSE steps
         line == IF fresh THEN [NoLine EXCEPT !.live = TRUE] ELSE open
     IN /\ file' = IF fresh THEN Closed ELSE file
        /\ steps' = turn
        /\ tool_calls' = tool_calls + n
        /\ submits' = submits + SubmitsIn(calls, n)
        /\ open' = [line EXCEPT !.calls = @ + n, !.submitCalls = @ + SubmitsIn(calls, n)]
        /\ stop' = Halt(IF fresh /\ turn > MaxTurns THEN "budget_exhausted"
                        ELSE WhyNotAll(calls))
  /\ NextPc
  /\ UNCHANGED <<arm, alarm, raised, signed, attempts, disk, outcome, cli, asked, speaking,
                 told, mcp>>

\* After a result the spool is read: an acceptance lets the CLI finish its turn,
\* a used-up budget ends the run.
ReadResult ==
  /\ Reading /\ Head(pipe).kind = "result"
  /\ open' = [open EXCEPT !.answered = @ + 1,
                          !.rejected = IF Head(pipe).rejected THEN @ + 1 ELSE @]
  /\ stop' = IF spool.accepted = 0 /\ spool.exhausted THEN Halt("max_submits") ELSE stop
  /\ NextPc
  /\ UNCHANGED <<arm, alarm, raised, tool_calls, submits, steps, file, signed, attempts, disk,
                 outcome, cli, asked, speaking, told, mcp>>

StreamEnds ==
  /\ pc = "reading" /\ pipe = <<>> /\ ~Up
  /\ pc' = "stopping"
  /\ UNCHANGED <<arm, alarm, raised, stop, stepper, file, signed, attempts, disk, outcome, cli,
                 client, mcp>>

-----------------------------------------------------------------------------
(* The driver starting and stopping the CLI, and the timer beside it *)

End(why) == outcome' = why /\ file' = [file EXCEPT !.ends = @ + 1] /\ pc' = "done"

Spawn ==
  /\ pc = "start"
  /\ \/ /\ cli' = "up" /\ alarm' = "set" /\ pc' = "reading"
        /\ UNCHANGED <<file, outcome>>
     \/ End("api_error") /\ UNCHANGED <<cli, alarm>>
  /\ UNCHANGED <<arm, raised, stop, stepper, signed, attempts, disk, client, mcp>>

Killed == cli' = IF Up THEN "exit 1" ELSE cli

\* Mutant: the step in flight is left out of the trace.
StopUnclosed ==
  /\ pc = "stopping"
  /\ alarm' = IF alarm = "set" THEN "off" ELSE alarm
  /\ Killed
  /\ open' = NoLine
  /\ pc' = "counting"
  /\ UNCHANGED <<arm, raised, stop, tool_calls, submits, steps, file, signed, attempts, disk,
                 outcome, client, mcp>>

\* The end of _spawn: the timer is cancelled, the CLI terminated, the last step written.
StopCli ==
  /\ pc = "stopping"
  /\ alarm' = IF alarm = "set" THEN "off" ELSE alarm
  /\ Killed
  /\ file' = Closed /\ open' = NoLine
  /\ pc' = "counting"
  /\ UNCHANGED <<arm, raised, stop, tool_calls, submits, steps, signed, attempts, disk, outcome,
                 client, mcp>>

\* Bytes that are not UTF-8, a closed terminal under _say_verify, a full disk: the
\* raise passes the finally of _spawn and goes on to run(), past the last step.
StreamRaises ==
  /\ pc = "reading"
  /\ raised' = TRUE
  /\ alarm' = IF alarm = "set" THEN "off" ELSE alarm
  /\ Killed
  /\ End("api_error")
  /\ UNCHANGED <<arm, stop, stepper, signed, attempts, disk, client, mcp>>

\* The callback of a Timer that cancel() came too late for still runs.
AlarmRings ==
  /\ alarm = "set"
  /\ alarm' = "ringing"
  /\ UNCHANGED <<arm, driver, stop, cli, client, mcp>>

\* Mutant: the flag without the terminate, which the blocked reader never sees.
AlarmFlags ==
  /\ alarm = "ringing"
  /\ alarm' = "off"
  /\ stop' = "timeout"
  /\ UNCHANGED <<arm, driver, cli, client, mcp>>

AlarmStops ==
  /\ alarm = "ringing"
  /\ alarm' = "off"
  /\ stop' = "timeout"
  /\ Killed
  /\ UNCHANGED <<arm, driver, client, mcp>>
-----------------------------------------------------------------------------
(* The driver after the CLI: the spool, the outcome *)

afterwards == <<arm, alarm, raised, stop, tool_calls, submits, steps, cli, client, mcp>>

CountAttempts ==
  /\ pc = "counting"
  /\ attempts' = IF spool.entries = <<>> THEN submits ELSE Len(spool.entries)
  /\ pc' = "taking"
  /\ UNCHANGED <<afterwards, open, file, signed, disk, outcome>>

\* The server may still be judging: it answers to nobody, into the same spool.
TakeAccepted ==
  /\ pc = "taking"
  /\ signed' = spool.accepted
  /\ pc' = "deciding"
  /\ UNCHANGED <<afterwards, open, file, attempts, disk, outcome>>

\* Mutant: the stop is looked at before the accepted record.
DecideStopFirst ==
  /\ pc = "deciding"
  /\ \/ stop # "none" /\ End(stop)
     \/ stop = "none" /\ signed # 0 /\ pc' = "gate" /\ UNCHANGED <<file, outcome>>
     \/ stop = "none" /\ signed = 0 /\ End("no_submission")
  /\ UNCHANGED <<afterwards, open, signed, attempts, disk>>

\* _outcome: an accepted record beats every stop, a stop beats the exit code.
Decide ==
  /\ pc = "deciding"
  /\ \/ signed # 0 /\ pc' = "gate" /\ UNCHANGED <<file, outcome>>
     \/ /\ signed = 0
        /\ End(IF stop # "none" THEN stop
               ELSE IF cli # "exit 0" THEN "api_error"
               ELSE IF attempts >= MaxSubmits THEN "max_submits" ELSE "no_submission")
  /\ UNCHANGED <<afterwards, open, signed, attempts, disk>>

NoGate ==
  /\ pc = "gate" /\ arm = "baseline"
  /\ pc' = "render"
  /\ UNCHANGED <<afterwards, open, file, signed, attempts, disk, outcome>>

\* Mutant: the verdict is traced and not obeyed.
GateUnheeded ==
  /\ pc = "gate" /\ arm = "advanced"
  /\ \/ file' = [file EXCEPT !.approvals = @ + 1] /\ pc' = "render"
     \/ file' = [file EXCEPT !.refusals = @ + 1] /\ pc' = "render"
  /\ UNCHANGED <<afterwards, open, signed, attempts, disk, outcome>>

GateAnswers ==
  /\ pc = "gate" /\ arm = "advanced"
  /\ \/ file' = [file EXCEPT !.approvals = @ + 1] /\ pc' = "render"
     \/ file' = [file EXCEPT !.refusals = @ + 1] /\ pc' = "draft"
  /\ UNCHANGED <<afterwards, open, signed, attempts, disk, outcome>>

GateRaises ==
  /\ pc = "gate" /\ arm = "advanced"
  /\ End("api_error")
  /\ UNCHANGED <<afterwards, open, signed, attempts, disk>>

Draft ==
  /\ pc = "draft"
  /\ \/ disk' = "draft" /\ End("gate_rejected")
     \/ disk' = disk /\ End("api_error")
  /\ UNCHANGED <<afterwards, open, signed, attempts>>

Render ==
  /\ pc = "render"
  /\ \/ disk' = "documents" /\ (End("accepted") \/ End("api_error"))
     \/ disk' = "json" /\ (End("render_failed") \/ End("api_error"))
     \/ disk' = disk /\ End("api_error")
  /\ UNCHANGED <<afterwards, open, signed, attempts>>
-----------------------------------------------------------------------------
Cli == \/ CliLoadsMemory \/ CliReads \/ CliSubmits \/ CliRestartsServer \/ CliExits
       \/ \E fresh \in BOOLEAN, calls \in Lines : CliSays(fresh, calls)

Server == \/ ServerRefuses \/ ServerBuys \/ HandlerRaises \/ ServerSettles \/ ServerAnswers
          \/ \E yes \in BOOLEAN : HandlerJudges(yes)

Driver == \/ Spawn \/ ReadMemory \/ ReadMessage \/ ReadResult \/ StreamEnds
          \/ StopCli \/ CountAttempts \/ TakeAccepted
          \/ Decide \/ NoGate \/ GateAnswers \/ GateRaises \/ Draft \/ Render

Next == Cli \/ Server \/ Driver \/ StreamRaises \/ AlarmRings \/ AlarmStops

Spec == Init /\ [][Next]_vars

\* The driver's thread and the timer's go on.  Nothing is asked of the CLI or of
\* its server: either may hang for good.
FairSpec == Spec /\ WF_vars(Driver) /\ WF_vars(AlarmRings) /\ WF_vars(AlarmStops)
-----------------------------------------------------------------------------
(* Properties *)

Over == outcome # "none"

\* Trace checks 7 and 8 of a run whose stream was read to a stop: what run_end
\* reports is what the step lines hold, a call no budget could buy is on neither,
\* and no step but the last is left with a call that has no result.
LinesReconcile ==
  Over /\ ~raised => /\ file.ends = 1
                     /\ file.steps = steps
                     /\ file.calls = tool_calls
                     /\ file.submitCalls = submits
                     /\ file.owedBefore = 0

\* An acceptance the model was told of is never lost to the timer, to a budget that
\* ran out after it, to the exit code or to a server that died: the run ends at the
\* gate or behind it, or with the raise.
AcceptanceStands ==
  Over /\ told => outcome \in {"accepted", "gate_rejected", "render_failed", "api_error"}

\* "Acceptance happens once": the record a run goes on with is the one of the last
\* accepted attempt of the spool, whose feedback record.json quotes, even while the
\* server of a killed CLI is still writing.
SignedIsLast ==
  signed # 0 => /\ signed <= Len(spool.entries) /\ spool.entries[signed]
                /\ \A i \in signed+1..Len(spool.entries) : ~spool.entries[i]
                /\ spool.accepted = signed

\* The budgets hold from both sides: the driver's on the trace, the server's on the
\* attempts it answers, once per server the CLI starts.
BudgetsHeld ==
  /\ tool_calls <= ToolBudget /\ submits <= MaxSubmits
  /\ file.steps <= MaxTurns + 1
  /\ Len(spool.entries) <= MaxSubmits * (restarts + 1)

\* A CLI that hangs, a server that hangs or a stream that never ends: the timer
\* still brings the run to its run_end.
EveryRunEnds == <>Over

Gate == IF file.approvals > 0 THEN "approved"
        ELSE IF file.refusals > 0 THEN "rejected" ELSE "none"

Contract == INSTANCE RunContract
              WITH gated <- arm = "advanced", lines <- file.steps, signed <- signed # 0,
                   gate <- Gate, published <- disk

\* The local brain keeps the contract of a run that the API loop keeps.
ImplementsContract == Contract!Spec
=============================================================================
