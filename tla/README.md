# art30: a TLA+ model of the scanner, its verifier, its gates, its website and its harness

art30 reads a repository and produces a record of processing activities. A run
is a conversation between a model and a handful of tools under two budgets; the
model submits a record, a verifier accepts or rejects it, on the advanced arm a
person approves it, and only then is it rendered. Everything a run did is in one
JSONL trace, and everything the project reports is computed from those traces.

This directory holds the specifications of that machinery, the TLC models that
check them on small instances and the proofs TLAPS checks for every instance.

    tlc -config MCAgentLoop.cfg MCAgentLoop        (and so on: one line of section 3 each)
    tlapm AgentLoop_proofs.tla
    tlapm Files_proofs.tla
    tlapm GateExchange_proofs.tla
    tlapm LocalBrain_proofs.tla
    tlapm Report_proofs.tla
    tlapm TraceLife_proofs.tla
    tlapm Verifier_proofs.tla
    tlapm WebRun_proofs.tla

## 1. The system

### Components

| Component | Source | State | Operations |
|---|---|---|---|
| Agent loop | `art30/loop.py` | counters of `RunCtx`, the pending batch, the trace, the output folder | one turn, one call, a submit, the flush, the five early stops, gate, draft, render, `run_end` |
| Trace | `art30/trace.py` | a JSONL file, flushed line by line | `run_start`, `step`, `checkpoint`, `run_end` |
| Arms | `baseline/arm.py`, `advanced/arm.py` | none | `handle_submit`, `gate` |
| LLM client, replay cache | `art30/llm.py` | one slot directory per run, one file per step | `call`, `Cache.read`, `Cache.write` |
| Tools | `art30/tools.py` | the repository, read only | `dispatch` |
| Local brain | `art30/brains/` | the CLI child, its stdout, the stop flag, the spool files | `feed`/`close` of the stepper, `submit` of the MCP server, alarm, terminate, outcome |
| Codex dialect, prices | `art30/brains/codex_events.py`, `pricing.py` | the open step, a turn's usage | one event, one step's settlement |
| Human gate | `advanced/gate.py` | `gate/request.json`, `gate/decision.json` | ask, poll, obey, give up, apply edits |
| Renderer | `art30/render/` | `record.json`, `record.md`, `record.html`, `record.draft.json` | `render_all`, `write_draft` |
| Verifier | `art30/verify/` | none: a function of record and repository | detection, ways in, walk, verdicts, caps, completeness, check |
| Web registry and stream | `art30/web/runs.py`, `sse.py`, `api.py` | `_runs`, `Run.cancelled`, a stream's offsets | `start`, `spawn`, `get`, `adopt`, `cancel`, `events`, the gate POST |
| Settings | `art30/settings.py`, `config.py`, `web/settings_api.py` | two settings files and `.env` | `load`, `write`, `unset` |
| Command line | `art30/cli.py`, `config_cli.py` | none | `scan` up to the run or its refusal, `config` |
| Sweep | `evals/harness/run.py`, `cells.py`, `plan.py` | a tree of traces, results and failure copies | select, lock, launch, kill at the limit, repair, owe a `run_end`, score, file |
| Ledger | `evals/harness/ledger.py` | a hash-chained file and its committed copy | check, append |
| Trace validator | `evals/harness/trace_check*.py` | none | eighteen checks of one file |
| Scores and reports | `evals/harness/score.py`, `facts.py`, `report.py`, `reverify.py`, `stats.py` | none | functions of finished files |
| Skill bundle, fixtures | `skill/`, `evals/fixtures/` | data | none |

### How they interact

- The loop calls `llm.call`, `tools.dispatch`, `arm.handle_submit`, `arm.gate` and
  the renderer one after the other, in one thread. Each may raise; one outer
  `except` turns a raise into a `run_end` line.
- The local brain replaces the loop: the CLI runs the conversation, the driver
  reads its stdout, the CLI's MCP server judges submissions and leaves them in the
  *spool*, a timer thread stops the CLI. They share files, a pipe and one flag,
  with no lock.
- With `--approve file` the gate is a pair of files. Who answers is a handler
  thread of the website or a person with an editor.
- The website spawns `art30 scan` as a child and knows about it only by its exit
  and its files. One stream per open page polls both. The sweep spawns the same
  children, in batches, and closes out what they left.
- Each of the three surfaces checks what it is asked before it spawns, in its own
  words, and the child checks again when it has read the settings, which others may
  be writing.
- The verifier turns a record and a repository into an answer the model acts on: up
  to five rounds, each looking at a different record.
- A score reads the published record or the draft, the trace and a manifest; the
  report reads a tree that several sweeps may have written.

### What is hard

Interleavings of four processes around the spool; a decision file with several
writers and a poller; a registry read by one thread while another is between
`Popen` and registration; a budget that runs out in the middle of a batch; raises
that leave by another door than the returns; children killed while they write;
trees that one sweep inherits from another; read, check and append of files nobody
locks; restarts of the MCP server and of the web server. The verifier is sequential:
its difficulty is in its definitions (cycles, modes, the order of passes, of rows and of
caps, and three ways to match a claim with a store). The full list, each at its line, is
`hazards` in `PROJECT.json`.

### What makes each component correct

- Loop and local brain: budgets are never overrun; `run_end` says what the step
  lines say; a record is published only if accepted and, where there is a gate,
  approved; every run ends. Both keep one contract.
- Gate: an answer given to an earlier run is not obeyed; nobody answers ahead of
  the request; the poll ends; what a person set is what is published, and no more.
- Verifier: what a walk returns is a path of the code, in modes earned on the way, and
  what it does not return is not there; what is accepted is backed by the walks; its answers
  lead to an accepted record.
- Website: a page sees every line before `done`; a started run keeps its process
  handle; a gate is shown; a cancelled child dies.
- Files: a write that met no other does what it says; the ceiling of live sweeps holds or
  is seen to be broken; a replay is told one conversation that was really had.
- Starting: a test case never runs live by accident, whoever starts it; a cell makes the
  requests its plan names.
- Sweep: a killed run leaves a trace that passes the validator; the `run_end` a parent writes is
  true; a sweep ends. Scores and report: a pass is the truth, nothing false is laundered, one
  table is of one engine.

## 2. Modules

| Module | Models | Checked by |
|---|---|---|
| `RunContract` | the promise of a run, abstractly | as a property of the next two |
| `AgentLoop` | `loop.py` with the trace it writes and the end phase | `MCAgentLoop` |
| `LocalBrain` | driver, stepper, MCP server, spool, CLI, alarm | `MCLocalBrain` |
| `GateExchange` | the file gate with its writers | `MCGateExchange` |
| `WebRun` | spawn, registry, cancel, event stream, list of runs, restart | `MCWebRun` |
| `SweepCells`, `Report` | the sweep, its children and the tree they share; the report and the rescoring of that tree | `MCSweepCells` |
| `Reach` | the verifier's walk over the call graph | `MCReach` |
| `Verdicts` | memoised walks, timers, columns, the nine rows, both caps | `MCCheck` |
| `Discovery` | the nine passes that find the ways in | `MCCheck` |
| `Check` | declared entries, matching, citations, the rejections; a model that mends its record | `MCCheck` |
| `Scores` | one record and one manifest into one score | `MCCheck` |
| `Signing` | the decision at the gate, what is published of it, what is scored of it | `MCCheck` |
| `SettingsFile` | layers, precedence, the rewrite of one line by several threads | `MCFiles` |
| `Scans` | what a terminal, the website and a sweep hand to a child, and what it makes of it | `MCFiles` |
| `Ledger` | a sweep's plan and lock; the ledger under several sweeps | `MCFiles` |
| `ReplayCache` | recording and replaying one slot | `MCFiles` |
| `TraceLines` | the four lines of a trace, in the fields somebody reads | `MCTraceLife` |
| `CodexSteps` | codex events into steps, usage settled, prices | `MCTraceLife` |
| `TraceChecks` | the validator, its eighteen checks | `MCTraceLife` |
| `TraceLife` | one cell followed through its file: written, killed, torn, repaired, closed, validated | `MCTraceLife` |
| `AgentLoop_proofs`, `LocalBrain_proofs`, `GateExchange_proofs`, `WebRun_proofs`, `Verifier_proofs`, `Report_proofs`, `Files_proofs`, `TraceLife_proofs` | theorems (section 4) | TLAPS |

Composition: `Report` extends `SweepCells`; `Signing` extends `Check` and `Scores`, `Check`
extends `Discovery`, which extends `Verdicts`; `Scans` extends `SettingsFile`; `TraceLife`
extends `TraceChecks` and `CodexSteps`, which extends `TraceLines`. `MCFiles` puts `Scans`,
`Ledger` and `ReplayCache` side by side, one of them moving in a behaviour.
`AgentLoop` and `LocalBrain` each instantiate `RunContract` under a refinement mapping.

### AgentLoop

One action per straight piece of `_run`: a failed call, an early stop, a turn
without calls, the taking up of a batch, then for each call the budget test
(`BudgetExhausted`), a dispatch, a second submit, or an attempt in two steps
(`Submit` before the handler, then `Accept`, `Reject`, `VerdictRaises` or `BatchRaises`), and
`EndBatch`. `VerdictRaises` is the terminal view raising over the verdict it is shown (`loop.py:239`): a
rejection is counted by then, but the attempts are not yet looked at, so a run whose last
attempt was rejected ends `api_error`. `_finish` is `NoGate`, `GateApproves`, `GateRejects`, `GateRaises`,
`Draft`, `Render`. `pending` is the batch in flight as `state["pending"]` holds it;
`FlushAndStop` is `_flush` followed by `_stop`, and `EndBatch` includes the flush.

The trace is not kept line by line. `file` holds what a reader adds up: the step
lines, the last step number, calls, submit calls, rejections and second submits
on the lines, calls that have no result on the last line and before it,
checkpoints, `run_end` lines. A model's answer is any batch of up to `MaxBatch`
calls of the kinds `tool` and `submit_record`; cost is whether the ceiling is
crossed, chosen per turn and never taken back. Second submits are counted apart, as
`docs/spec/02-agent-loop.md` has it; check 8 of `06-traces.md` does not.

### LocalBrain

Four sequential processes: the CLI (external: it speaks, reads, submits, restarts
its server and exits as it likes), the MCP server (`ServerRefuses`, `ServerBuys`,
`HandlerJudges`, `ServerSettles`, `ServerAnswers`: the attempt is bought before the
handler and the spool is written in two steps after it), the driver's reader
(`ReadMessage` is `Stepper.feed` with its merge, budgets and halt; `StopCli` is the
`finally` of `_spawn` plus the close) and the alarm thread. After the CLI is
stopped the driver reads the spool in two steps, `CountAttempts` and
`TakeAccepted`, while the server may still be writing.

### GateExchange

Files are inodes, because a writer that opened a file goes on writing it after a
rename. `site` is where the gate stands: on the website (posters, one run per
folder, `decision.part` and a rename) or on the command line (hands that write
`decision.json` in place, successive runs in one folder). `left` is a history
variable: the answer that was complete when a run moved the earlier one aside.
`deadline` is what `_timeout` makes of whatever `ART30_GATE_TIMEOUT` is set to (`Timeout`).

### WebRun

One child, one registry entry, several streams. A stream's pass is the four steps
of the `events` loop: the exit, the files, the gate, the end. `handle` is what
`_runs` holds: nothing, our process, or the stand-in that `adopt` makes. The child
writes lines, asks, and dies at any moment. A restart of the server forgets the
registry, the streams and the kill thread; children live on. `Listing` is the list of runs
that the history page shows.

### SweepCells and Report

Cells of a plan, each a child process with a trace whose lines may be whole, torn
or glued together (junk). The parent launches the head, then batches; when a batch
is over it closes out cell by cell: `Close` (repair and the timeout's end, or the end
a child owed), `Score`, `File`. `Interrupted` is Ctrl-C: parent and children go, the
tree stays as it is for the next sweep.

`Report` adds no step. It reads the tree at any state: `TraceFacts` and `Settle` are
`facts.py`, `Row`, `Refuses` and `Build` are `report.py`, `Rescored` is `reverify.py`. Each
sweep has an engine (brain, model, price, prompt), quantified in the property over
`Engines`, so the state space is that of the sweep alone.

### Reach

`_search` with its loops opened up: `Pop` and `Arrive` take the head of the queue,
`Follow` and `Skip` are the body of the loop over the out-edges, one edge at a time.
A graph gives each node its sorted out-edges; `Usable` is the filter of `_out`,
applied when the edge comes up. `found` and `answer` keep an arrival (the search
state with its path) as a set of at most one. `AdmissibleModes` has for each kind of
edge the modes its builder in `synthetic.py` gives it; a primitive edge (SE12) may set any
mode or none. `path_exists`, `from_symbol` and `Reach.walk` are questions: a start, a
target or none, nodes to pass, resolved edges only or all, blocked nodes.

The properties do not use the search's own test for an edge where they judge a path:
`IsWalk` says what a path must be from the path alone (the mode before a step is what
the last step that sets one has set), so a walk that mixed up its modes would show.

### Verdicts, Discovery, Check

A *scan* is what detection found, in the fields the rules tell apart; names are
numbers in the order the code sorts them. `NewReach` walks from every entry point, memoised by
the entry's node as the code does, over the edges that the modes allow (the modes are
`Reach`'s question). `Decide` applies the nine rows of `verdicts.py` in order, with the timer,
the anonymisation of columns (and the record's columns joined to the scan's), the field
overrides, what takes a store out of row 4 (`downgrades.py`) and row 8's reasons; `Capped`
is both caps, after the rows and only downwards: the evidence hangs on a declared entry
point (`OnlyDeclared` where there is no path), or a parent's delete may raise.

`Discovery` has the passes of `entrypoints.py` in their order over functions with
decorators, classes with a base, call sites and schedules; what one claims most of the
later ones leave alone, and a task nothing schedules is set aside. `Scanned` joins it to
a scan.

`Check` compares a record with a scan: the schema and the handler invariants of `arm.py` (columns that are
there once, names that are unique as `norm` reads them, the verdict of a claim and of each
of its columns with evidence, timer and kind, time limits), matches by name, by citation and
without an app prefix, citations that read back, the two sweeps over missing and
unknown stores, declared entry points with their match and guards. A model is
any that does what the answer says: `Mend` changes what is complained about, and may
slip while it does (it adds a missing store with a verdict nobody asked for or from a file
it has not read, drops a timer, mistakes a line), which `slipped` records.
The state is the scan, the record, the attempt and the answer.

### Scores and Signing

`ScoreRun` matches stores of a record and of a manifest by their normalised names
(`Spelled`: an app prefix, a stem, a dot) and counts triples of store, field and whether
erasure reaches it. `Signing` continues a behaviour of `Check`: an accepted record meets the
gate in one of three modes, is edited, approved or turned down, published and scored; a
record that was turned down scores its draft.

### SettingsFile and Scans

A file is a sequence of lines, each of a key in its own spelling or an alias, with a
value, an empty one or one that does not parse. Writing is what `_rewrite` and `write_text`
do: read, truncate, write, with other threads in between, and a server may stop at each.
Bytes written over another writer's are kept as far as they reach (`Over`).

`Scans` follows one scan from the request to the run or the refusal. `Website` and
`Sweep` make the command line and the environment of the child (`WebsiteEnv`, `CellEnv`)
after their own checks; `Terminal` hands over what was typed. `Main` reads the settings at one
moment of the files, resolves the case, its kind, the brain and the model, and refuses for
the reasons of `cli.py`, in their order. A thread of `SettingsFile` may be writing meanwhile.

### Ledger

`SelectCases`, `Plannable`, `Frozen` and `BuildCells` are `plan.py`, `Locked` and `Unlocked` what
`_check_lock` asks. `CheckLock` and `AppendLine` are two steps, so sweeps overlap
between them. Lines are linked by the line before; people may drop a line and
commit the file, and the committed copy is what `ChainHolds` compares with.

### ReplayCache

`Live` asks the API and opens the step's file, `WriteEntry` fills it; the first of a run's
writes clears the slot, and `Die` may come between the two. A replay (`Read`) hits where the hash of its own request, which is the whole
conversation so far with its parameters, is in the file of its step. `sole` is a history
variable: who has emptied the slot last, while no other wrote.

### TraceLines, CodexSteps, TraceChecks, TraceLife

Lines in the fields that the validator, the report or the parent reads. `CodexSteps` is
the codex stepper event by event with the settlement of a turn's usage and the price of a
step. `TraceChecks` has checks 1 to 18, of 11 the risk against a record that parses. `TraceLife` writes
a file as the loop and as the driver do, one turn an action, lets the child be killed at its
limit or die in any write, repairs, owes and files as `cells.py` does, and puts the
result to the validator.

## 3. Runs

| Run | Instance | Shows |
|---|---|---|
| `loop` | 4 tool calls, 2 attempts, 2 nudges, batches up to 3, a cost ceiling, both arms | trace and totals agree at every exit, every call is answered, only signed records are published, every run ends, `RunContract` is implemented |
| `gate` | 2 POSTs, 2 hands, 3 runs in one folder | old answers are not obeyed, a POST alone is atomic, the poll ends |
| `local` | 2 calls, 2 attempts, 2 turns, messages of up to 2 calls, a pipe of 1, 1 server restart, both arms | the lines of the trace and the totals agree, an acceptance stands, the last one is signed, every run ends, `RunContract` is implemented |
| `web` | 2 streams, 1 step line, 1 restart | nothing is lost before `done`, streams end, gates are shown, cancelled children die |
| `cells` | 2 cells, batches of 2, fail-fast, 2 sweeps, 1 step line a child, 4 engines | a report is of one engine, what is scored scores to the same again, a parent's `run_end` is true, a sweep ends |
| `cells_crashed` | 1 cell, 1 sweep | violated: a child that dies before its trace makes `report.py` refuse the tree |
| `reach` | 8 nodes, 1,152 graphs, 7 questions | paths are walks, nothing reachable is missed |
| `verifier` | four families of small repositories, records wrong in up to two claims, decisions, typed answers, manifests | the eight properties of `Verdicts`, `Discovery`, `Check`, `Scores`, `Signing` |
| `verifier_unseen` | same | violated: a field said to be erased, of a store nobody saw, is accepted |
| `verifier_cap` | same | violated: a verdict hangs on an entry point that only the record has |
| `files` | 2 threads over three files, 3 sweeps over a ledger, 2 recorders and a replay over a slot, one scan with a writer beside it | the six properties of the four modules |
| `trace` | 5 cells (API and codex, both arms, both kinds), budgets of 1 to 3 calls and 1 or 2 attempts | traces pass the validator, every damage shows, tokens reconcile |

The violated properties are sentences of a document or a docstring that the code does
not keep. `findings` in `PROJECT.json` quotes each one; section 5 has these and the
disagreements no run is kept for.

### Bounds, and why they are enough

- Loop: a budget of 4 under batches of 3 runs out at every place in a batch,
  including the first and the last call; 2 attempts give a first, a last and a
  second submit in one turn; 3 quiet turns in a row and interrupted sequences of
  them both occur. `MaxBatch` is the only bound the code does not have.
- Gate: two POSTs are all that the shared scratch file tells apart, a third meets
  the same two cases. Three runs let an answer be left over by a run whose own
  earlier answer had been moved aside.
- Local brain: `PipeSize` bounds how far the driver may lag, and a lag of one line
  already lets the CLI and its server be ahead of it; the lag only delays what
  the driver learns. One restart gives the server a spool it did not write.
- Web: a stream does not read another's state, so two are one that adopts and one
  that meets the result. One line and `run_end` are enough for a line to slip
  between the drain and the exit.
- Sweep: the second sweep is the first that inherits a tree, a head and one further
  cell are a batch before and a batch after; a torn line of the first sweep under
  an append of the second is reached. Four engines differ in each field a report compares.
- Reach: the graphs are all that can be cut from one with a view, an admin entry, a
  delete override that calls back into its table, a receiver shared by two tables,
  one foreign key of each cascade kind, guessed calls, a file store and a primitive
  without a mode. Each rule of the mode table that depends on an earlier step occurs on
  a path with and without that step, and an override that deletes its own row makes a
  cycle. In graphs the builders make, a relational store is entered by an edge that sets a
  mode, so the search's own table for mode `none` is never decisive there; the proof does
  not assume it.
- Verifier: each family of repositories varies what one group of rows turns on: who deletes
  (rows 4 and 8, both caps), what is overwritten where (rows 5 to 7, the timer), how a
  function is registered and who shares its name, and the kinds of store with rows of their
  own. Wrong records have every distortion of one claim, every pair of two, each
  claim left out, one claim and the form of the record, and five sets of declared entry points.
  `MaxSubmits` is 5, the default of the code (`config.py:27`): a model that does what it is told
  always gets through in five attempts and not always in four; one that slips while it
  mends may be turned down on its fifth. The baseline arm is compared on two repositories, `Busy` and
  `Blanking`, which also have three manifests; the others have the true one.
- Files: two threads, two recorders and three sweeps against a ceiling of two are what each
  check-then-act needs to go wrong once. Threads, recorders and configurations are
  interchangeable and taken as symmetric (`files` has no liveness property). `MaxEdits` 2 lets
  a line be dropped and another committed. Nine directories, five cases of the four splits,
  four shells and some ninety requests give the surfaces every combination their checks tell apart.
- Trace: the batches hold a submit first, last, alone and twice; budgets run out in
  a batch and between; `MaxEvents` 4 and `MaxTurns` 2 give codex a joined and an unjoined call, a turn
  that reports and one a budget stops. One usage has parts that exceed the input, so the
  clamp is used.

Deadlock checking is off in every model: a run, a sweep, a walk and a set of streams come
to an end by design, and the liveness properties say that they do.

### Fairness

- `AgentLoop`: `WF_vars(Next)`. The loop is one thread; the calls it makes return.
- `GateExchange`: the child's own steps, its clock, and the handler threads that have
  been started. No person has to answer and nobody has to be killed. The clock reaches a
  deadline that is a number; that the deadline is one is not assumed, `Timeout` computes it
  as `_timeout` does, and a gate that took `nan` or `inf` as it comes would never end.
- `LocalBrain`: the driver's thread and the timer. The CLI and its server may hang
  for ever; `EveryRunEnds` rests on the alarm alone.
- `WebRun`: passes of open streams and the kill thread. Children and pages owe
  nothing.
- `SweepCells`: the parent, and the limit of each launch. No child has to finish.
- `Reach`, `MCCheck`, `MCFiles`, `MCTraceLife`: none. They have safety properties only; that
  a model gets through is stated as a bound (`EnoughAttempts`).

## 4. Proofs

Each theorem holds for every value of the constants under the named assumptions of its
module. TLC evaluates each assumption in the run of its module.

- Numbers and processes: numbers are natural, a batch has at least one call and a run one attempt,
  sets of processes are disjoint from each other and from the words that stand for a verdict,
  a node's out-edges start at it, a conversation has a bounded length.
- `InputsAssumption` (`Check`): the entry points of a scan are what the passes find, in order,
  an entry point has one place and at most one function, there are finitely many stores, and
  a record lists its claims. `ClaimsAssumption` (`Signing`): a claim has finitely many columns,
  and a name without a dot is its own head.
- `ManifestsAssumption` (`Signing`): no two stores of a case have one normalised name and every field
  has a verdict that is one, which the generator checks of what it writes
  (`evals/fixtures/checks.py:95-101`, `tests/test_gen.py:138-149`).
- `EnginesAssumption` (`Report`): an engine is configured with and answers as finitely many models.
- `LifeAssumption` (`TraceLife`): a cell's budgets are the literals unless `run_start` declares others
  (`config.py`; naming the default of 60 calls declares nothing, and allows a real case less than the
  validator would), budgets are natural and a run has an attempt (`settings.py` checks that they are numbers,
  not their range: what is below that is set aside), a batch is a sequence, the stores of a record are,
  and costs, prices and what `_count` lets through of a usage are natural numbers.
- `SettingsAssumption`, `ScansAssumption`: the request settings are those of `config.py:39-45`, the
  secret is none of them, no directory below the fixtures is called like a case that it is not; a line
  of `.env` has the key as the environment spells it (`read_dotenv` knows no other form).

| Module | Theorems | Stated by a run |
|---|---|---|
| `AgentLoop_proofs` | `TypeCorrect`, `Reconciles`, `BudgetsNeverOverrun`, `CallsAnswered`, `NothingUnsigned`, `TurnsAreBounded`, `LinesInOrder`, `LoopKeepsContract` | `CountersReconcile`, `EveryCallAnswered`, `PublishedIsSigned`, `ImplementsContract` |
| `LocalBrain_proofs` | `LocalTypes`, `AcceptanceIsKept`, `AcceptanceHappensOnce`, `BudgetsAreHeld`, `BrainKeepsContract`, `LinesAddUp` | `AcceptanceStands`, `SignedIsLast`, `ImplementsContract`, `LinesReconcile` |
| `GateExchange_proofs` | `GateTypes`, `OldAnswersNeverObeyed`, `NobodyAnswersAhead`, `AlonePostIsAtomic` | `OldAnswersIgnored`, `AloneIsHonest` |
| `WebRun_proofs` | `TypeCorrect`, `ProcessesAreKept`, `NothingIsLost` | `DoneIsWhole` |
| `Verifier_proofs` | `WalkTypes`, `EveryPathIsAWalk`, `NoStoreMissed`, `SignConsistent`, `BackedAlways`, `ColumnsOnlyLowerAlways`, `UnscheduledStaysOutAlways`, `SignedIsShownAlways`, `NothingLaunderedAlways`, `PassIsTruthAlways`, `AcceptedScoresSafeAlways` | `PathsAreWalks`, `NothingMissed`, `AcceptedIsBacked`, `ColumnsNeverRaise`, `UnscheduledStaysOut`, `SignedIsShown`, `NothingLaundered`, `PassIsTruth`, `AcceptedScoresSafe` |
| `Report_proofs` | `SweepConsistent`, `EndIsTrueAlways`, `RescoresAlways`, `OneEngineAlways` | `EndIsTrue`, `Rescores`, `OneEngine` |
| `TraceLife_proofs` | `TokensAddUp`, `TracePassesAlways`, `DamageShowsAlways` | `TokensReconcile`, `TracePasses`, `DamageShows` |
| `Files_proofs` | `RecordingsDoNotMix`, `SlotHoldsOneRun`, `LocksHold`, `RunsAreAsPlanned`, `CeilingHolds`, `WritesAreExact` | `ReplayIsOneRecording`, `SlotIsTheRun`, `LocksAgree`, `SameRun`, `CeilingOrRefused`, `AloneIsExact` |

What has no entry in the last column is proved for every instance and is no property of a
run: types, budgets, the bound on turns, the order of lines, that nobody answers ahead of a
request, that a process is kept, and the invariants `SignInv` and `SweepInv` themselves.

Sums, folds and recursive functions. The library's induction theorems take an operator as
a parameter and cannot be cited. Where a proof needs an induction it takes the least
counterexample: a set of naturals that is not empty has a least element
(`NatLessThanWellFounded`), so a bad number has a least bad one, and the one before it is good
(`Least` and `Induction` in `Verifier_proofs`, `LeastOf` in `Files_proofs` and `Report_proofs`). Where a
sum is needed it is a function that exists beside the sequence, with its value before and after each
element (`Balanced` in `LocalBrain_proofs`); a step extends it or shifts it.

### The loop

`Reconciles`: whichever exit wrote `run_end`, the lines add up to it. The two
properties speak only of finished runs, so they are not inductive. The strengthening
`IInv` is `TypeOK` and `Accounts`, which says what the counters and the file owe each
other in the middle of a batch:

- `InFlight`: a pending batch exists exactly in `batch` and `handler`, belongs to the
  turn after the last line, and has answered every call it has taken but the one
  in the handler;
- `Owed`: calls on file plus calls taken are `tool_calls`, and likewise for attempts
  and rejections, second submits kept apart on both sides;
- `Lines`: one line per billed turn, the one in flight excepted;
- `Ended`: `run_end` is there exactly when the run is over, once.

Each action has a lemma `IInv /\ Action => IInv'`. The exits that flush share
`FlushStops`, which is where the argument really is: the pending batch becomes a
line that takes over exactly what was owed.

On it build the others, one strengthening for each property:

- `Spent` (for `BudgetsHeld`): at each place of the loop, how the attempts bought are
  split into rejected, accepted and in the handler. A run that starts another turn
  has an attempt left. One that is over after the rejection of its last attempt stopped for it, or
  because the view raised over it.
- `Answered` (for `EveryCallAnswered`): only the last line can owe a result, and
  only one. It needs `InFlight`, for a flush turns the batch's open call into the
  line's.
- `Signed` (for `PublishedIsSigned`): where the run stands in the end phase, and which
  checkpoint is on file there.
- `Turns` (for `TurnsBounded`): `Room`, the product of the calls bought so far and the
  quiet turns that each may be followed by, grows faster than the turns. A batch in
  flight has not paid for its turn until it has taken a call.
- `LoopKeepsContract`: every action maps to one step of `RunContract` or to a stutter,
  under the same mapping that TLC checks.
- `LinesInOrder` comes from the contract: it adds lines one at a time and none after
  a checkpoint, and `Lines` before and after the step says that a line's number is
  their count. `OverIsOver` adds that a run that has ended takes no step.

### The local brain

`SInv` is `TypeOK` with `Waiting` (the server is asked by a CLI that is up, about the oldest
open call), `Settled` (the spool and the server's answer agree, and the server judges nothing
after an acceptance) and `Taken` (the CLI is gone before the spool is read, and what is
read is the spool's last word). From it follow `AcceptanceIsKept` and
`AcceptanceHappensOnce`; that a server may outlive its CLI and go on writing is where they
could fail. `Attempts` counts what each server may buy, `Spent` what the stepper has bought
(`BudgetsAreHeld`). For the contract, `Finishing` says where a run is between the
spool and the folder and which checkpoint is on file; with it every action is a step of
`RunContract` or a stutter. Both brains are therefore proved to keep one promise.

`LinesAddUp` needs the pipe. `Lined` says that the file and the open step together hold what
the counters say and that no line owes a result before the stream is stopped. That the step
which a new message closes owes none is not local to the driver: it is so because the CLI
begins a message only when the calls of the last have their results, and the driver has bought
every call it has read of as long as it reads on. `InStep` carries this through the pipe: a
function counts the calls that wait, from those of the open step at the reader's end to
those of the CLI at the other, each line adding its calls or taking one away, and it is zero
wherever a message begins. A line that joins a message, or answers it, finds it begun.

### The tokens of a local brain

`TokensAddUp`: no step before the last declares a token, since codex reports a usage for a turn
and never for an item; the totals the stepper keeps are what was reported so far (`Stepping`), each
usage being split into keys that add up to it (`UsageSplits`); and when the stream is over
the step in flight takes them all. What could go wrong is that there is none: from the first step
that is written on one is always in flight, because a step is only closed by an item that opens the
next (`Reading`).

### The gate

`GateExchange_proofs` shows `GInv`. What keeps an old answer out is that a payload lives
in one inode, the one its writer opened (`Placed`), that an inode with a name belongs
to a writer that was there (`Named`), and that an inode moved aside never comes back
under the name `decision.json` (`Aside`): a late writer that still has the old file
open writes to the old inode. `Undecided` and `Website` say where the run and the
folder stand. From it follow `OldAnswersNeverObeyed` and `NobodyAnswersAhead`;
`AlonePostIsAtomic` needs one more conjunct, `Honest`, which follows the single POST
from its check to its rename. With two POSTs it is false (section 5).

### The website

`WInv` is `TypeOK`, `StartedOnce` (a handle on a child, or a thread out to kill it, comes
after the one start) and `Streaming` (what a stream may have sent, by what it has seen
of the exit and of the file). `OwnedStaysOwned` is an action property and needs only
`StartedOnce`; `DoneIsWhole` needs that a stream reads the exit before the files, which is what
`Streaming` carries from the one step to the other.

### The walk

The part of `Verifier_proofs` about `Reach` carries three invariants. `Shape` is the types and the loop counter.
`Honest`: every arrival held anywhere is truthful about its path; only `Follow` makes
one, and `ArrivalGrows` shows that adding an admissible edge to a truthful arrival gives a
truthful one (`ModesStay` and `ModeGrows` are what this says about the modes).
`Covered`: while there is no answer, a state that was enqueued is waiting in the queue,
in hand with its first edges closed, or done with. At the end the queue is empty and
only the last case is left, which is `NothingMissed`. No bound on the graph is used.

### The verifier, the gate's decision and the score

The rest of `Verifier_proofs` is about every repository, record, manifest and budget. `SignInv` ties the state
together: the answer on file is `Check`'s answer to this scan and these entry points and,
once accepted, to this record (`FeedbackOK`); what is published and what the checkpoint says
come from one decision (`SlotOK`); the score is that of what is in the slot (`ScoreOK`). With it
each property is a lemma about operators.

- `BackedAlways`. One lemma for each row of `Decide` that says rows go (`RowFour`, `RowFive`,
  `RowSix`): what such a verdict has been taken on, a start that counts and whose walk reaches the
  store, or a scheduled job whose days can be read. They need that a walk's start, if not
  unregistered, is one the repository has (`WellMade`, `DeclaredIsRegistered`), that the order of the
  entry points loses none and adds none (`InOrderIs`), and that the matching takes each store once
  (`MatchedIs`). The jobs of a store are the scheduled ones: a timer taken from a job that only its
  decorator schedules is what `verifier_cap` shows.
- `ColumnsOnlyLowerAlways`. More columns can only break row 5, so the verdict without them was at
  least as good; no other row looks at them.
- `UnscheduledStaysOutAlways` goes through the nine passes: what they make of a function
  that nothing runs is at most an unscheduled task, and walks do not start there.
- `SignedIsShownAlways`. The edits of a decision are recipients' names; what is applied
  is what the checkpoint lists.
- `NothingLaunderedAlways`, `PassIsTruthAlways`. `ExtractRow` says what is scored under a key:
  the first row of it, every later one is a duplicate. A false `reaches erasure` is therefore
  in the false safe set or among the duplicates, and a record that passes has neither, nothing
  missing and nothing invented (`ManifestsAssumption` keeps the truth's own keys apart).
- `AcceptedScoresSafeAlways`. `Check` and the score read one record in two ways. A false safe has a key
  that the manifest's store and the record's claim share (`FalseSafeIs`); with one store to a
  normalised name that store is the one the claim was matched with (`FoundTruthIs`), and of such
  a claim an accepted record says nothing better than the verifier found (`NotRejected`). That names
  are apart is a hypothesis of the property (`NamesApart`): nothing in the detectors promises it, and of
  two stores with one name the score knows the first alone.

### The sweep and the report

`SweepInv` says how far the parent has come and what follows from it: children live
only in the batch being run (`PlaceOK`), a trace begins with its `run_start` and, if it has
a `run_end`, has it last with the right count (`TraceOK`), a row is that of a closed cell and of its
trace (`RowOK`), a score is of what the slot and the trace hold now, and there is none of a cell
the sweep is still at (`ScoreOK`). The hard step is `Close`: `RepairIs` and `OweIs` say what is left
of a torn or glued last line, and the proof of `EndsWell` counts step lines. `Launch` must clear what
earlier sweeps scored, or the slot would outlive its trace. `OneEngineAlways` then reads the report
off such a tree: a fact has its engine from the `run_start` or from the record's word
(`FactIs`), and two different ones are a refusal.

### The trace file

`TokensAddUp` needs the stepper and the driver alone. `TracePassesAlways` needs everything a file
goes through, and its invariant `TraceInv` has one part for each hand the file is in:

- `Told`, while the child lives. The file is a `run_start`, `n` steps, at most one checkpoint and at the
  end a `run_end` (`BodyOK`). The steps are numbered, their costs add up, no two calls have one id, and each but
  perhaps the last has its results (`StepsOK`). The counters are the lines': `ApiBooks` for the loop,
  `CodexBooks` for the driver, where the step in flight stands for the difference (`InFlight`). Ids stay apart
  because the loop's are of the step and the stepper's of the event they were made in. `Standing` says which
  variables may be set where the child is.
- `Left`, when it was stopped: the file it had, whole, or with the last line torn or without its newline (`Cuts`).
- `Filing`, when the parent is through. `Sound`: the child's own lines, or they with the ending the parent
  owed them, whose totals are counted from the lines (`Owed`). `ByChild`: the child had ended it, and at most
  lost the last newline. `AfterKill` also covers a file that lost all its lines or that has two endings,
  `Swallowed` a death in mid-line, where the ending is glued to a half line; these are
  the cases `TracePasses` leaves out.

The steps of the proof are one lemma for each thing that can happen to a file: a turn adds a line
(`TurnGrows`, `BatchGrows`, `StreamLives`), a stop cuts it (`ExitLeaves`), the parent repairs
and closes it (`ParentKeeps`). That a `Sound` file passes goes through the checks one by
one (`CheckStepOK`, `StartPasses`, `EndPasses`); what is left over are the `Disagreements`. The lines of a
type are taken by their positions (`Only`), and `OnlyStretch` says what they are when the positions
are a stretch. Cardinalities are those of sets of pairs of a step and a call, which a line extends by its own.

`DamageShowsAlways` reads it backwards: a trace that passes is `Clean` (`PassedIsClean`), and for each of the
four damages one lemma says which check trips. A lost or doubled line changes a count that `run_end` or
the frame fixes (`LostShows`, `DoubledShows`), two steps swapped are misnumbered and a
checkpoint swapped with a step comes first (`SwappedShows`), and where the first result of a step is
lost its first call has none, for the others answer other calls (`ResultShows`).

### The files

*Recordings.* `CInv`: the types, `Filed` (a file with an answer is the file of some recorder's step),
`Fresh` (who has not emptied the slot has not been answered) and `Alone` (the recorder that is
alone has every file of its conversation there, but the one it is writing or died over). That a
replay is told one conversation rests on the hash: a hit at a step is a file whose request
holds the whole conversation before it.

*Locks.* `Inv`: `Handed` (what each surface hands over: the website a case that is the directory's and
no test case live, a sweep its lock with its case, a terminal nothing it was not given) and
`Answered` (what the child made of it at the moment it read the settings). The settings do
not enter: whoever writes them, the lock is decided from the command line, the environment
and the directory.

*Requests.* For `RunsAreAsPlanned` the settings do enter. `Pinned` says which settings a cell
and a child of the website are handed in their environment, and `Blindfold` that a child which
is to ignore the settings files has seen them empty; the environment is the highest layer
(`EnvironmentWins`), and what remains open is `.env`, which can
give a cell a model of its local brain and nothing else.

*Settings.* `From` says of every line of a rewritten text where it was, as a growing function into the
positions of the old one (`RewriteFrom`). So the last line that names another setting is the last one
still (`LastStays`, `OthersStay`), the key itself has one line at most (`OwnToml`, `OwnDotenv`) and a
file that could be read still can be (`ParsesStay`); `ValueIs` and `LoadedIs` carry this through the layers
to what a run starts with. `SettingsInv` adds the threads: who was alone at its file has read what the
file held and finds it empty when it writes (`AloneOK`).

*The ledger.* A line carries the line before it, so two chains that end in the same line are one
(`OneChain`, an induction from the end). `LedgerInv`: every line anywhere was written by a sweep that
was let in (`OnlyMinted`); whoever was let in had read a chain with room for it (`LetIn`);
while nobody edits the file, nobody's line is lost (`NothingLost`). Three live lines without an ADR in an
accepted file would give the last of them a prefix with two, and that prefix is what its
sweep had read and was refused on.

### Model-checked only

- Liveness (`EveryRunEnds`, `GateEnds`, `StreamsEnd`, `GateIsShown`, `CancelKills`, `SweepFinishes`):
  the prover does not handle fairness and ENABLED.
- `EnoughAttempts` depends on the size of the budget and is false for 4. It is checked for the code's
  default of 5, for the inputs of section 3, and of models that do what the answers ask: one that
  slips can be spent.

## 5. What the code does that its documents do not say

### Kept as runs

- `verifier_unseen`: for a store the detectors never saw, `check.py:156` looks at the
  store's verdict alone and returns before the fields' overrides are compared, so a record may
  say of a field that it is erased (`03-verifier.md` 7.3 says store *or field*).
- `verifier_cap`: a verdict derived from an entry point that is declared and not registered
  is to be `unverified` (`caps.py:67`, `03-verifier.md:218`), but `caps.py:85` lets the cap go
  when a registered start reaches any one of the writes, and row 2 does not ask. Nor does a timer
  (`03-verifier.md` 6.2): the days of a store may be taken from a declared job that only
  its decorator schedules, and the verdict hangs on it.
- `cells_crashed`: a run without a trace is to be counted as crashed (`cells.py:256`, the
  docstring of `report.py`), but it has been scored, and `report.py:96` refuses a scored run
  without a trace.

### Seen while modelling, and held by the models as the code has it

Runs and traces:

- `driver.py:224`: a raise in the stream loop leaves the open step unwritten, so `run_end`
  counts calls no line shows (`convert.py:170` says they stay equal). `driver.py:329`: an
  accepted run may end with a line that owes a result, which check 4 allows only otherwise
  (`06-traces.md:65`).
- `loop.py:226-232`: second submits of a turn are counted by no budget but are on the
  lines; check 8 counts every `submit_record` (`06-traces.md:69`). `loop.py` `_resolved_history`: `added_on_attempt`
  is the next attempt whenever the store is there at the end, also if it came later.
- `cells.py:244`: a child killed after its `run_end` gets a second one (`06-traces.md:63`).
  `cells.py:246`: a child that dies before its trace is read through the one an earlier
  sweep left (`01-architecture.md:530`). `cells.py:253`: a crash in mid-line is not repaired, so
  the owed `run_end` is glued to the half line. `File` leaves an older `failures/<cell>` where
  a cell is accepted later (`01-architecture.md:629`).
- A sweep interrupted between an accepted end and the scoring leaves a row that is accepted
  with a score of nothing. Nothing catches Ctrl-C (`run.py:250`). A live sweep stopped by
  fail-fast writes its clock over `results/timing.json` (`run.py:169`).
- The validator: check 13 compares with the environment's `ART30_MODEL` alone, check 16 trips
  on notes that quote a byte count or "truncat", a checkpoint of a run that was neither accepted nor
  rejected is counted by nothing.

Verifier and scores:

- `reach.py:186`: walks are memoised by the function's short name, so a job nothing schedules
  can count for a scheduled one of its name, although `reach.py:174` says it is never a start.
- `advanced/arm.py:64`: the cross-check walks from discovered entry points only, the check
  itself also from declared ones.
- `reverify.py:62` does not compare the draft's score, which the table prints. A draft's score
  has no duplicates. A record that was written by a run that ended `render_failed` or `timeout` is scored,
  where `05-eval-harness.md` 4.4 gives zero. `score.py` and `completeness.py` normalise names
  differently.

Website and settings:

- `runs.py:257-259` says that the child never reads half a file; two overlapping POSTs share
  one `decision.part`, and it may. `adopt()` lets a stream of another server's live run send `done`
  while the child runs (`docs/web.md:49`).
- `config.py:168`: `brain_model` is looked up for the brain of the settings, before `--brain`
  is applied: `claude_model` is ignored under `--brain claude` when the settings say `api`
  (`settings.py:62`, `docs/web.md:77`).
- `catalog.py:92` takes an empty `ANTHROPIC_API_KEY=` of `.env`, which `.env.example` ships, for
  a key: the page offers a live run that the child refuses.
- A replay of the website ignores the settings files and not the exported `ART30_*`
  variables, nor `.env`; a pin of a cell that is empty stops neither, so `.env`'s `ART30_CLAUDE_MODEL`
  reaches a cell. `docs/settings.md` means the files only; `settings.py:230` ("no file of the user's") is
  worded wider.
- Neither the command line nor the website takes a sub-directory of a test fixture for it
  (`split.yaml`, comment 4); the reserve is locked by the harness alone. A sweep checks neither the key
  nor `--brain` with `--mode replay`: every cell exits at once and counts as crashed. `cli.py:402`
  prints a trace path by the directory's name, which for a vendored case is not the file written.
- Two saves at once lose one; a stop between truncation and write leaves an empty file; a
  child that reads settings at that moment runs at defaults. A line in another spelling that comes after
  one's own still wins. `AloneIsExact` says what is promised when none of this happens.
- A sweep with an empty `--seeds` still appends its line to the ledger.

None of the second list has a run: each is either a single assignment a test can show, or a
choice that some document supports.

## 6. Not modelled, and the limits of the models

- **Detection** (`callgraph.py`, `stores.py`, `primitives.py`, `facts.py`, `rules.py`, ...): pattern
  matching over syntax trees against rule data. A scan is an input of the models.
- **Layout**: the renderers, the tables, the confidence intervals, the terminal view, prompts,
  the HTTP plumbing, the page assets. Read-only routes change nothing.
- **A failing trace writer**: `_flush` survives a raise of `trace.step`; the models let every
  write succeed. **Tools**: the jail and the search.
- **Stale names**: two decisions moved aside within one second share a name; what is lost is
  an audit copy. **A decision without an address**: in a folder shared by successive runs, someone
  answering run 1 after run 2 has asked decides run 2. `OldAnswersIgnored` covers what was
  complete before the request; the rest is the protocol's design.
- **Orphan MCP servers** of an earlier run that write into a spool reset by the next.
- **Lost updates of a settings file**: in `SettingsFile` one of two overlapping writes may be lost and a reader may
  see a truncated file, as in the code; no property forbids either. **A raise in the driver's stream
  loop** leaves the open step unwritten, and `LinesReconcile` is stated of runs without one.
- **Skill bundle and fixtures**: a packaged prompt, and data.
- `Signing` leaves out the texts of retention and of citations and takes the names of a manifest to stay
  apart when they are normalised. In `Check` a record without the schema's shape, a forbidden word,
  an absolute path and a line below 1 are flags of the record, a time limit is whole or not, and a
  claim is told of its first bad position. In `TraceChecks` a record that is there parses (check 11).
- `Scans` follows one scan, one local brain beside the API and one writer; a gate that is
  not named by a flag is taken as `ask`, `.env`'s switches are folded into the shell's, and
  the arm can always be imported. `Ledger` takes an ADR as a flag of a sweep. `Report` leaves out the overlap
  of recording windows. `TraceLife` tears only the last line.

## 7. Plan

Done: sections 2 to 4. What would come next, most important first:

1. Two drivers over one spool, for the orphan server; a trace writer that fails.
