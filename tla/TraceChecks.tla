----------------------------- MODULE TraceChecks -----------------------------
(***************************************************************************)
(* The trace validator (evals/harness/trace_check.py, trace_checks.py): a  *)
(* pure function from a trace file to the numbered checks of               *)
(* docs/spec/06-traces.md it violates.  A trace is a sequence of lines in  *)
(* the fields of art30/trace.py; a line of another shape than the writers  *)
(* write is one of two: torn, which does not parse, and unended, which     *)
(* parses but lacks its newline.  A note is the number of byte counts in   *)
(* it, a payload is what its "accepted" says, the recipients a person      *)
(* filled in are the stores they were filled in for.                       *)
(***************************************************************************)
EXTENDS Integers, Sequences, FiniteSets

CONSTANTS ConfiguredModel,  \* os.environ["ART30_MODEL"] of the validator, or its default
          SyntheticTools,   \* the literal 60
          RealTools,        \* the literal 120
          SubmitBudget      \* SUBMIT_BUDGET

ASSUME BudgetAssumption == SyntheticTools \in Nat /\ RealTools \in Nat /\ SubmitBudget \in Nat

StopConditions == {"accepted", "gate_rejected", "budget_exhausted", "max_submits", "max_tokens",
                   "no_submission", "timeout", "crashed", "replay_miss", "render_failed",
                   "api_error", "refusal"}
Art30Vars == {"ART30_MODEL", "ART30_EFFORT", "ART30_MODE", "ART30_RECORD", "ART30_MAX_TOKENS",
              "ART30_TOOL_BUDGET", "ART30_SUBMIT_BUDGET", "ART30_MAX_USD", "ART30_UNLOCK_TEST",
              "ART30_REPRODUCIBLE", "ART30_CONCURRENCY", "ART30_CACHE_DIR"}
HighVerdicts == {"not_erased", "pseudonymised", "external_manual", "no_entry_point",
                 "no_schedule_evidenced", "unverified"}
HighCategories == {"identifier", "contact"}
Reaches == {"erased", "erased_after_timer", "anonymised"}
UsageKeys == {"input", "cache_read", "cache_write", "output"}

Torn == [type |-> "torn"]
Unended(line) == [type |-> "unended", of |-> line]

When(wrong, check) == IF wrong THEN {check} ELSE {}

\* The lines of a type, by their positions (SelectSeq, without its operator argument).
Only(lines, type) ==
  LET at == {i \in DOMAIN lines : lines[i].type = type}
  IN [k \in 1..Cardinality(at) |->
        lines[CHOOSE i \in at : Cardinality({j \in at : j <= i}) = k]]

\* The positions of the tool calls on the step lines, and of those to submit_record.
Calls(steps) == UNION {{i} \X DOMAIN steps[i].calls : i \in DOMAIN steps}
Submits(steps) == {at \in Calls(steps) : steps[at[1]].calls[at[2]].name = "submit_record"}

\* _rejections: the accepted:false results of submit_record calls
Rejections(steps) ==
  {at \in UNION {{i} \X DOMAIN steps[i].results : i \in DOMAIN steps} :
     LET result == steps[at[1]].results[at[2]]
     IN /\ result.says = "no"
        /\ \E sub \in Submits(steps) : sub[1] = at[1] /\ steps[at[1]].calls[sub[2]].id = result.call}

\* _risk: a store that keeps an identifier decides, a timer is the middle
Risk(stores) ==
  IF \E i \in DOMAIN stores : /\ stores[i].verdict \in HighVerdicts
                              /\ stores[i].categories \cap HighCategories # {}
  THEN "high"
  ELSE LET verdicts == {stores[i].verdict : i \in DOMAIN stores}
       IN IF verdicts \subseteq Reaches /\ "erased_after_timer" \in verdicts THEN "medium" ELSE "low"
-----------------------------------------------------------------------------
(* The checks, each a set of the numbers violated *)

\* Checks 13 and 18: the line names the slot the file lies in
CheckStart(place, start) ==
  When(\/ start.case # place.case \/ start.arm # place.arm
       \/ start.mode \notin {"live", "replay"} \/ start.model # ConfiguredModel, 13)
  \cup When(~(start.overridden \subseteq Art30Vars), 18)

\* Check 12's hash: only a local brain has no request to hash
HashMissing(step, brain) == ~step.hashed /\ brain = "api"

\* Checks 3, 4, 5, 6 and 12 of one step line
CheckStep(steps, i, accepted, brain) ==
  LET step == steps[i]
      before == IF i = 1 THEN 0 ELSE steps[i - 1].cum
      ids == {step.calls[j].id : j \in DOMAIN step.calls}
      Answers(id) == Cardinality({k \in DOMAIN step.results : step.results[k].call = id})
      mayOwe == i = Len(steps) /\ ~accepted
      Earlier(at, j) == at[1] < i \/ (at[1] = i /\ at[2] < j)
  IN When(step.step # i, 3)
     \cup When(\/ \E k \in DOMAIN step.results : step.results[k].call \notin ids
               \/ \E id \in ids : Answers(id) # 1 /\ ~(Answers(id) = 0 /\ mayOwe), 4)
     \cup When(\E j \in DOMAIN step.calls, at \in Calls(steps) :
                 Earlier(at, j) /\ steps[at[1]].calls[at[2]].id = step.calls[j].id, 5)
     \cup When(step.cum < before \/ step.cum # before + step.cost, 6)
     \cup When(\/ \E key \in UsageKeys : step.usage[key] < 0
               \/ HashMissing(step, brain) \/ step.stop_reason = "", 12)

CheckSteps(steps, accepted, brain) ==
  UNION {CheckStep(steps, i, accepted, brain) : i \in DOMAIN steps}

\* _budgets: an override counts when run_start declares it
ToolsAllowed(start) ==
  IF "ART30_TOOL_BUDGET" \in start.overridden THEN start.tool_budget
  ELSE IF start.kind = "real" THEN RealTools ELSE SyntheticTools
SubmitsAllowed(start) ==
  IF "ART30_SUBMIT_BUDGET" \in start.overridden THEN start.submit_budget ELSE SubmitBudget

\* Checks 7, 8, 9, 14 and 16: run_end is what the step lines add up to
CheckRunEnd(end, steps, start) ==
  LET cum == IF steps = <<>> THEN 0 ELSE steps[Len(steps)].cum
      submits == Cardinality(Submits(steps))
      truncated == end.note.truncat \/ end.note.counts > 0
  IN When(end.stop \notin StopConditions, 14)
     \cup When(end.cost # cum \/ end.steps # Len(steps) \/ end.calls # Cardinality(Calls(steps)), 7)
     \cup When(\/ end.submits # submits \/ submits > SubmitsAllowed(start)
               \/ end.calls > ToolsAllowed(start), 8)
     \cup When(end.rounds # Cardinality(Rejections(steps)), 9)
     \cup When(truncated /\ (end.stop # "timeout" \/ end.note.counts # 1), 16)

\* _check_completions: what a person filled in names stores of the record
CheckCompletions(point, record) ==
  When(/\ point.filled # {}
       /\ \/ point.by = "simulated"
          \/ \E stores \in record, kinds \in point.filled :
               ~(kinds \subseteq {stores[i].name : i \in DOMAIN stores}), 17)

\* Mutant: one checkpoint at most, none is not missed.
CheckGateAtMost(points, start, end, record) ==
  When(start.arm = "baseline" /\ points # <<>>, 10)
  \cup When(/\ start.arm = "advanced" /\ end.stop \in {"accepted", "gate_rejected"}
            /\ Len(points) > 1, 10)
  \cup UNION {When(points[i].caller # "harness", 10)
              \cup When(\E stores \in record : points[i].risk # Risk(stores), 11)
              \cup CheckCompletions(points[i], record) : i \in DOMAIN points}

\* Checks 10, 11 and 17, against the record the run_end cites if there is one
CheckGate(points, start, end, record) ==
  When(start.arm = "baseline" /\ points # <<>>, 10)
  \cup When(/\ start.arm = "advanced" /\ end.stop \in {"accepted", "gate_rejected"}
            /\ Len(points) # 1, 10)
  \cup UNION {When(points[i].caller # "harness", 10)
              \cup When(\E stores \in record : points[i].risk # Risk(stores), 11)
              \cup CheckCompletions(points[i], record) : i \in DOMAIN points}

\* Check 15: a failure copy has its diagnosis beside it
CheckDiagnosis(place, end) ==
  When(/\ place.failures
       /\ \/ place.diagnosis = {}
          \/ \E said \in place.diagnosis : said.arm # place.arm \/ said.case # place.case
                                           \/ said.stop # end.stop, 15)

\* _parse: check 1, and what the rest reads
Line(raw) == IF raw.type = "unended" THEN raw.of ELSE raw
Parsed(file) == [i \in DOMAIN file |-> Line(file[i])]

\* check_trace; disk is the record.json that may be where run_end says
CheckTrace(place, file, disk) ==
  LET lines == Parsed(file)
      first == lines[1]
      last == lines[Len(lines)]
      steps == Only(lines, "step")
      points == Only(lines, "checkpoint")
      framed == /\ first.type = "run_start" /\ last.type = "run_end"
                /\ Len(Only(lines, "run_start")) = 1 /\ Len(Only(lines, "run_end")) = 1
      pointFirst == /\ points # <<>> /\ steps # <<>>
                    /\ \E i, j \in DOMAIN lines :
                         /\ i < j /\ lines[j].type = "step" /\ lines[i].type = "checkpoint"
                         /\ \A k \in 1..i-1 : lines[k].type # "checkpoint"
  IN IF file = <<>> \/ \E i \in DOMAIN file : file[i].type = "torn" THEN {1}
     ELSE IF ~framed THEN {2}
     ELSE When(pointFirst, 2)
          \cup CheckStart(place, first)
          \cup CheckSteps(steps, last.stop = "accepted", first.brain)
          \cup CheckRunEnd(last, steps, first)
          \cup CheckGate(points, first, last, IF last.cites THEN disk ELSE {})
          \cup (IF last.stop = "accepted" THEN {} ELSE CheckDiagnosis(place, last))
=============================================================================
