-------------------------------- MODULE Report --------------------------------
(***************************************************************************)
(* What is read off the tree the sweeps leave: evals/harness/facts.py and  *)
(* report.py make one table of it, or refuse to; reverify.py scores every  *)
(* run of it again.  Neither knows which sweep wrote what: a sweep may     *)
(* have covered some cells of the plan and another, of another brain,      *)
(* model or checkout, the rest.                                            *)
(*                                                                         *)
(* An engine is [brain, configured, answered, priced, prompt]: the model   *)
(* its run_start names and the one its record names, sets of at most one;  *)
(* whether that one has a price; its prompt_sha.  engine gives that of     *)
(* each sweep.  The overlap of the arms' recording windows is left out.    *)
(***************************************************************************)
EXTENDS SweepCells

CONSTANT Engines

\* An engine has its fields; a model that is named is one.
ASSUME EnginesAssumption ==
  \A e \in Engines : IsFiniteSet(e.configured) /\ IsFiniteSet(e.answered)

\* An optional value, or the one that stands in for it.
Else(some, other) == IF some = {} THEN other ELSE some

\* trace_facts: of the last run_end, and of the run_start there is; without a trace, those of
\* an API run that crashed.
TraceFacts(engine, c) ==
  LET started == {engine[trace[c].sweep] : i \in Kind(trace[c].lines, "start")}
  IN  [trace |-> trace[c].sweep # 0,
       stop |-> TraceEnd(trace[c].lines),
       prompt |-> {e.prompt : e \in started},
       brain |-> Else({e.brain : e \in started}, {"api"}),
       model |-> UNION {e.configured : e \in started},
       cost |-> {"cli_estimate" : e \in {e \in started : e.brain # "api"}},
       tokens |-> trace[c].sweep # 0]

\* provenance: the block of the record in the slot.
Provenance(engine, c) == {engine[s] : s \in {record[c]} \ {0}}

\* settle: what the record says of its run wins over what run_start guessed.
Settle(fact, prov) ==
  LET brain == Else({e.brain : e \in prov}, fact.brain)
      said == {IF e.priced THEN "cli_estimate" ELSE "unpriced" : e \in prov}
  IN  [fact EXCEPT !.brain = brain,
                   !.model = Else(UNION {e.answered : e \in prov}, @),
                   !.cost = IF brain = {"api"} THEN {"measured"}
                            ELSE Else(Else(said, @), {"cli_estimate"}),
                   !.tokens = @ /\ brain # {"api"}]

Facts(engine) == [c \in Plan |-> Settle(TraceFacts(engine, c), Provenance(engine, c))]

\* collect: a planned run that was never scored is a row of zero, with its trace's end.
Row(fact, c) ==
  [stop |-> IF scored[c].sweep # 0 THEN scored[c].why ELSE fact.stop,
   record |-> scored[c].record,
   brain |-> fact.brain, model |-> fact.model, cost |-> fact.cost]

\* _check_traces: a scored run without a trace.
Blind(facts) == {c \in Plan : scored[c].sweep # 0 /\ ~facts[c].trace}

\* _check_brain_models
Models(facts) == UNION {facts[c].model : c \in Plan}

\* Mutant: a brain is one that counts tokens.
BrainsByTokens(facts) == UNION {facts[c].brain : c \in {c \in Plan : facts[c].tokens}}

\* _check_brains: of the runs that left a word of themselves.
Brains(facts) == UNION {facts[c].brain : c \in {c \in Plan : facts[c].prompt # {} \/ facts[c].tokens}}

\* _check_prompt_sha
Prompts(facts) == UNION {facts[c].prompt : c \in Plan}

\* The refusals of build.
Refuses(facts) ==
  \/ Blind(facts) # {}
  \/ Cardinality(Prompts(facts)) > 1
  \/ Cardinality(Brains(facts)) > 1
  \/ Cardinality(Models(facts)) > 1

\* stats.cost_source: the weakest among the rows.
CostSource(rows, brain) ==
  IF brain = {"api"} THEN "measured"
  ELSE IF \E c \in Plan : "unpriced" \in rows[c].cost THEN "unpriced" ELSE "cli_estimate"

\* build: the header over the rows.
Build(engine) ==
  LET facts == Facts(engine)
      rows == [c \in Plan |-> Row(facts[c], c)]
      brain == Else(Brains(facts), {"api"})
  IN  [refused |-> Refuses(facts), rows |-> rows, brain |-> brain, model |-> Models(facts),
       cost |-> CostSource(rows, brain),
       success |-> Cardinality({c \in Plan : rows[c].stop = "accepted"})]

\* reverify.rescore: the score of what the slot and the trace hold now.
Rescored(c) == [record |-> record[c], why |-> TraceEnd(trace[c].lines)]
-----------------------------------------------------------------------------
(* Properties.                                                               *)

\* report.py, ADR 0008: whichever sweeps wrote the tree and wherever they were broken off, a
\* report that is not refused puts no two runs of different brains, prompts or answering
\* models in one table; each scored run whose trace is its own stands under the brain that
\* ran it, and one whose model has no price makes the cost column unpriced.
OneEngine ==
  pc = "idle" =>
    \A engine \in [1..Sweeps -> Engines] :
      LET report == Build(engine)
          own == {c \in Plan : scored[c].sweep # 0 /\ trace[c].sweep = scored[c].sweep}
          Of(c) == engine[scored[c].sweep]
          recorded == {c \in own : scored[c].record # 0}
      IN  ~report.refused =>
            /\ \A c \in own : {Of(c).brain} = report.rows[c].brain /\ report.rows[c].brain = report.brain
            /\ \A c, d \in own : Of(c).prompt = Of(d).prompt
            /\ \A c \in recorded : Of(c).answered \in SUBSET report.model
            /\ \A c, d \in recorded : Of(c).answered = {} \/ Of(d).answered = {} \/ Of(c).answered = Of(d).answered
            /\ (\E c \in recorded : Of(c).brain # "api" /\ ~Of(c).priced) => report.cost = "unpriced"

\* reverify.py, ADR 0008 item 4: at any moment, also after a sweep that was broken off, a
\* metrics.json that is on disk is what its record and its trace score to again.
Rescores ==
  \A c \in Plan : scored[c].sweep # 0 => Rescored(c) = [record |-> scored[c].record, why |-> scored[c].why]

\* cells.py: "No trace at all is `crashed`, which report.py counts from the plan".
CrashedIsCounted ==
  \A c \in Plan, engine \in [1..Sweeps -> Engines] :
    pc = "between" /\ last = Cells /\ scored[c].sweep # 0 /\ trace[c].sweep = 0 =>
      LET report == Build(engine) IN ~report.refused /\ report.rows[c].stop = "crashed"
=============================================================================
